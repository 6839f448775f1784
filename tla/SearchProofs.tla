---------------------------- MODULE SearchProofs ----------------------------
(***************************************************************************)
(* The search of vecdb, for any number of threads and any store, in three  *)
(* parts.                                                                  *)
(*                                                                         *)
(* The pool (vecdb/src/pool.c), for any number of workers, tasks and       *)
(* batches.  None of its safety properties is inductive: a worker that is  *)
(* about to finish knows that the batch is still on only because p->active *)
(* counts it, and that no task is run twice depends on which worker holds  *)
(* which index.  The strengthening says both, with what the client's       *)
(* program counter says of the threads that exist.                         *)
(*                                                                         *)
(* The algorithm (vecdb/src/search.c): a top-k list (IsTop) stays one when *)
(* a vector is inserted that was stored after all it ties with, a scan so  *)
(* builds the list of its range, the merge of two lists is the list of     *)
(* both ranges, and there is one such list only.  Induction on the length  *)
(* of a list is by its least counterexample.                               *)
(*                                                                         *)
(* The commands (vecdb/src/main.c): a command drives the pool by steps of  *)
(* the pool only, so the pool's invariant holds under a search or a        *)
(* benchmark too, through every pool a benchmark makes.  While a search    *)
(* runs, each worker's part of localbuf is the scan of the vectors it has  *)
(* come to (Parts), and nobody else's step changes it, as the parts lie    *)
(* apart; the merged hits are the scan of the ranges merged so far         *)
(* (Results), which the second part shows to be the best k.                *)
(***************************************************************************)
EXTENDS SearchCommands, TLAPS, SequenceTheorems, FiniteSetTheorems, WellFoundedInduction

----------------------------------------------------------------------------
(* The pool.                                                               *)

(* A worker that fetched nothing yet, or fetched and did not run its task. *)
Pending(w) == wpc[w] \in {"fetch", "call"}

(* Which worker holds which task: indices below next, no two the same, and *)
(* a task that was handed out was run or is pending at some worker.        *)
Claims == /\ \A w \in Workers : Holding(w) => idx[w] < next
          /\ \A v, w \in Workers : v # w /\ Holding(v) /\ Holding(w) => idx[v] # idx[w]
          /\ \A w \in Workers : Pending(w) => ran[idx[w]] = 0
          /\ \A i \in 0..(ntasks - 1) :
                \/ i >= next /\ ran[i] = 0
                \/ i < next /\ ran[i] = 1
                \/ i < next /\ \E w \in Workers : Pending(w) /\ idx[w] = i
          /\ \A i \in Tasks : ran[i] <= 1

(* What the client's position says of threads, shutdown flag and batch.    *)
Lifecycle == /\ \A w \in Workers : wpc[w] = "none" <=> w >= created
             /\ mpc = "start" => created = 0 /\ nthreads = 0
             /\ mpc = "creating" => created <= nthreads
             /\ mpc \notin {"start", "creating"} => created = nthreads
             /\ shutdown => mpc \in {"joining", "abandon", "freed", "failed"}
             /\ ~InPoolRun => active = 0

IInv == /\ TypeOK
        /\ ArgsLive
        /\ ActiveCount
        /\ NoLostWakeup
        /\ NoUseAfterFree
        /\ Claims
        /\ Lifecycle

----------------------------------------------------------------------------
(* Holders is a finite set, and one worker more or less counts one.        *)
LEMMA HoldersFinite ==
    /\ IsFiniteSet(Holders)
    /\ Cardinality(Holders) \in Nat
    /\ Cardinality(Holders) = 0 <=> Holders = {}
<1>1. IsFiniteSet(Workers)
  BY FS_Interval, PoolAssumption DEF Workers
<1>2. IsFiniteSet(Holders)
  BY <1>1, FS_Subset DEF Holders
<1> QED
  BY <1>2, FS_CardinalityType, FS_EmptySet

(* With nobody holding a task, and no task left to claim, active is 0 and  *)
(* conversely.                                                             *)
LEMMA DrainedMeansIdle ==
    ASSUME TypeOK, ActiveCount
    PROVE  active = 0 <=> next = ntasks /\ Holders = {}
BY HoldersFinite DEF TypeOK, ActiveCount

(* A step after which the same workers hold tasks.                         *)
LEMMA SameHolders ==
    ASSUME \A w \in Workers : Holding(w)' <=> Holding(w)
    PROVE  Cardinality(Holders') = Cardinality(Holders)
<1>1. Holders' = Holders
  BY DEF Holders, Workers
<1> QED
  BY <1>1

LEMMA OneMoreHolder ==
    ASSUME NEW w \in Workers, ~Holding(w), Holding(w)',
           \A v \in Workers \ {w} : Holding(v)' <=> Holding(v)
    PROVE  Cardinality(Holders') = Cardinality(Holders) + 1
<1>1. Holders' = Holders \cup {w} /\ w \notin Holders
  BY DEF Holders, Workers
<1> QED
  BY <1>1, HoldersFinite, FS_AddElement

LEMMA OneHolderLess ==
    ASSUME NEW w \in Workers, Holding(w), ~Holding(w)',
           \A v \in Workers \ {w} : Holding(v)' <=> Holding(v)
    PROVE  Cardinality(Holders') = Cardinality(Holders) - 1
<1>1. Holders' = Holders \ {w} /\ w \in Holders
  BY DEF Holders, Workers
<1> QED
  BY <1>1, HoldersFinite, FS_RemoveElement

----------------------------------------------------------------------------
LEMMA InitIInv == Init => IInv
<1> SUFFICES ASSUME Init PROVE IInv
  OBVIOUS
<1>1. Holders = {}
  BY DEF Init, Holders, Holding
<1>2. Cardinality(Holders) = 0
  BY <1>1, HoldersFinite
<1>3. TypeOK
  <2>1. /\ 0 \in 0..MaxThreads /\ 0 \in 0..MaxTasks /\ 0 \in 0..MaxBatches
        /\ 0 \in 0..0
    BY PoolAssumption
  <2>2. wpc \in [Workers -> WorkerStates] /\ mpc \in ClientStates
    BY DEF Init, WorkerStates, ClientStates
  <2> QED
    BY <2>1, <2>2 DEF Init, TypeOK
<1>4. ArgsLive /\ ActiveCount /\ NoLostWakeup /\ NoUseAfterFree
  BY <1>2, PoolAssumption DEF Init, ArgsLive, ActiveCount, NoLostWakeup, NoUseAfterFree,
     Holding, InPoolRun, WorkPosted
<1>5. Claims /\ Lifecycle
  BY PoolAssumption DEF Init, Claims, Lifecycle, Holding, Pending, InPoolRun, Workers, Tasks
<1> QED
  BY <1>3, <1>4, <1>5 DEF IInv
----------------------------------------------------------------------------
(* A step of worker w that leaves the batch and the client alone, and does *)
(* not change whether w holds a task.                                      *)
LEMMA IdleWorkerStep ==
    ASSUME IInv, NEW w \in Workers, Sleep(w) \/ Exit(w) \/ SpuriousWakeup(w)
    PROVE  IInv'
<1>1. /\ wpc[w] \in {"lock", "sleep"}
      /\ wpc' = [wpc EXCEPT ![w] = wpc'[w]]
      /\ wpc'[w] \in {"lock", "sleep", "exited"}
      /\ wpc'[w] = "sleep" => ~WorkPosted /\ ~shutdown
      /\ UNCHANGED <<client, batch, shutdown, idx, got, ran>>
  BY DEF Sleep, Exit, SpuriousWakeup, IInv, TypeOK
<1>2. \A v \in Workers : Holding(v)' <=> Holding(v)
  BY <1>1 DEF Holding, IInv, TypeOK
<1>3. TypeOK'
  BY <1>1 DEF IInv, TypeOK, WorkerStates, client, batch
<1>4. ArgsLive'
  BY <1>1 DEF IInv, TypeOK, ArgsLive, Holding, InPoolRun, client, batch
<1>5. ActiveCount'
  BY <1>1, <1>2, SameHolders DEF IInv, ActiveCount, batch
<1>6. NoLostWakeup'
  BY <1>1 DEF IInv, TypeOK, NoLostWakeup, WorkPosted, client, batch
<1>7. NoUseAfterFree'
  BY <1>1 DEF IInv, TypeOK, NoUseAfterFree, Live, client, batch
<1>8. Claims'
  BY <1>1 DEF IInv, TypeOK, Claims, Holding, Pending, client, batch
<1>9. Lifecycle'
  BY <1>1 DEF IInv, TypeOK, Lifecycle, InPoolRun, client, batch
<1> QED
  BY <1>3, <1>4, <1>5, <1>6, <1>7, <1>8, <1>9 DEF IInv

LEMMA ClaimStep ==
    ASSUME IInv, NEW w \in Workers, Claim(w)
    PROVE  IInv'
<1>1. \A v \in Workers \ {w} : Holding(v)' <=> Holding(v)
  BY DEF Claim, Holding, IInv, TypeOK
<1>2. ~Holding(w) /\ Holding(w)'
  BY DEF Claim, Holding, IInv, TypeOK
<1>3. TypeOK'
  BY PoolAssumption DEF IInv, TypeOK, Claim, WorkPosted, Claimed, WorkerStates, client
<1>4. InPoolRun
  BY DrainedMeansIdle DEF Claim, WorkPosted, IInv, TypeOK, Lifecycle
<1>5. ArgsLive'
  BY <1>4 DEF IInv, TypeOK, ArgsLive, Claim, WorkPosted, Claimed, Holding, InPoolRun, client
<1>6. ActiveCount'
  BY <1>1, <1>2, OneMoreHolder, HoldersFinite
  DEF IInv, TypeOK, ActiveCount, Claim, WorkPosted, Claimed
<1>7. NoLostWakeup'
  BY DEF IInv, TypeOK, NoLostWakeup, WorkPosted, Claim, Claimed, client
<1>8. NoUseAfterFree'
  BY <1>4 DEF InPoolRun, Claim, NoUseAfterFree, client
<1>9. Claims'
  BY DEF IInv, TypeOK, Claims, Claim, WorkPosted, Claimed, Holding, Pending, client, Tasks
<1>10. Lifecycle'
  BY <1>4 DEF IInv, TypeOK, Lifecycle, InPoolRun, Claim, client
<1> QED
  BY <1>3, <1>5, <1>6, <1>7, <1>8, <1>9, <1>10 DEF IInv

LEMMA FetchStep ==
    ASSUME IInv, NEW w \in Workers, Fetch(w)
    PROVE  IInv'
<1>1. \A v \in Workers : Holding(v)' <=> Holding(v)
  BY DEF Fetch, Holding, IInv, TypeOK
<1>2. TypeOK'
  BY DEF IInv, TypeOK, Fetch, WorkerStates, client, batch
<1>3. ArgsLive'
  BY DEF IInv, TypeOK, ArgsLive, Fetch, Holding, InPoolRun, client, batch
<1>4. ActiveCount'
  BY <1>1, SameHolders DEF IInv, ActiveCount, Fetch, batch
<1>5. NoLostWakeup' /\ NoUseAfterFree'
  BY DEF IInv, TypeOK, NoLostWakeup, NoUseAfterFree, Live, WorkPosted, Fetch, client, batch
<1>6. Claims'
  BY DEF IInv, TypeOK, Claims, Fetch, Holding, Pending, client, batch
<1>7. Lifecycle'
  BY DEF IInv, TypeOK, Lifecycle, InPoolRun, Fetch, client, batch
<1> QED
  BY <1>2, <1>3, <1>4, <1>5, <1>6, <1>7 DEF IInv

LEMMA RunTaskStep ==
    ASSUME IInv, NEW w \in Workers, RunTask(w)
    PROVE  IInv'
<1>1. \A v \in Workers : Holding(v)' <=> Holding(v)
  BY DEF RunTask, Holding, IInv, TypeOK
<1>2. Holding(w) /\ Pending(w) /\ idx[w] \in Tasks /\ idx[w] < next /\ ran[idx[w]] = 0
  BY PoolAssumption DEF RunTask, Holding, Pending, IInv, TypeOK, ArgsLive, Claims, Tasks
<1>3. TypeOK'
  BY <1>2 DEF IInv, TypeOK, RunTask, WorkerStates, client, batch
<1>4. ArgsLive'
  BY DEF IInv, TypeOK, ArgsLive, RunTask, Holding, InPoolRun, client, batch
<1>5. ActiveCount'
  BY <1>1, SameHolders DEF IInv, ActiveCount, RunTask, batch
<1>6. NoLostWakeup' /\ NoUseAfterFree'
  BY DEF IInv, TypeOK, NoLostWakeup, NoUseAfterFree, Live, WorkPosted, RunTask, client, batch
<1>7. Claims'
  BY <1>2 DEF IInv, TypeOK, Claims, RunTask, Holding, Pending, client, batch, Tasks
<1>8. Lifecycle'
  BY DEF IInv, TypeOK, Lifecycle, InPoolRun, RunTask, client, batch
<1> QED
  BY <1>3, <1>4, <1>5, <1>6, <1>7, <1>8 DEF IInv

LEMMA FinishStep ==
    ASSUME IInv, NEW w \in Workers, Finish(w)
    PROVE  IInv'
<1>1. \A v \in Workers \ {w} : Holding(v)' <=> Holding(v)
  BY DEF Finish, Holding, IInv, TypeOK
<1>2. Holding(w) /\ ~Holding(w)'
  BY DEF Finish, Holding, IInv, TypeOK
<1>3. InPoolRun /\ InPoolRun'
  BY <1>2 DEF Finish, InPoolRun, IInv, ArgsLive
<1>4. active >= 1
  <2>1. Holders # {}
    BY <1>2 DEF Holders
  <2> QED
    BY <2>1, HoldersFinite DEF IInv, TypeOK, ActiveCount
<1>5. TypeOK'
  BY <1>4 DEF IInv, TypeOK, Finish, WorkerStates, ClientStates
<1>6. ArgsLive'
  BY <1>3 DEF IInv, TypeOK, ArgsLive, Finish, Holding
<1>7. ActiveCount'
  BY <1>1, <1>2, OneHolderLess, HoldersFinite DEF IInv, TypeOK, ActiveCount, Finish
<1>8. NoLostWakeup'
  BY <1>4 DEF IInv, TypeOK, NoLostWakeup, WorkPosted, Finish, LastFinisher
<1>9. NoUseAfterFree'
  BY <1>3 DEF InPoolRun, NoUseAfterFree
<1>10. Claims'
  BY DEF IInv, TypeOK, Claims, Finish, Holding, Pending
<1>11. Lifecycle'
  BY <1>3 DEF IInv, TypeOK, Lifecycle, InPoolRun, Finish
<1> QED
  BY <1>5, <1>6, <1>7, <1>8, <1>9, <1>10, <1>11 DEF IInv

----------------------------------------------------------------------------
(* Outside pool_run no task is claimed or left to claim.                   *)
LEMMA NobodyHolds ==
    ASSUME IInv, ~InPoolRun
    PROVE  /\ \A w \in Workers : ~Holding(w)
           /\ next = ntasks
BY DrainedMeansIdle DEF IInv, Lifecycle, Holders

(* Steps of the client that post no batch and finish no batch, and leave   *)
(* every worker where it is or wake it.                                    *)
LEMMA CreationStep ==
    ASSUME IInv,
           (\E n \in 0..MaxThreads : PoolCreate(n)) \/ PoolCreateNoMemory
              \/ CreateThread \/ PoolReady
    PROVE  IInv'
<1>1. /\ ~InPoolRun /\ ~InPoolRun'
      /\ ~shutdown /\ UNCHANGED <<args, ntasks, next, active, shutdown, idx, got, ran>>
  BY DEF PoolCreate, PoolCreateNoMemory, CreateThread, PoolReady, InPoolRun, IInv,
     Lifecycle, batch, worker
<1>2. \A w \in Workers : wpc'[w] # wpc[w] => wpc'[w] = "lock" /\ wpc[w] = "none"
  BY DEF PoolCreate, PoolCreateNoMemory, CreateThread, PoolReady, worker, IInv, TypeOK, Lifecycle
<1>3. \A w \in Workers : Holding(w)' <=> Holding(w)
  BY <1>2 DEF Holding
<1>4. TypeOK'
  <2>1. wpc' \in [Workers -> WorkerStates] /\ created' \in 0..MaxThreads
    BY PoolAssumption DEF PoolCreate, PoolCreateNoMemory, CreateThread, PoolReady, worker,
       IInv, TypeOK, WorkerStates
  <2>2. mpc' \in ClientStates /\ nthreads' \in 0..MaxThreads
    BY PoolAssumption DEF PoolCreate, PoolCreateNoMemory, CreateThread, PoolReady,
       IInv, TypeOK, ClientStates
  <2> QED
    BY <1>1, <2>1, <2>2 DEF IInv, TypeOK
<1>5. ArgsLive'
  BY <1>1, <1>2, NobodyHolds DEF ArgsLive, Holding
<1>6. ActiveCount'
  BY <1>1, <1>3, SameHolders DEF IInv, ActiveCount
<1>7. NoLostWakeup'
  BY <1>1, <1>2, NobodyHolds DEF IInv, NoLostWakeup, WorkPosted, InPoolRun
<1>8. Claims'
  BY <1>1, <1>2, <1>3, NobodyHolds DEF IInv, TypeOK, Claims, Holding, Pending
<1>9. Lifecycle'
  <2>1. \A w \in Workers : wpc'[w] = "none" <=> w >= created'
    <3>1. CASE CreateThread
      <4>1. created \in Nat /\ wpc' = [wpc EXCEPT ![created] = "lock"] /\ created' = created + 1
        BY <3>1 DEF CreateThread, IInv, TypeOK
      <4>2. \A w \in Workers : w # created => wpc'[w] = wpc[w]
        BY <4>1 DEF IInv, TypeOK
      <4>3. \A w \in Workers : w = created => wpc'[w] = "lock"
        BY <4>1 DEF IInv, TypeOK
      <4> QED
        BY <4>1, <4>2, <4>3 DEF IInv, Lifecycle, Workers
    <3>2. CASE ~CreateThread
      BY <3>2 DEF PoolCreate, PoolCreateNoMemory, PoolReady, worker, IInv, Lifecycle
    <3> QED
      BY <3>1, <3>2
  <2>2. /\ mpc' # "start"
        /\ mpc' = "creating" => created' <= nthreads'
        /\ mpc' # "creating" => created' = nthreads'
    BY DEF PoolCreate, PoolCreateNoMemory, CreateThread, PoolReady, IInv, TypeOK, Lifecycle
  <2> QED
    BY <1>1, <2>1, <2>2 DEF IInv, Lifecycle
<1>10. NoUseAfterFree'
  <2>1. mpc' \in {"freed", "failed"} => PoolCreateNoMemory
    BY DEF PoolCreate, CreateThread, PoolReady, IInv, TypeOK, Lifecycle
  <2>2. CASE PoolCreateNoMemory
    BY <2>2 DEF PoolCreateNoMemory, NoUseAfterFree, Live, IInv, Lifecycle, worker, Workers
  <2> QED
    BY <2>1, <2>2 DEF NoUseAfterFree
<1> QED
  BY <1>4, <1>5, <1>6, <1>7, <1>8, <1>9, <1>10 DEF IInv

LEMMA ShutdownStep ==
    ASSUME IInv, CreateThreadFails \/ PoolDestroy
    PROVE  IInv'
<1>1. /\ ~InPoolRun /\ ~InPoolRun' /\ mpc' \in {"joining", "abandon"}
      /\ nthreads' = created /\ created' = created
      /\ shutdown' = TRUE /\ wpc' = WakeAll
      /\ UNCHANGED <<args, ntasks, next, active, idx, got, ran>>
  BY DEF CreateThreadFails, PoolDestroy, Shutdown, InPoolRun, IInv, Lifecycle, batch
<1>2. \A w \in Workers : /\ wpc'[w] # wpc[w] => wpc'[w] = "lock" /\ wpc[w] = "sleep"
                         /\ wpc'[w] # "sleep"
  BY <1>1 DEF WakeAll
<1>3. \A w \in Workers : Holding(w)' <=> Holding(w)
  BY <1>2 DEF Holding
<1>4. TypeOK'
  BY <1>1 DEF IInv, TypeOK, WakeAll, WorkerStates, ClientStates
<1>5. ArgsLive'
  BY <1>1, <1>2, NobodyHolds DEF ArgsLive, Holding
<1>6. ActiveCount'
  BY <1>1, <1>3, SameHolders DEF IInv, ActiveCount
<1>7. NoLostWakeup' /\ NoUseAfterFree'
  BY <1>1, <1>2 DEF NoLostWakeup, NoUseAfterFree
<1>8. Claims'
  BY <1>1, <1>2, <1>3, NobodyHolds DEF IInv, TypeOK, Claims, Holding, Pending
<1>9. Lifecycle'
  BY <1>1, <1>2 DEF IInv, Lifecycle
<1> QED
  BY <1>4, <1>5, <1>6, <1>7, <1>8, <1>9 DEF IInv

LEMMA PoolRunStep ==
    ASSUME IInv, NEW asked \in 0..MaxTasks, PoolRun(asked)
    PROVE  IInv'
<1>1. ~InPoolRun /\ InPoolRun' /\ ~shutdown /\ shutdown' = shutdown
  BY DEF PoolRun, InPoolRun, IInv, Lifecycle
<1>2. \A w \in Workers : /\ wpc'[w] # wpc[w] => wpc'[w] = "lock" /\ wpc[w] = "sleep"
                         /\ wpc'[w] # "sleep"
  BY DEF PoolRun, WakeAll
<1>3. \A w \in Workers : ~Holding(w) /\ ~Holding(w)'
  BY <1>1, <1>2, NobodyHolds DEF Holding
<1>4. TypeOK'
  BY PoolAssumption DEF IInv, TypeOK, PoolRun, ActiveAtStart, WakeAll, WorkerStates, ClientStates
<1>5. ArgsLive'
  BY <1>3 DEF ArgsLive, Holding
<1>6. ActiveCount'
  <2>1. Holders = {} /\ Holders' = {}
    BY <1>3 DEF Holders
  <2>2. Cardinality(Holders') = 0
    BY <2>1, HoldersFinite
  <2> QED
    BY <2>2 DEF ActiveCount, PoolRun, ActiveAtStart
<1>7. NoLostWakeup'
  BY <1>1, <1>2 DEF NoLostWakeup, PoolRun, ActiveAtStart
<1>8. NoUseAfterFree'
  BY <1>1 DEF NoUseAfterFree, InPoolRun
<1>9. Claims'
  <2>1. /\ next' = 0 /\ ntasks' = asked
        /\ \A i \in Tasks : ran'[i] = 0
    BY DEF PoolRun
  <2>2. \A w \in Workers : ~Holding(w)' /\ ~Pending(w)'
    BY <1>3 DEF Holding, Pending
  <2>3. 0..(asked - 1) \subseteq Tasks
    BY PoolAssumption DEF Tasks
  <2> QED
    BY <2>1, <2>2, <2>3 DEF Claims
<1>10. Lifecycle'
  BY <1>1, <1>2 DEF IInv, Lifecycle, PoolRun, InPoolRun
<1> QED
  BY <1>4, <1>5, <1>6, <1>7, <1>8, <1>9, <1>10 DEF IInv

(* The client tests p->active, or is woken, or returns from pool_run.      *)
LEMMA WaitStep ==
    ASSUME IInv, PoolRunSleep \/ PoolRunReturn \/ SpuriousClientWakeup
    PROVE  IInv'
<1>1. /\ InPoolRun /\ mpc' \in {"sleep", "lock", "idle"}
      /\ UNCHANGED <<nthreads, created, batch, shutdown, worker, ran>>
      /\ mpc' = "sleep" => active > 0
      /\ mpc' = "idle" => active = 0
  BY DEF PoolRunSleep, PoolRunReturn, SpuriousClientWakeup, InPoolRun, Drained, IInv, TypeOK
<1>2. \A w \in Workers : Holding(w)' <=> Holding(w)
  BY <1>1 DEF Holding, worker
<1>3. TypeOK'
  BY <1>1 DEF IInv, TypeOK, ClientStates, batch, worker
<1>4. ArgsLive'
  BY <1>1, <1>2, DrainedMeansIdle
  DEF IInv, ArgsLive, Holding, Holders, InPoolRun, batch, worker
<1>5. ActiveCount'
  BY <1>1, <1>2, SameHolders DEF IInv, ActiveCount, batch
<1>6. NoLostWakeup' /\ NoUseAfterFree'
  BY <1>1 DEF IInv, NoLostWakeup, NoUseAfterFree, WorkPosted, batch, worker
<1>7. Claims'
  BY <1>1 DEF IInv, Claims, Holding, Pending, batch, worker
<1>8. Lifecycle'
  BY <1>1 DEF IInv, Lifecycle, InPoolRun, batch, worker
<1> QED
  BY <1>3, <1>4, <1>5, <1>6, <1>7, <1>8 DEF IInv

LEMMA JoinStep ==
    ASSUME IInv, Join
    PROVE  IInv'
<1>1. /\ ~InPoolRun /\ ~InPoolRun' /\ mpc' \in {"freed", "failed"}
      /\ UNCHANGED <<nthreads, created, batch, shutdown, worker, ran>>
      /\ created = nthreads /\ Joined
  BY DEF Join, InPoolRun, IInv, Lifecycle
<1>2. \A w \in Workers : Holding(w)' <=> Holding(w)
  BY <1>1 DEF Holding, worker
<1>3. TypeOK'
  BY <1>1 DEF IInv, TypeOK, ClientStates, batch, worker
<1>4. ArgsLive'
  BY <1>1, <1>2, NobodyHolds DEF ArgsLive, Holding, worker
<1>5. ActiveCount'
  BY <1>1, <1>2, SameHolders DEF IInv, ActiveCount, batch
<1>6. NoUseAfterFree'
  BY <1>1 DEF IInv, TypeOK, Lifecycle, Joined, NoUseAfterFree, Live, worker, Workers
<1>7. NoLostWakeup'
  BY <1>1 DEF IInv, NoLostWakeup, WorkPosted, batch, worker
<1>8. Claims'
  BY <1>1 DEF IInv, Claims, Holding, Pending, batch, worker
<1>9. Lifecycle'
  BY <1>1 DEF IInv, Lifecycle, batch, worker
<1> QED
  BY <1>3, <1>4, <1>5, <1>6, <1>7, <1>8, <1>9 DEF IInv

LEMMA StutterStep ==
    ASSUME IInv, UNCHANGED vars
    PROVE  IInv'
<1>1. Holders' = Holders
  BY DEF Holders, Holding, vars, worker
<1>2. ActiveCount'
  BY <1>1 DEF IInv, ActiveCount, vars, batch
<1>3. TypeOK' /\ ArgsLive' /\ NoLostWakeup' /\ NoUseAfterFree'
  BY DEF IInv, TypeOK, ArgsLive, NoLostWakeup, NoUseAfterFree, Live, Holding, InPoolRun,
     WorkPosted, vars, client, batch, worker
<1>4. Claims' /\ Lifecycle'
  BY DEF IInv, Claims, Lifecycle, Holding, Pending, InPoolRun, vars, client, batch, worker
<1> QED
  BY <1>2, <1>3, <1>4 DEF IInv

(* The strengthened invariant holds in every reachable state.              *)
THEOREM Inductive == Spec => []IInv
<1>1. IInv /\ [Next]_vars => IInv'
  <2> SUFFICES ASSUME IInv, [Next]_vars PROVE IInv'
    OBVIOUS
  <2>1. CASE Client
    BY <2>1, CreationStep, ShutdownStep, PoolRunStep, WaitStep, JoinStep DEF Client
  <2>2. CASE Gone \/ UNCHANGED vars
    BY <2>2, StutterStep DEF Gone
  <2>3. CASE \E w \in Workers : Step(w) \/ SpuriousWakeup(w)
    <3> SUFFICES ASSUME NEW w \in Workers, Step(w) \/ SpuriousWakeup(w) PROVE IInv'
      BY <2>3
    <3> QED
      BY IdleWorkerStep, ClaimStep, FetchStep, RunTaskStep, FinishStep DEF Step
  <2> QED
    BY <2>1, <2>2, <2>3 DEF Next
<1> QED
  BY <1>1, InitIInv, PTL DEF Spec

(* The ranges of the pool's counters.                                      *)
THEOREM TypeCorrect == Spec => []TypeOK
<1>1. IInv => TypeOK
  BY DEF IInv
<1> QED
  BY <1>1, Inductive, PTL

(* pool.c:38: reading fn and args without the lock is safe.                *)
THEOREM ArgsLiveCorrect == Spec => []ArgsLive
<1>1. IInv => ArgsLive
  BY DEF IInv
<1> QED
  BY <1>1, Inductive, PTL

(* pool_run returns with every task of the batch run, none twice.          *)
THEOREM RunOnceCorrect == Spec => []RunOnce
<1>1. IInv => RunOnce
  <2> SUFFICES ASSUME IInv PROVE RunOnce
    OBVIOUS
  <2>1. CASE mpc \in {"idle", "joining"}
    <3>1. next = ntasks /\ \A w \in Workers : ~Pending(w)
      BY <2>1, NobodyHolds DEF InPoolRun, Holding, Pending
    <3>2. \A i \in 0..(ntasks - 1) : ran[i] = 1
      BY <3>1 DEF IInv, TypeOK, Claims
    <3> QED
      BY <3>2 DEF RunOnce, IInv, Claims
  <2> QED
    BY <2>1 DEF RunOnce, IInv, Claims
<1> QED
  BY <1>1, Inductive, PTL

(* p->active counts the tasks that are not finished.                       *)
THEOREM ActiveCountCorrect == Spec => []ActiveCount
<1>1. IInv => ActiveCount
  BY DEF IInv
<1> QED
  BY <1>1, Inductive, PTL

(* Neither the caller nor a worker sleeps through the wakeup it needs.     *)
THEOREM NoLostWakeupCorrect == Spec => []NoLostWakeup
<1>1. IInv => NoLostWakeup
  BY DEF IInv
<1> QED
  BY <1>1, Inductive, PTL

(* The pool is freed only when no worker is left.                          *)
THEOREM NoUseAfterFreeCorrect == Spec => []NoUseAfterFree
<1>1. IInv => NoUseAfterFree
  BY DEF IInv
<1> QED
  BY <1>1, Inductive, PTL

----------------------------------------------------------------------------
(* Every step of the pool is a step of the parallel loop it implements, or *)
(* none: posting a batch is Start, running a task is Execute, and leaving  *)
(* pool_run is Return.                                                     *)
Phase == IF InPoolRun THEN "busy" ELSE "idle"
Todo == IF InPoolRun THEN {i \in 0..(ntasks - 1) : ran[i] = 0} ELSE {}

(* A step that neither enters nor leaves pool_run and runs no task.        *)
LEMMA HiddenStep ==
    ASSUME InPoolRun' <=> InPoolRun, UNCHANGED <<ntasks, ran>>
    PROVE  UNCHANGED <<Phase, Todo>>
<1>1. CASE InPoolRun
  BY <1>1 DEF Phase, Todo
<1>2. CASE ~InPoolRun
  BY <1>2 DEF Phase, Todo
<1> QED
  BY <1>1, <1>2

LEMMA RunTaskExecutes ==
    ASSUME IInv, NEW w \in Workers, RunTask(w)
    PROVE  /\ idx[w] \in Todo /\ idx[w] \in 0..(MaxTasks - 1)
           /\ Todo' = Todo \ {idx[w]} /\ Phase' = Phase
<1>1. /\ idx[w] \in 0..(ntasks - 1) /\ ran[idx[w]] = 0 /\ InPoolRun
      /\ 0..(ntasks - 1) \subseteq Tasks
  BY PoolAssumption DEF RunTask, IInv, TypeOK, ArgsLive, Claims, Holding, Pending, Tasks
<1>2. InPoolRun' /\ ntasks' = ntasks /\ ran' = [ran EXCEPT ![idx[w]] = 1]
  BY <1>1 DEF RunTask, InPoolRun, client, batch
<1>3. \A i \in 0..(ntasks - 1) : ran'[i] = 0 <=> ran[i] = 0 /\ i # idx[w]
  BY <1>1, <1>2 DEF IInv, TypeOK
<1> QED
  BY <1>1, <1>2, <1>3 DEF Phase, Todo, Tasks

LEMMA PoolRunStarts ==
    ASSUME IInv, NEW asked \in 0..MaxTasks, PoolRun(asked)
    PROVE  /\ asked \in 1..MaxTasks
           /\ Phase = "idle" /\ Phase' = "busy"
           /\ Todo' = 0..(asked - 1)
<1>1. 0..(asked - 1) \subseteq Tasks
  BY PoolAssumption DEF Tasks
<1>2. InPoolRun' /\ ~InPoolRun /\ ntasks' = asked /\ \A i \in Tasks : ran'[i] = 0
  BY DEF PoolRun, InPoolRun
<1> QED
  BY <1>1, <1>2, PoolAssumption DEF PoolRun, Phase, Todo

LEMMA PoolRunReturns ==
    ASSUME IInv, PoolRunReturn
    PROVE  /\ Phase = "busy" /\ Phase' = "idle"
           /\ Todo = {} /\ Todo' = {}
<1>1. InPoolRun /\ ~InPoolRun' /\ active = 0
  BY DEF PoolRunReturn, InPoolRun, Drained, IInv, TypeOK
<1>2. next = ntasks /\ \A w \in Workers : ~Pending(w)
  BY <1>1, DrainedMeansIdle DEF IInv, Holders, Holding, Pending
<1>3. \A i \in 0..(ntasks - 1) : ran[i] = 1
  BY <1>2 DEF IInv, TypeOK, Claims
<1> QED
  BY <1>1, <1>3 DEF Phase, Todo

(* The pool implements pool.h's parallel loop.                             *)
THEOREM PoolRefinement == Spec => PoolSafe
<1>1. Init => Pool!PFInit
  BY DEF Init, Pool!PFInit, InPoolRun
<1>2. IInv /\ [Next]_vars => [Pool!PFNext]_(Pool!pfvars)
  <2> SUFFICES ASSUME IInv, [Next]_vars PROVE [Pool!PFNext]_(Pool!pfvars)
    OBVIOUS
  <2>1. UNCHANGED <<Phase, Todo>> => UNCHANGED Pool!pfvars
    BY DEF Pool!pfvars, Phase, Todo
  <2>2. CASE \E asked \in 0..MaxTasks : PoolRun(asked)
    <3> PICK asked \in 0..MaxTasks : PoolRun(asked)
      BY <2>2
    <3>1. Pool!Start
      BY PoolRunStarts DEF Pool!Start, Phase, Todo
    <3> QED
      BY <3>1 DEF Pool!PFNext
  <2>3. CASE PoolRunReturn
    <3>1. Pool!Return
      BY <2>3, PoolRunReturns DEF Pool!Return, Phase, Todo
    <3> QED
      BY <3>1 DEF Pool!PFNext
  <2>4. CASE \E w \in Workers : RunTask(w)
    <3> PICK w \in Workers : RunTask(w)
      BY <2>4
    <3>1. \E i \in 0..(MaxTasks - 1) : Pool!Execute(i)
      <4> SUFFICES \E i \in 0..(MaxTasks - 1) :
              i \in Todo /\ Todo' = Todo \ {i} /\ Phase' = Phase
        BY DEF Pool!Execute, Phase, Todo
      <4> QED
        BY RunTaskExecutes
    <3> QED
      BY <3>1 DEF Pool!PFNext, Pool!Execute
  <2>5. CASE /\ ~\E asked \in 0..MaxTasks : PoolRun(asked)
             /\ ~PoolRunReturn
             /\ ~\E w \in Workers : RunTask(w)
    <3>1. CASE Client
      BY <2>5, <3>1, HiddenStep, <2>1 DEF Client, PoolCreate, PoolCreateNoMemory, CreateThread,
         CreateThreadFails, Shutdown, PoolReady, PoolRunSleep, PoolDestroy, Join,
         SpuriousClientWakeup, InPoolRun, batch
    <3>2. CASE \E w \in Workers : Step(w) \/ SpuriousWakeup(w)
      <4> PICK w \in Workers : Step(w) \/ SpuriousWakeup(w)
        BY <3>2
      <4>1. CASE Finish(w)
        BY <4>1, HiddenStep, <2>1 DEF Finish, InPoolRun
      <4>2. CASE ~Finish(w)
        BY <2>5, <4>2, HiddenStep, <2>1 DEF Step, Sleep, Exit, Claim, Fetch,
           SpuriousWakeup, InPoolRun, client, batch
      <4> QED
        BY <4>1, <4>2
    <3>3. CASE Gone \/ UNCHANGED vars
      BY <3>3, HiddenStep, <2>1 DEF Gone, vars, InPoolRun, client, batch
    <3> QED
      BY <3>1, <3>2, <3>3 DEF Next
  <2> QED
    BY <2>2, <2>3, <2>4, <2>5
<1> QED
  BY <1>1, <1>2, Inductive, PTL DEF Spec, PoolSafe, Pool!PFSafe

----------------------------------------------------------------------------
(* The algorithm.                                                          *)

HitSet == [score : Int, index : Nat]

(* L is the list of the best k of the vectors in S: sorted, of vectors in  *)
(* S with their scores, and who is not in it is behind all that are.       *)
IsTop(L, sc, S, kk) ==
    /\ L \in Seq(HitSet) /\ Len(L) <= kk
    /\ \A r \in 1..Len(L) : L[r].index \in S /\ L[r] = Hit(sc, L[r].index)
    /\ \A r, s \in 1..Len(L) : r < s => Better(sc, L[r].index, L[s].index)
    /\ \A i \in S : \/ \E r \in 1..Len(L) : L[r].index = i
                    \/ Len(L) = kk /\ \A r \in 1..kk : Better(sc, L[r].index, i)

(* Stores, as functions from the vectors' numbers to their scores.         *)
IsStore(sc) == DOMAIN sc \subseteq Nat /\ \A i \in DOMAIN sc : sc[i] \in Int

----------------------------------------------------------------------------
LEMMA Least ==
    ASSUME NEW S \in SUBSET Nat, S # {}
    PROVE  \E m \in S : \A n \in S : m <= n
<1> DEFINE R == {ss \in Nat \X Nat : ss[1] < ss[2]}
<1>1. IsWellFoundedOn(R, Nat)
  BY NatLessThanWellFounded DEF OpToRel
<1>2. PICK m \in S : \A n \in S : ~ (<<n, m>> \in R)
  BY <1>1, WFMin
<1>3. \A n \in S : <<n, m>> \in Nat \X Nat /\ <<n, m>>[1] = n /\ <<n, m>>[2] = m
  OBVIOUS
<1>4. \A n \in S : ~(n < m)
  BY <1>2, <1>3
<1> QED
  BY <1>4

(* The form in which it replaces induction.                                *)
LEMMA LeastBad ==
    ASSUME NEW S \in SUBSET Nat, S # {}
    PROVE  \E m \in S : m # 0 => m - 1 \in Nat \ S
<1>1. PICK m \in S : \A n \in S : m <= n
  BY Least
<1>2. m # 0 => m - 1 \in Nat /\ ~(m <= m - 1)
  OBVIOUS
<1> QED
  BY <1>1, <1>2

LEMMA Greatest ==
    ASSUME NEW n \in Nat, NEW S \in SUBSET (1..n), S # {}
    PROVE  Max(S) \in S /\ \A j \in S : j <= Max(S)
<1> DEFINE T == {n - j : j \in S}
<1>1. T \in SUBSET Nat /\ T # {}
  <2>1. \A j \in S : n - j \in Nat /\ n - j \in T
    OBVIOUS
  <2> QED
    BY <2>1
<1>2. PICK m \in T : \A i \in T : m <= i
  BY <1>1, Least
<1>3. PICK x \in S : m = n - x
  BY <1>2
<1>4. \A j \in S : x >= j
  <2> SUFFICES ASSUME NEW j \in S PROVE x >= j
    OBVIOUS
  <2>1. m <= n - j
    BY <1>2
  <2> QED
    BY <1>3, <2>1
<1> QED
  BY <1>4 DEF Max

(* Better is a strict total order on the vectors of a store.               *)
LEMMA BetterOrders ==
    ASSUME NEW sc, IsStore(sc)
    PROVE  /\ \A i \in DOMAIN sc : ~Better(sc, i, i)
           /\ \A i, j \in DOMAIN sc : i = j \/ Better(sc, i, j) \/ Better(sc, j, i)
           /\ \A i, j \in DOMAIN sc : ~(Better(sc, i, j) /\ Better(sc, j, i))
           /\ \A i, j, l \in DOMAIN sc :
                 Better(sc, i, j) /\ Better(sc, j, l) => Better(sc, i, l)
BY DEF IsStore, Better

----------------------------------------------------------------------------
(* A new hit stays behind the kept ones that score as much or more.        *)
LEMMA RankOf ==
    ASSUME NEW kept \in Seq(HitSet), NEW score \in Int,
           \A r, s \in 1..Len(kept) : r < s => kept[r].score >= kept[s].score
    PROVE  /\ Rank(kept, score) \in 0..Len(kept)
           /\ \A r \in 1..Len(kept) : r <= Rank(kept, score) <=> kept[r].score >= score
<1> DEFINE I == {r \in 1..Len(kept) : kept[r].score >= score}
<1>1. Rank(kept, score) = IF I # {} THEN Max(I) ELSE 0
  BY DEF Rank, SelectLastInSeq
<1>2. PICK n \in Nat : Len(kept) = n
  BY LenProperties
<1>3. \A r \in 1..n : kept[r].score \in Int
  <2>1. \A r \in 1..n : kept[r] \in HitSet
    BY <1>2, ElementOfSeq
  <2> QED
    BY <2>1 DEF HitSet
<1>4. CASE I = {}
  BY <1>1, <1>2, <1>3, <1>4
<1>5. CASE I # {}
  <2>1. I \in SUBSET (1..n)
    BY <1>2
  <2>2. PICK m \in 1..n : m = Max(I) /\ m \in I /\ \A j \in I : j <= m
    BY <1>5, <2>1, Greatest
  <2>3. \A r \in 1..n : r <= m <=> kept[r].score >= score
    <3> SUFFICES ASSUME NEW r \in 1..n PROVE r <= m <=> kept[r].score >= score
      OBVIOUS
    <3>1. r < m => kept[r].score >= kept[m].score
      BY <1>2
    <3>2. kept[m].score >= score
      BY <2>2
    <3>3. r <= m => kept[r].score >= score
      BY <1>3, <3>1, <3>2
    <3>4. kept[r].score >= score => r <= m
      BY <1>2, <2>2
    <3> QED
      BY <3>3, <3>4
  <2> QED
    BY <1>1, <1>2, <1>5, <2>2, <2>3
<1> QED
  BY <1>4, <1>5

(* Where the hits of a list are after an insertion.                        *)
LEMMA Inserted ==
    ASSUME NEW s \in Seq(HitSet), NEW p \in 0..Len(s), NEW h \in HitSet
    PROVE  /\ InsertAt(s, p + 1, h) \in Seq(HitSet)
           /\ Len(InsertAt(s, p + 1, h)) = Len(s) + 1
           /\ \A r \in 1..p : InsertAt(s, p + 1, h)[r] = s[r]
           /\ InsertAt(s, p + 1, h)[p + 1] = h
           /\ \A r \in (p + 2)..(Len(s) + 1) : InsertAt(s, p + 1, h)[r] = s[r - 1]
<1>1. PICK n \in Nat : Len(s) = n
  BY LenProperties
<1>2. p \in Nat /\ p <= n
  BY <1>1
<1>3. \A i \in 1..n : s[i] \in HitSet
  BY <1>1, ElementOfSeq
<1>4. PICK a : a = SubSeq(s, 1, p)
  OBVIOUS
<1>5. a \in Seq(HitSet) /\ Len(a) = p /\ \A r \in 1..p : a[r] = s[r]
  BY <1>2, <1>3, <1>4, SubSeqProperties
<1>6. PICK b : b = SubSeq(s, p + 1, n)
  OBVIOUS
<1>7. b \in Seq(HitSet) /\ Len(b) = n - p /\ \A r \in 1..(n - p) : b[r] = s[p + r]
  <2>1. \A i \in (p + 1)..n : s[i] \in HitSet
    BY <1>2, <1>3
  <2>2. /\ b \in Seq(HitSet)
        /\ Len(b) = IF p + 1 <= n THEN n - (p + 1) + 1 ELSE 0
        /\ \A r \in 1..(n - (p + 1) + 1) : b[r] = s[(p + 1) + r - 1]
    BY <1>2, <1>6, <2>1, SubSeqProperties
  <2>3. n - (p + 1) + 1 = n - p /\ \A r \in Int : (p + 1) + r - 1 = p + r
    BY <1>2
  <2> QED
    BY <1>2, <2>2, <2>3
<1>8. PICK c : c = a \o <<h>>
  OBVIOUS
<1>9. /\ c \in Seq(HitSet) /\ Len(c) = p + 1
      /\ \A r \in 1..p : c[r] = s[r]
      /\ c[p + 1] = h
  BY <1>2, <1>5, <1>8
<1>10. PICK d : d = c \o b
  OBVIOUS
<1>11. /\ d \in Seq(HitSet) /\ Len(d) = n + 1
       /\ \A r \in 1..(p + 1) : d[r] = c[r]
       /\ \A r \in (p + 2)..(n + 1) : d[r] = b[r - (p + 1)]
  <2>1. /\ d \in Seq(HitSet) /\ Len(d) = (p + 1) + (n - p)
        /\ \A i \in 1..((p + 1) + (n - p)) : d[i] = IF i <= p + 1 THEN c[i] ELSE b[i - (p + 1)]
    <3>1. /\ d \in Seq(HitSet) /\ Len(d) = Len(c) + Len(b)
          /\ \A i \in 1..(Len(c) + Len(b)) : d[i] = IF i <= Len(c) THEN c[i] ELSE b[i - Len(c)]
      BY <1>7, <1>9, <1>10, ConcatProperties
    <3> QED
      BY <1>7, <1>9, <3>1
  <2>2. (p + 1) + (n - p) = n + 1
    BY <1>2
  <2>3. \A r \in 1..(p + 1) : r \in 1..(n + 1) /\ r <= p + 1
    BY <1>2
  <2>4. \A r \in (p + 2)..(n + 1) : r \in 1..(n + 1) /\ ~(r <= p + 1)
    BY <1>2
  <2> QED
    BY <2>1, <2>2, <2>3, <2>4
<1>12. InsertAt(s, p + 1, h) = d
  <2>1. (p + 1) - 1 = p
    BY <1>2
  <2> QED
    BY <1>1, <1>4, <1>6, <1>8, <1>10, <2>1 DEF InsertAt
<1>13. \A r \in (p + 2)..(n + 1) : d[r] = s[r - 1]
  <2> SUFFICES ASSUME NEW r \in (p + 2)..(n + 1) PROVE d[r] = s[r - 1]
    OBVIOUS
  <2>1. r - (p + 1) \in 1..(n - p) /\ p + (r - (p + 1)) = r - 1
    BY <1>2
  <2> QED
    BY <1>7, <1>11, <2>1
<1>14. \A r \in 1..p : d[r] = s[r]
  <2>1. \A r \in 1..p : r \in 1..(p + 1)
    BY <1>2
  <2> QED
    BY <1>9, <1>11, <2>1
<1>15. d[p + 1] = h
  BY <1>2, <1>9, <1>11
<1> QED
  BY <1>1, <1>11, <1>12, <1>13, <1>14, <1>15

----------------------------------------------------------------------------
AtLeast(sc, i, j) == i = j \/ Better(sc, i, j)

(* The list before an insertion, with its hits' scores.                    *)
LEMMA TopScores ==
    ASSUME NEW sc, IsStore(sc), NEW S \in SUBSET DOMAIN sc,
           NEW kk, NEW L, IsTop(L, sc, S, kk), NEW n \in Nat, Len(L) = n
    PROVE  /\ \A r \in 1..n : /\ L[r].index \in S /\ L[r].score = sc[L[r].index]
                              /\ L[r] \in HitSet /\ L[r].score \in Int
           /\ \A r, s \in 1..n : r < s => L[r].score >= L[s].score
<1>1. \A r \in 1..n : /\ L[r].index \in S /\ L[r].score = sc[L[r].index]
                      /\ L[r] \in HitSet /\ L[r].score \in Int
  <2> SUFFICES ASSUME NEW r \in 1..n
               PROVE  /\ L[r].index \in S /\ L[r].score = sc[L[r].index]
                      /\ L[r] \in HitSet /\ L[r].score \in Int
    OBVIOUS
  <2>1. L[r].index \in S /\ L[r] = Hit(sc, L[r].index)
    BY DEF IsTop
  <2>2. L[r] \in HitSet
    BY ElementOfSeq DEF IsTop
  <2>3. L[r].score = sc[L[r].index]
    BY <2>1 DEF Hit
  <2>4. L[r].score \in Int
    BY <2>2 DEF HitSet
  <2> QED
    BY <2>1, <2>2, <2>3, <2>4
<1>2. \A r, s \in 1..n : r < s => L[r].score >= L[s].score
  BY <1>1 DEF IsTop, Better
<1> QED
  BY <1>1, <1>2

(* Stored after all of S that tie with it.                                 *)
ComesAfter(sc, S, i) == \A e \in S : sc[e] = sc[i] => e < i

(* A full list whose weakest hit scores as much stays.                     *)
LEMMA TopRefuses ==
    ASSUME NEW sc, IsStore(sc), NEW S \in SUBSET DOMAIN sc,
           NEW i \in DOMAIN sc, ComesAfter(sc, S, i),
           NEW kk \in Nat \ {0}, NEW L, IsTop(L, sc, S, kk),
           Len(L) = kk, sc[i] <= L[kk].score
    PROVE  IsTop(L, sc, S \cup {i}, kk)
<1>1. Len(L) = kk
  OBVIOUS
<1>2. /\ \A r \in 1..kk : /\ L[r].index \in S /\ L[r].score = sc[L[r].index]
                         /\ L[r] \in HitSet /\ L[r].score \in Int
      /\ \A r, s \in 1..kk : r < s => L[r].score >= L[s].score
  <2>1. PICK n \in Nat : n = kk /\ Len(L) = n
    OBVIOUS
  <2>2. \A r \in 1..n : /\ L[r].index \in S /\ L[r].score = sc[L[r].index]
                         /\ L[r] \in HitSet /\ L[r].score \in Int
    <3> SUFFICES ASSUME NEW r \in 1..n
                 PROVE  /\ L[r].index \in S /\ L[r].score = sc[L[r].index]
                        /\ L[r] \in HitSet /\ L[r].score \in Int
      OBVIOUS
    <3>1. L[r].index \in S /\ L[r].score = sc[L[r].index]
      BY <2>1, TopScores
    <3>2. L[r] \in HitSet /\ L[r].score \in Int
      BY <2>1, TopScores
    <3> QED
      BY <3>1, <3>2
  <2>3. \A r, s \in 1..n : r < s => L[r].score >= L[s].score
    BY <2>1, TopScores
  <2> QED
    BY <2>1, <2>2, <2>3
<1>3. \A r \in 1..kk : Better(sc, L[r].index, i)
  <2> SUFFICES ASSUME NEW r \in 1..kk PROVE Better(sc, L[r].index, i)
    OBVIOUS
  <2>1. kk \in 1..kk /\ (r < kk \/ r = kk)
    OBVIOUS
  <2>2. L[r].score >= L[kk].score
    BY <1>2, <2>1
  <2>3. sc[i] <= L[kk].score /\ sc[i] \in Int
    BY DEF IsStore
  <2>4. sc[L[r].index] >= sc[i]
    BY <1>2, <2>1, <2>2, <2>3
  <2>5. sc[L[r].index] \in Int /\ L[r].index \in S
    BY <1>2
  <2> QED
    BY <2>3, <2>4, <2>5 DEF Better, ComesAfter
<1> QED
  BY <1>1, <1>3 DEF IsTop

(* Otherwise it takes the vector in, and may lose its weakest hit.         *)
MakesRoom(sc, i, kept, L, kk) ==
    /\ \A r \in 1..Len(kept) : kept[r] = L[r]
    /\ \/ Len(L) < kk /\ Len(kept) = Len(L)
       \/ Len(L) = kk /\ Len(kept) + 1 = Len(L) /\ sc[i] > L[Len(L)].score

LEMMA TopTakes ==
    ASSUME NEW sc, IsStore(sc), NEW S \in SUBSET DOMAIN sc,
           NEW i \in DOMAIN sc, i \notin S, ComesAfter(sc, S, i),
           NEW kk \in Nat \ {0}, NEW L, IsTop(L, sc, S, kk),
           NEW kept \in Seq(HitSet), MakesRoom(sc, i, kept, L, kk)
    PROVE  /\ IsTop(InsertAt(kept, Rank(kept, sc[i]) + 1, Hit(sc, i)), sc, S \cup {i}, kk)
           /\ Len(InsertAt(kept, Rank(kept, sc[i]) + 1, Hit(sc, i))) = Len(kept) + 1
           /\ \A r \in 1..Len(L) :
                 AtLeast(sc, InsertAt(kept, Rank(kept, sc[i]) + 1, Hit(sc, i))[r].index,
                         L[r].index)
<1> PICK M : M = InsertAt(kept, Rank(kept, sc[i]) + 1, Hit(sc, i))
  OBVIOUS
<1> PICK n \in Nat, m \in Nat : Len(L) = n /\ Len(kept) = m
  BY LenProperties DEF IsTop
<1> SUFFICES /\ IsTop(M, sc, S \cup {i}, kk)
             /\ Len(M) = m + 1
             /\ \A r \in 1..n : AtLeast(sc, M[r].index, L[r].index)
  OBVIOUS
<1>0. /\ \A r \in 1..m : kept[r] = L[r]
      /\ \/ n < kk /\ m = n
         \/ n = kk /\ m + 1 = n /\ sc[i] > L[n].score
  BY DEF MakesRoom
<1> USE <1>0
<1> DEFINE h == Hit(sc, i)
<1>1. h \in HitSet /\ h.index = i /\ h.score = sc[i] /\ sc[i] \in Int
  BY DEF IsStore, Hit, HitSet
<1>2. /\ \A r \in 1..n : /\ L[r].index \in S /\ L[r].score = sc[L[r].index]
                         /\ L[r] \in HitSet /\ L[r].score \in Int
      /\ \A r, s \in 1..n : r < s => L[r].score >= L[s].score
  BY TopScores
<1>3. 1..m \subseteq 1..n /\ (n = m \/ n = m + 1)
  OBVIOUS
<1>4. \A r, s \in 1..m : r < s => kept[r].score >= kept[s].score
  BY <1>2, <1>3
<1>5. PICK p \in 0..m : /\ p = Rank(kept, sc[i])
                        /\ \A r \in 1..m : r <= p <=> L[r].score >= sc[i]
  <2>1. /\ Rank(kept, sc[i]) \in 0..m
        /\ \A r \in 1..m : r <= Rank(kept, sc[i]) <=> kept[r].score >= sc[i]
    BY <1>1, <1>4, RankOf
  <2> QED
    BY <2>1
<1>6. /\ M \in Seq(HitSet) /\ Len(M) = m + 1
      /\ \A r \in 1..p : M[r] = kept[r]
      /\ M[p + 1] = h
      /\ \A r \in (p + 2)..(m + 1) : M[r] = kept[r - 1]
  <2>1. M = InsertAt(kept, p + 1, h) /\ p \in 0..Len(kept)
    BY <1>5
  <2> HIDE DEF h
  <2>2. /\ InsertAt(kept, p + 1, h) \in Seq(HitSet)
        /\ Len(InsertAt(kept, p + 1, h)) = Len(kept) + 1
        /\ \A r \in 1..p : InsertAt(kept, p + 1, h)[r] = kept[r]
        /\ InsertAt(kept, p + 1, h)[p + 1] = h
        /\ \A r \in (p + 2)..(Len(kept) + 1) : InsertAt(kept, p + 1, h)[r] = kept[r - 1]
    BY <1>1, <2>1, Inserted
  <2> QED
    BY <2>1, <2>2
<1>7. \A r \in 1..p : M[r] = L[r] /\ r \in 1..n /\ r \in 1..m
  BY <1>3, <1>6
<1>8. \A r \in (p + 2)..(m + 1) : M[r] = L[r - 1] /\ r - 1 \in 1..n /\ r - 1 \in 1..m /\ r - 1 > p
  <2> SUFFICES ASSUME NEW r \in (p + 2)..(m + 1)
               PROVE  M[r] = L[r - 1] /\ r - 1 \in 1..n /\ r - 1 \in 1..m /\ r - 1 > p
    OBVIOUS
  <2>1. r - 1 \in 1..m /\ r - 1 > p
    OBVIOUS
  <2> QED
    BY <1>3, <1>6, <2>1
<1>9. \A r \in 1..(m + 1) : r \in 1..p \/ r = p + 1 \/ r \in (p + 2)..(m + 1)
  OBVIOUS
<1>10. \A r \in 1..m : r <= p => Better(sc, L[r].index, i)
  <2> SUFFICES ASSUME NEW r \in 1..m, r <= p PROVE Better(sc, L[r].index, i)
    OBVIOUS
  <2>1. L[r].score >= sc[i] /\ L[r].index \in S /\ L[r].score = sc[L[r].index]
    BY <1>2, <1>3, <1>5
  <2>2. sc[L[r].index] \in Int /\ sc[i] \in Int
    BY <2>1 DEF IsStore
  <2> QED
    BY <2>1, <2>2 DEF Better, ComesAfter
<1>11. \A r \in 1..n : r > p => Better(sc, i, L[r].index)
  <2> SUFFICES ASSUME NEW r \in 1..n, r > p PROVE Better(sc, i, L[r].index)
    OBVIOUS
  <2>1. r \in 1..m => ~(L[r].score >= sc[i])
    BY <1>5
  <2>2. r \notin 1..m => r = n /\ sc[i] > L[n].score
    BY <1>3
  <2>3. L[r].score \in Int /\ L[r].score = sc[L[r].index]
    BY <1>2
  <2> QED
    BY <1>1, <2>1, <2>2, <2>3 DEF Better
<1>12. \A r, s \in 1..n : r < s => Better(sc, L[r].index, L[s].index)
  BY DEF IsTop
<1>13. \A r \in 1..(m + 1) : M[r].index \in S \cup {i} /\ M[r] = Hit(sc, M[r].index)
  <2> SUFFICES ASSUME NEW r \in 1..(m + 1)
               PROVE  M[r].index \in S \cup {i} /\ M[r] = Hit(sc, M[r].index)
    OBVIOUS
  <2>1. CASE r \in 1..p
    BY <1>7, <2>1 DEF IsTop
  <2>2. CASE r = p + 1
    BY <1>1, <1>6, <2>2
  <2>3. CASE r \in (p + 2)..(m + 1)
    BY <1>8, <2>3 DEF IsTop
  <2> QED
    BY <1>9, <2>1, <2>2, <2>3
<1>14. \A r, s \in 1..(m + 1) : r < s => Better(sc, M[r].index, M[s].index)
  <2> SUFFICES ASSUME NEW r \in 1..(m + 1), NEW s \in 1..(m + 1), r < s
               PROVE  Better(sc, M[r].index, M[s].index)
    OBVIOUS
  <2>1. CASE s \in 1..p
    <3>1. r \in 1..p
      BY <2>1
    <3> QED
      BY <1>7, <1>12, <2>1, <3>1
  <2>2. CASE s = p + 1
    <3>1. r \in 1..p
      BY <2>2
    <3> QED
      BY <1>1, <1>6, <1>7, <1>10, <2>2, <3>1
  <2>3. CASE s \in (p + 2)..(m + 1)
    <3>1. CASE r \in 1..p
      <4>1. r < s - 1
        BY <2>3, <3>1
      <4> QED
        BY <1>7, <1>8, <1>12, <2>3, <3>1, <4>1
    <3>2. CASE r = p + 1
      BY <1>1, <1>6, <1>8, <1>11, <2>3, <3>2
    <3>3. CASE r \in (p + 2)..(m + 1)
      <4>1. r - 1 < s - 1
        BY <2>3, <3>3
      <4> QED
        BY <1>8, <1>12, <2>3, <3>3, <4>1
    <3> QED
      BY <1>9, <3>1, <3>2, <3>3
  <2> QED
    BY <1>9, <2>1, <2>2, <2>3
<1>15. ASSUME NEW j \in DOMAIN sc, n = kk, m + 1 = n,
              \A r \in 1..m : Better(sc, L[r].index, j), Better(sc, i, j)
       PROVE  \A r \in 1..kk : Better(sc, M[r].index, j)
  <2> SUFFICES ASSUME NEW r \in 1..(m + 1) PROVE Better(sc, M[r].index, j)
    BY <1>15
  <2>1. CASE r \in 1..p
    BY <1>7, <1>15, <2>1
  <2>2. CASE r = p + 1
    BY <1>1, <1>6, <1>15, <2>2
  <2>3. CASE r \in (p + 2)..(m + 1)
    BY <1>8, <1>15, <2>3
  <2> QED
    BY <1>9, <2>1, <2>2, <2>3
<1>16. \A j \in S \cup {i} : \/ \E r \in 1..(m + 1) : M[r].index = j
                             \/ Len(M) = kk /\ \A r \in 1..kk : Better(sc, M[r].index, j)
  <2> SUFFICES ASSUME NEW j \in S \cup {i}
               PROVE  \/ \E r \in 1..(m + 1) : M[r].index = j
                      \/ Len(M) = kk /\ \A r \in 1..kk : Better(sc, M[r].index, j)
    OBVIOUS
  <2>1. CASE j = i
    <3>1. p + 1 \in 1..(m + 1)
      OBVIOUS
    <3> QED
      BY <1>1, <1>6, <2>1, <3>1
  <2>2. CASE \E r \in 1..m : L[r].index = j
    <3>1. PICK r \in 1..m : L[r].index = j
      BY <2>2
    <3>2. CASE r <= p
      <4>1. r \in 1..p /\ r \in 1..(m + 1)
        BY <3>2
      <4> QED
        BY <1>7, <3>1, <4>1
    <3>3. CASE r > p
      <4>1. r + 1 \in (p + 2)..(m + 1) /\ r + 1 \in 1..(m + 1) /\ (r + 1) - 1 = r
        BY <3>3
      <4>2. M[r + 1] = L[r]
        BY <1>8, <4>1
      <4> QED
        BY <3>1, <4>1, <4>2
    <3>4. r <= p \/ r > p
      OBVIOUS
    <3> QED
      BY <3>2, <3>3, <3>4
  <2>3. CASE n = kk /\ m + 1 = n /\ j = L[n].index
    <3>1. n \in 1..n /\ n > p /\ \A r \in 1..m : r \in 1..n /\ r < n
      BY <2>3
    <3>2. Better(sc, i, j) /\ \A r \in 1..m : Better(sc, L[r].index, j)
      BY <1>11, <1>12, <2>3, <3>1
    <3>3. j \in DOMAIN sc
      OBVIOUS
    <3> QED
      BY <1>6, <1>15, <2>3, <3>2, <3>3
  <2>4. CASE n = kk /\ \A r \in 1..kk : Better(sc, L[r].index, j)
    <3>1. CASE m = n
      BY <2>4, <3>1
    <3>2. CASE m + 1 = n
      <4>1. n \in 1..n /\ n > p /\ \A r \in 1..m : r \in 1..kk
        BY <2>4, <3>2
      <4>2. Better(sc, i, L[n].index) /\ Better(sc, L[n].index, j)
        BY <1>11, <2>4, <4>1
      <4>3. L[n].index \in DOMAIN sc /\ j \in DOMAIN sc
        BY <1>2, <4>1
      <4>4. Better(sc, i, j)
        BY <4>2, <4>3, BetterOrders
      <4> QED
        BY <1>6, <1>15, <2>4, <3>2, <4>1, <4>3, <4>4
    <3> QED
      BY <1>3, <3>1, <3>2
  <2>5. j \in S => \/ \E r \in 1..n : L[r].index = j
                   \/ n = kk /\ \A r \in 1..kk : Better(sc, L[r].index, j)
    BY DEF IsTop
  <2>6. ASSUME NEW r \in 1..n, L[r].index = j
        PROVE  r \in 1..m \/ (n = kk /\ m + 1 = n /\ r = n)
    OBVIOUS
  <2> QED
    BY <2>1, <2>2, <2>3, <2>4, <2>5, <2>6
<1>17. m + 1 <= kk
  OBVIOUS
<1>18. IsTop(M, sc, S \cup {i}, kk)
  BY <1>6, <1>13, <1>14, <1>16, <1>17 DEF IsTop
<1>19. \A r \in 1..n : AtLeast(sc, M[r].index, L[r].index)
  <2> SUFFICES ASSUME NEW r \in 1..n PROVE AtLeast(sc, M[r].index, L[r].index)
    OBVIOUS
  <2>1. r \in 1..(m + 1)
    BY <1>3
  <2>2. CASE r \in 1..p
    BY <1>7, <2>2 DEF AtLeast
  <2>3. CASE r = p + 1
    BY <1>1, <1>6, <1>11, <2>3 DEF AtLeast
  <2>4. CASE r \in (p + 2)..(m + 1)
    BY <1>8, <1>12, <2>4 DEF AtLeast
  <2> QED
    BY <1>9, <2>1, <2>2, <2>3, <2>4
<1> QED
  BY <1>6, <1>18, <1>19

(* An insertion keeps a top-k list one, grows it up to k, and puts behind  *)
(* none of its places a vector worse than was there.                       *)
Grows(L, M, kk) == Len(M) = IF Len(L) < kk THEN Len(L) + 1 ELSE kk

LEMMA InsertTop ==
    ASSUME NEW sc, IsStore(sc), NEW S \in SUBSET DOMAIN sc,
           NEW i \in DOMAIN sc, i \notin S, ComesAfter(sc, S, i),
           NEW kk \in Nat \ {0}, NEW L, IsTop(L, sc, S, kk), NEW n \in Nat, Len(L) = n,
           NEW M, M = TopkInsert(L, kk, Hit(sc, i))
    PROVE  /\ IsTop(M, sc, S \cup {i}, kk)
           /\ Grows(L, M, kk)
           /\ \A r \in 1..n : AtLeast(sc, M[r].index, L[r].index)
<1>1. L \in Seq(HitSet) /\ n <= kk
  BY DEF IsTop
<1>2. Hit(sc, i).score = sc[i]
  BY DEF Hit
<1>3. CASE n < kk
  <2>1. M = InsertAt(L, Rank(L, sc[i]) + 1, Hit(sc, i))
    BY <1>2, <1>3 DEF TopkInsert
  <2>2. PICK kept \in Seq(HitSet) : kept = L
    BY <1>1
  <2>3. /\ Len(kept) = n
        /\ \A r \in 1..n : kept[r] = L[r]
        /\ M = InsertAt(kept, Rank(kept, sc[i]) + 1, Hit(sc, i))
    BY <2>1, <2>2
  <2>4. /\ IsTop(M, sc, S \cup {i}, kk)
        /\ Len(M) = n + 1
        /\ \A r \in 1..n : AtLeast(sc, M[r].index, L[r].index)
    <3>1. MakesRoom(sc, i, kept, L, kk)
      BY <1>3, <2>3 DEF MakesRoom
    <3>2. /\ IsTop(InsertAt(kept, Rank(kept, sc[i]) + 1, Hit(sc, i)), sc, S \cup {i}, kk)
          /\ Len(InsertAt(kept, Rank(kept, sc[i]) + 1, Hit(sc, i))) = Len(kept) + 1
          /\ \A r \in 1..Len(L) :
               AtLeast(sc, InsertAt(kept, Rank(kept, sc[i]) + 1, Hit(sc, i))[r].index,
                       L[r].index)
      BY <2>3, <3>1, TopTakes
    <3> QED
      BY <2>3, <3>2
  <2> QED
    BY <1>3, <2>4 DEF Grows
<1>4. CASE n = kk /\ sc[i] <= L[n].score
  <2>1. M = L
    BY <1>2, <1>4 DEF TopkInsert, Last
  <2>2. IsTop(M, sc, S \cup {i}, kk)
    BY <1>4, <2>1, TopRefuses
  <2> QED
    BY <1>4, <2>1, <2>2 DEF AtLeast, Grows
<1>5. CASE n = kk /\ ~(sc[i] <= L[n].score)
  <2>1. \A r \in 1..(n - 1) : L[r] \in HitSet
    BY <1>1, ElementOfSeq
  <2>2. /\ SubSeq(L, 1, n - 1) \in Seq(HitSet)
        /\ Len(SubSeq(L, 1, n - 1)) = IF 1 <= n - 1 THEN (n - 1) - 1 + 1 ELSE 0
        /\ \A r \in 1..((n - 1) - 1 + 1) : SubSeq(L, 1, n - 1)[r] = L[1 + r - 1]
    BY <2>1, SubSeqProperties
  <2>3. (n - 1) - 1 + 1 = n - 1 /\ n - 1 \in Nat /\ \A r \in 1..(n - 1) : 1 + r - 1 = r
    BY <1>5
  <2>4. PICK kept \in Seq(HitSet) : /\ kept = SubSeq(L, 1, n - 1)
                                     /\ Len(kept) + 1 = n
                                     /\ \A r \in 1..(n - 1) : kept[r] = L[r]
    <3>1. Len(SubSeq(L, 1, n - 1)) = n - 1
      BY <2>2, <2>3
    <3>2. Len(SubSeq(L, 1, n - 1)) + 1 = n
      BY <3>1
    <3> QED
      BY <2>2, <2>3, <3>2
  <2>5. M = InsertAt(kept, Rank(kept, sc[i]) + 1, Hit(sc, i))
    BY <1>2, <1>5, <2>4 DEF TopkInsert, Last, Front
  <2>6. sc[i] > L[n].score
    <3>1. n \in 1..n
      BY <1>5
    <3>2. L[n].score \in Int /\ sc[i] \in Int
      BY <3>1, TopScores DEF IsStore
    <3> QED
      BY <1>5, <3>2
  <2>7. MakesRoom(sc, i, kept, L, kk)
    <3>1. Len(kept) = n - 1
      BY <2>4, LenProperties
    <3> QED
      BY <1>5, <2>4, <2>6, <3>1 DEF MakesRoom
  <2>8. /\ IsTop(InsertAt(kept, Rank(kept, sc[i]) + 1, Hit(sc, i)), sc, S \cup {i}, kk)
        /\ Len(InsertAt(kept, Rank(kept, sc[i]) + 1, Hit(sc, i))) = Len(kept) + 1
        /\ \A r \in 1..Len(L) :
             AtLeast(sc, InsertAt(kept, Rank(kept, sc[i]) + 1, Hit(sc, i))[r].index,
                     L[r].index)
    BY <2>7, TopTakes
  <2>9. Len(kept) + 1 = kk
    BY <1>5, <2>4
  <2> QED
    BY <1>5, <2>4, <2>5, <2>8, <2>9 DEF Grows
<1> QED
  BY <1>1, <1>3, <1>4, <1>5

----------------------------------------------------------------------------
(* What the recursion of Merge computes, step by step.                     *)
Merges(kept, hs, list, kk, n) ==
    kept[0] = hs /\ \A j \in 1..n : kept[j] = TopkInsert(kept[j - 1], kk, list[j])

LEMMA MergeSteps ==
    ASSUME NEW hs, NEW list, NEW kk, NEW n \in Nat, Len(list) = n
    PROVE  \E kept : Merge(hs, list, kk) = kept[n] /\ Merges(kept, hs, list, kk, n)
<1> DEFINE Is(f, m) == f = [j \in 0..m |-> IF j = 0 THEN hs ELSE TopkInsert(f[j - 1], kk, list[j])]
<1> DEFINE Bad == {m \in Nat : ~ \E f : Is(f, m)}
<1>1. Bad = {}
  <2> SUFFICES ASSUME Bad # {} PROVE FALSE
    OBVIOUS
  <2>1. PICK m \in Bad : m # 0 => m - 1 \in Nat \ Bad
    <3> HIDE DEF Bad
    <3> QED
      BY LeastBad DEF Bad
  <2>2. CASE m = 0
    <3>1. Is([j \in 0..0 |-> hs], 0)
      OBVIOUS
    <3> QED
      BY <2>2, <3>1
  <2>3. CASE m # 0
    <3>1. m - 1 \in Nat /\ m - 1 \notin Bad
      BY <2>1, <2>3
    <3>2. PICK f : Is(f, m - 1)
      BY <3>1
    <3> DEFINE g == [j \in 0..m |-> IF j = m THEN TopkInsert(f[m - 1], kk, list[m]) ELSE f[j]]
    <3>3. \A j \in 0..m : j # m => j \in 0..(m - 1)
      BY <2>3
    <3>4. \A j \in 0..(m - 1) : f[j] = IF j = 0 THEN hs ELSE TopkInsert(f[j - 1], kk, list[j])
      BY <3>2
    <3>5. \A j \in 0..m : g[j] = IF j = 0 THEN hs ELSE TopkInsert(g[j - 1], kk, list[j])
      <4> SUFFICES ASSUME NEW j \in 0..m
                   PROVE  g[j] = IF j = 0 THEN hs ELSE TopkInsert(g[j - 1], kk, list[j])
        OBVIOUS
      <4>1. j # 0 => g[j - 1] = f[j - 1]
        <5>1. j # 0 => j - 1 \in 0..m /\ j - 1 # m
          OBVIOUS
        <5> QED
          BY <5>1
      <4>2. CASE j = m
        BY <2>3, <4>1, <4>2
      <4>3. CASE j # m
        BY <3>3, <3>4, <4>1, <4>3
      <4> QED
        BY <4>2, <4>3
    <3>6. Is(g, m)
      BY <3>5
    <3> QED
      BY <3>6
  <2> QED
    BY <2>2, <2>3
<1>2. \E f : Is(f, n)
  BY <1>1
<1>3. PICK kept : Is(kept, n) /\ Merge(hs, list, kk) = kept[n]
  <2>1. PICK kept : kept = CHOOSE f : Is(f, n)
    OBVIOUS
  <2>2. Is(kept, n)
    BY <1>2, <2>1
  <2>3. Merge(hs, list, kk) = kept[n]
    BY <2>1 DEF Merge
  <2> QED
    BY <2>2, <2>3
<1>4. \A j \in 0..n : kept[j] = IF j = 0 THEN hs ELSE TopkInsert(kept[j - 1], kk, list[j])
  BY <1>3
<1>5. 0 \in 0..n /\ \A j \in 1..n : j \in 0..n /\ j # 0
  OBVIOUS
<1>6. Merges(kept, hs, list, kk, n)
  BY <1>4, <1>5 DEF Merges
<1> QED
  BY <1>3, <1>6

----------------------------------------------------------------------------
(* Two lists of the best k of the same vectors that agree up to place r    *)
(* cannot have different vectors there.                                    *)
LEMMA NoneBetter ==
    ASSUME NEW sc, IsStore(sc), NEW S \in SUBSET DOMAIN sc,
           NEW kk, NEW L1, IsTop(L1, sc, S, kk), NEW L2, IsTop(L2, sc, S, kk),
           NEW r \in 1..Len(L1), r \in 1..Len(L2),
           \A s \in 1..(r - 1) : L1[s] = L2[s]
    PROVE  ~Better(sc, L1[r].index, L2[r].index)
<1> PICK n1 \in Nat, n2 \in Nat : Len(L1) = n1 /\ Len(L2) = n2
  BY LenProperties DEF IsTop
<1> SUFFICES ASSUME Better(sc, L1[r].index, L2[r].index) PROVE FALSE
  OBVIOUS
<1>1. L1[r].index \in S /\ L2[r].index \in S
  BY DEF IsTop
<1>2. ~Better(sc, L2[r].index, L1[r].index) /\ L1[r].index # L2[r].index
  BY <1>1, BetterOrders
<1>3. PICK s \in 1..n2 : L2[s].index = L1[r].index
  <2>1. \/ \E s \in 1..n2 : L2[s].index = L1[r].index
        \/ n2 = kk /\ \A s \in 1..n2 : Better(sc, L2[s].index, L1[r].index)
    BY <1>1 DEF IsTop
  <2> QED
    BY <1>2, <2>1
<1>4. s < r \/ s = r \/ r < s
  OBVIOUS
<1>5. CASE s < r
  <2>1. s \in 1..(r - 1) /\ s \in 1..n1
    BY <1>5
  <2>2. L1[s].index = L1[r].index
    BY <1>3, <2>1
  <2>3. Better(sc, L1[s].index, L1[r].index)
    BY <1>5, <2>1 DEF IsTop
  <2> QED
    BY <1>1, <2>2, <2>3, BetterOrders
<1>6. CASE r < s
  BY <1>2, <1>3, <1>6 DEF IsTop
<1> QED
  BY <1>2, <1>3, <1>4, <1>5, <1>6

LEMMA SamePlaces ==
    ASSUME NEW sc, IsStore(sc), NEW S \in SUBSET DOMAIN sc,
           NEW kk, NEW L1, IsTop(L1, sc, S, kk), NEW L2, IsTop(L2, sc, S, kk),
           NEW r \in 1..Len(L1), r \in 1..Len(L2)
    PROVE  L1[r] = L2[r]
<1> PICK n1 \in Nat, n2 \in Nat : Len(L1) = n1 /\ Len(L2) = n2
  BY LenProperties DEF IsTop
<1> DEFINE Bad == {s \in 1..n1 : s \in 1..n2 /\ L1[s] # L2[s]}
<1> SUFFICES ASSUME Bad # {} PROVE FALSE
  OBVIOUS
<1>1. PICK m \in Bad : \A s \in Bad : m <= s
  <2>1. Bad \in SUBSET Nat
    OBVIOUS
  <2> HIDE DEF Bad
  <2> QED
    BY <2>1, Least
<1>2. m \in 1..n1 /\ m \in 1..n2 /\ L1[m] # L2[m]
  OBVIOUS
<1>3. \A s \in 1..(m - 1) : L1[s] = L2[s] /\ L2[s] = L1[s]
  <2> SUFFICES ASSUME NEW s \in 1..(m - 1) PROVE L1[s] = L2[s]
    OBVIOUS
  <2>1. s \in 1..n1 /\ s \in 1..n2 /\ ~(m <= s)
    BY <1>2
  <2> QED
    BY <1>1, <2>1
<1> HIDE DEF Bad
<1>4. ~Better(sc, L1[m].index, L2[m].index)
  BY <1>2, <1>3, NoneBetter
<1>5. ~Better(sc, L2[m].index, L1[m].index)
  BY <1>2, <1>3, NoneBetter
<1>6. /\ L1[m].index \in S /\ L1[m] = Hit(sc, L1[m].index)
      /\ L2[m].index \in S /\ L2[m] = Hit(sc, L2[m].index)
  BY <1>2 DEF IsTop
<1>7. L1[m].index = L2[m].index
  BY <1>4, <1>5, <1>6, BetterOrders
<1> QED
  BY <1>2, <1>6, <1>7

LEMMA SameLength ==
    ASSUME NEW sc, IsStore(sc), NEW S \in SUBSET DOMAIN sc,
           NEW kk \in Nat, NEW L1, IsTop(L1, sc, S, kk), NEW L2, IsTop(L2, sc, S, kk)
    PROVE  ~(Len(L1) < Len(L2))
<1> PICK n1 \in Nat, n2 \in Nat : Len(L1) = n1 /\ Len(L2) = n2
  BY LenProperties DEF IsTop
<1> SUFFICES ASSUME n1 < n2 PROVE FALSE
  OBVIOUS
<1> PICK n \in 1..n2 : n = n1 + 1
  OBVIOUS
<1>1. L2[n].index \in S /\ n1 < kk
  BY DEF IsTop
<1>2. PICK s \in 1..n1 : L1[s].index = L2[n].index
  <2>1. \A i \in S : (\E s \in 1..n1 : L1[s].index = i) \/ n1 = kk
    BY DEF IsTop
  <2> QED
    BY <1>1, <2>1
<1>3. s \in 1..n2 /\ s < n
  OBVIOUS
<1>4. L1[s] = L2[s]
  BY <1>3, SamePlaces
<1>5. Better(sc, L2[s].index, L2[n].index)
  BY <1>3 DEF IsTop
<1> QED
  BY <1>1, <1>2, <1>4, <1>5, BetterOrders

(* There is one list of the best k of S.                                   *)
LEMMA TopUnique ==
    ASSUME NEW sc, IsStore(sc), NEW S \in SUBSET DOMAIN sc,
           NEW kk \in Nat, NEW L1, IsTop(L1, sc, S, kk), NEW L2, IsTop(L2, sc, S, kk)
    PROVE  L1 = L2
<1>1. L1 \in Seq(HitSet) /\ L2 \in Seq(HitSet)
  BY DEF IsTop
<1>2. PICK n1 \in Nat, n2 \in Nat : Len(L1) = n1 /\ Len(L2) = n2
  BY <1>1, LenProperties
<1>3. n1 = n2
  BY <1>2, SameLength
<1>4. \A r \in 1..n1 : L1[r] = L2[r]
  BY <1>2, <1>3, SamePlaces
<1> QED
  BY <1>1, <1>2, <1>3, <1>4, SeqEqual

----------------------------------------------------------------------------
LEMMA TopOfNothing ==
    ASSUME NEW sc, NEW kk \in Nat
    PROVE  IsTop(<<>>, sc, {}, kk)
<1>1. <<>> \in Seq(HitSet) /\ Len(<<>>) = 0
  OBVIOUS
<1> QED
  BY <1>1 DEF IsTop

LEMMA NextOfRange ==
    ASSUME NEW a \in Nat, NEW i \in Nat, a <= i
    PROVE  i \notin a..(i - 1) /\ (a..(i - 1)) \cup {i} = a..i
OBVIOUS

Scans(kept, sc, a, kk, n) ==
    /\ kept[0] = <<>>
    /\ \A j \in 1..n : kept[j] = TopkInsert(kept[j - 1], kk, Hit(sc, a + j - 1))

LEMMA ScanSteps ==
    ASSUME NEW sc, NEW kk, NEW a \in Nat, NEW c \in Nat, NEW n \in Nat, c - a = n
    PROVE  \E kept : ScanRange(sc, a, c, kk) = kept[n] /\ Scans(kept, sc, a, kk, n)
<1>1. PICK list : /\ Len(list) = n
                  /\ \A j \in 1..n : list[j] = Hit(sc, a + j - 1)
                  /\ ScanRange(sc, a, c, kk) = Merge(<<>>, list, kk)
  <2>1. PICK list : list = [j \in 1..n |-> Hit(sc, a + j - 1)]
    OBVIOUS
  <2>2. Len(list) = n /\ \A j \in 1..n : list[j] = Hit(sc, a + j - 1)
    BY <2>1
  <2>3. ScanRange(sc, a, c, kk) = Merge(<<>>, list, kk)
    BY <2>1 DEF ScanRange
  <2> QED
    BY <2>2, <2>3
<1>2. PICK hs : hs = <<>>
  OBVIOUS
<1>3. PICK kept : Merge(hs, list, kk) = kept[n] /\ Merges(kept, hs, list, kk, n)
  BY <1>1, MergeSteps
<1>4. Scans(kept, sc, a, kk, n)
  BY <1>1, <1>2, <1>3 DEF Merges, Scans
<1> QED
  BY <1>1, <1>2, <1>3, <1>4

(* A scan of a range keeps the best k of the range.                        *)
LEMMA ScanTop ==
    ASSUME NEW sc, IsStore(sc), NEW kk \in Nat \ {0},
           NEW a \in Nat, NEW c \in Nat, a <= c, a..(c - 1) \subseteq DOMAIN sc
    PROVE  IsTop(ScanRange(sc, a, c, kk), sc, a..(c - 1), kk)
<1>1. PICK n \in Nat : c - a = n
  OBVIOUS
<1>2. PICK kept : ScanRange(sc, a, c, kk) = kept[n] /\ Scans(kept, sc, a, kk, n)
  BY <1>1, ScanSteps
<1> DEFINE Bad == {j \in 0..n : ~IsTop(kept[j], sc, a..(a + j - 1), kk)}
<1>3. Bad = {}
  <2> SUFFICES ASSUME Bad # {} PROVE FALSE
    OBVIOUS
  <2>1. PICK j \in Bad : j # 0 => j - 1 \in Nat \ Bad
    <3>1. Bad \in SUBSET Nat
      OBVIOUS
    <3> HIDE DEF Bad
    <3> QED
      BY <3>1, LeastBad
  <2>2. CASE j = 0
    <3>1. a..(a + 0 - 1) = {}
      OBVIOUS
    <3> QED
      BY <1>2, <2>2, <3>1, TopOfNothing DEF Scans
  <2>3. CASE j # 0
    <3>1. j \in 1..n /\ j - 1 \in 0..n /\ j - 1 \notin Bad
      BY <2>1, <2>3
    <3>2. PICK i \in Nat : i = a + j - 1
      BY <3>1
    <3>3. a + (j - 1) - 1 = i - 1 /\ i \in a..(c - 1)
      BY <1>1, <3>1, <3>2
    <3>4. PICK L : L = kept[j - 1]
      OBVIOUS
    <3>5. PICK S : S = a..(i - 1)
      OBVIOUS
    <3>6. IsTop(L, sc, S, kk)
      BY <3>1, <3>3, <3>4, <3>5
    <3>7. i \notin S /\ S \cup {i} = a..i
      BY <3>3, <3>5, NextOfRange
    <3>8. S \in SUBSET DOMAIN sc /\ i \in DOMAIN sc /\ ComesAfter(sc, S, i)
      <4>1. \A e \in S : e \in a..(c - 1) /\ e < i
        BY <3>3, <3>5
      <4> QED
        BY <3>3, <4>1 DEF ComesAfter
    <3>9. kept[j] = TopkInsert(L, kk, Hit(sc, i))
      BY <1>2, <3>1, <3>2, <3>4 DEF Scans
    <3>10. PICK m \in Nat : Len(L) = m
      BY <3>6, LenProperties DEF IsTop
    <3> HIDE DEF Bad
    <3>11. IsTop(kept[j], sc, S \cup {i}, kk)
      BY <3>6, <3>7, <3>8, <3>9, <3>10, InsertTop
    <3>12. IsTop(kept[j], sc, a..(a + j - 1), kk)
      BY <3>2, <3>7, <3>11
    <3> QED
      BY <3>12 DEF Bad
  <2> QED
    BY <2>2, <2>3
<1>4. IsTop(kept[n], sc, a..(a + n - 1), kk)
  BY <1>3
<1>5. a + n - 1 = c - 1
  BY <1>1
<1> QED
  BY <1>2, <1>4, <1>5

(* A round of scan_range.                                                  *)
LEMMA ScanNext ==
    ASSUME NEW sc, IsStore(sc), NEW kk \in Nat \ {0},
           NEW a \in Nat, NEW c \in Nat, a <= c, a..c \subseteq DOMAIN sc
    PROVE  ScanRange(sc, a, c + 1, kk) = TopkInsert(ScanRange(sc, a, c, kk), kk, Hit(sc, c))
<1> PICK S : S = a..(c - 1)
  OBVIOUS
<1>1. /\ S \in SUBSET DOMAIN sc /\ c \in DOMAIN sc /\ c \notin S
      /\ S \cup {c} = a..c
  OBVIOUS
<1>2. PICK L : L = ScanRange(sc, a, c, kk)
  OBVIOUS
<1>3. IsTop(L, sc, S, kk)
  BY <1>1, <1>2, ScanTop
<1>4. PICK n \in Nat : Len(L) = n
  BY <1>3, LenProperties DEF IsTop
<1>5. ComesAfter(sc, S, c)
  BY DEF ComesAfter
<1>6. PICK M : M = TopkInsert(L, kk, Hit(sc, c))
  OBVIOUS
<1>7. IsTop(M, sc, S \cup {c}, kk)
  BY <1>1, <1>3, <1>4, <1>5, <1>6, InsertTop
<1>8. PICK d \in Nat : d = c + 1
  OBVIOUS
<1>9. d - 1 = c /\ a <= d
  BY <1>8
<1>10. IsTop(ScanRange(sc, a, d, kk), sc, a..(d - 1), kk)
  BY <1>9, ScanTop
<1>11. ScanRange(sc, a, d, kk) = M
  <2>1. a..c \in SUBSET DOMAIN sc /\ kk \in Nat
    OBVIOUS
  <2>2. IsTop(M, sc, a..c, kk) /\ IsTop(ScanRange(sc, a, d, kk), sc, a..c, kk)
    BY <1>1, <1>7, <1>9, <1>10
  <2> QED
    BY <2>1, <2>2, TopUnique
<1> QED
  BY <1>2, <1>6, <1>8, <1>11

----------------------------------------------------------------------------
(* Merging.  The list so far is of the vectors in S1 and the first j of    *)
(* list, and at each of its first j places is a vector at least as good as *)
(* the one list has there.                                                 *)
Upto(S1, list, j) == S1 \cup {list[r].index : r \in 1..j}

Ahead(sc, L, list, j) ==
    Len(L) >= j /\ \A r \in 1..j : AtLeast(sc, L[r].index, list[r].index)

LEMMA AtLeastOrders ==
    ASSUME NEW sc, IsStore(sc), NEW i \in DOMAIN sc, NEW j \in DOMAIN sc,
           NEW l \in DOMAIN sc, AtLeast(sc, i, j)
    PROVE  /\ AtLeast(sc, j, l) => AtLeast(sc, i, l)
           /\ Better(sc, j, l) => Better(sc, i, l)
           /\ ~Better(sc, j, i)
BY BetterOrders DEF AtLeast

LEMMA MergeStep ==
    ASSUME NEW sc, IsStore(sc), NEW kk \in Nat \ {0},
           NEW S1 \in SUBSET DOMAIN sc, NEW S2 \in SUBSET DOMAIN sc,
           \A e \in S1, i \in S2 : e < i,
           NEW list, IsTop(list, sc, S2, kk), NEW j \in 1..Len(list),
           NEW L, IsTop(L, sc, Upto(S1, list, j - 1), kk), Ahead(sc, L, list, j - 1),
           NEW M, M = TopkInsert(L, kk, list[j])
    PROVE  IsTop(M, sc, Upto(S1, list, j), kk) /\ Ahead(sc, M, list, j)
<1>1. PICK n \in Nat, m \in Nat : Len(list) = n /\ Len(L) = m
  BY LenProperties DEF IsTop
<1>2. n <= kk /\ m <= kk /\ m >= j - 1 /\ j \in 1..n
  BY <1>1 DEF IsTop, Ahead
<1>3. PICK S : S = Upto(S1, list, j - 1)
  OBVIOUS
<1>4. PICK i \in S2 : i = list[j].index /\ list[j] = Hit(sc, i)
  BY <1>1 DEF IsTop
<1>5. \A r \in 1..n : list[r].index \in S2 /\ (r < j => Better(sc, list[r].index, i))
  BY <1>1, <1>4 DEF IsTop
<1>6. \A r \in 1..(j - 1) : r \in 1..n /\ r < j
  BY <1>2
<1>7. S \in SUBSET DOMAIN sc /\ i \in DOMAIN sc
  BY <1>3, <1>5, <1>6 DEF Upto
<1>8. i \notin S /\ ComesAfter(sc, S, i)
  <2>1. i \in Nat /\ \A e \in S1 : e < i
    BY DEF IsStore
  <2>2. \A r \in 1..(j - 1) : Better(sc, list[r].index, i)
    BY <1>5, <1>6
  <2>3. \A e \in S : e < i \/ Better(sc, e, i)
    BY <1>3, <2>1, <2>2 DEF Upto
  <2>4. \A e \in S : e \in Nat /\ sc[e] \in Int /\ sc[i] \in Int
    BY <1>7 DEF IsStore
  <2> QED
    BY <2>1, <2>3, <2>4 DEF ComesAfter, Better
<1>9. S \cup {i} = Upto(S1, list, j)
  <2>1. \A r \in 1..j : r \in 1..(j - 1) \/ r = j
    BY <1>2
  <2>2. j \in 1..j /\ \A r \in 1..(j - 1) : r \in 1..j
    BY <1>2
  <2> QED
    BY <1>3, <1>4, <2>1, <2>2 DEF Upto
<1>10. /\ IsTop(M, sc, S \cup {i}, kk)
       /\ Len(M) = IF m < kk THEN m + 1 ELSE kk
       /\ \A r \in 1..m : AtLeast(sc, M[r].index, L[r].index)
  <2>1. M = TopkInsert(L, kk, Hit(sc, i)) /\ IsTop(L, sc, S, kk)
    BY <1>3, <1>4
  <2>2. Len(L) = m
    BY <1>1
  <2>3. IsTop(M, sc, S \cup {i}, kk)
    BY <1>7, <1>8, <2>1, <2>2, InsertTop
  <2>4. Grows(L, M, kk)
    BY <1>7, <1>8, <2>1, <2>2, InsertTop
  <2>5. \A r \in 1..m : AtLeast(sc, M[r].index, L[r].index)
    BY <1>7, <1>8, <2>1, <2>2, InsertTop
  <2> QED
    BY <2>2, <2>3, <2>4, <2>5 DEF Grows
<1>11. PICK mm \in Nat : Len(M) = mm
  BY <1>10, LenProperties DEF IsTop
<1>12. mm >= j /\ mm <= kk
  BY <1>2, <1>10, <1>11
<1>13. \A r \in 1..mm : M[r].index \in DOMAIN sc
  BY <1>7, <1>10, <1>11 DEF IsTop
<1>14. \A r \in 1..(j - 1) : AtLeast(sc, M[r].index, list[r].index)
  <2> SUFFICES ASSUME NEW r \in 1..(j - 1) PROVE AtLeast(sc, M[r].index, list[r].index)
    OBVIOUS
  <2>1. r \in 1..m /\ r \in 1..mm /\ r \in 1..n
    BY <1>2, <1>12
  <2>2. AtLeast(sc, M[r].index, L[r].index) /\ AtLeast(sc, L[r].index, list[r].index)
    BY <1>10, <2>1 DEF Ahead
  <2>3. /\ M[r].index \in DOMAIN sc /\ list[r].index \in DOMAIN sc
        /\ L[r].index \in DOMAIN sc
    BY <1>1, <1>3, <1>5, <1>7, <1>13, <2>1 DEF IsTop
  <2> QED
    BY <2>2, <2>3, AtLeastOrders
<1>15. AtLeast(sc, M[j].index, i)
  <2>1. j \in 1..mm
    BY <1>2, <1>12
  <2>2. \/ \E r \in 1..mm : M[r].index = i
        \/ mm = kk /\ \A r \in 1..kk : Better(sc, M[r].index, i)
    BY <1>10, <1>11 DEF IsTop
  <2>3. ASSUME NEW r \in 1..mm, M[r].index = i
        PROVE  AtLeast(sc, M[j].index, i)
    <3>1. CASE r < j
      <4>1. r \in 1..(j - 1)
        BY <1>2, <3>1
      <4>2. AtLeast(sc, i, list[r].index) /\ Better(sc, list[r].index, i)
        BY <1>5, <1>6, <1>14, <2>3, <4>1
      <4>3. list[r].index \in DOMAIN sc
        BY <1>5, <1>6, <4>1
      <4> QED
        BY <1>7, <4>2, <4>3, AtLeastOrders
    <3>2. CASE r = j
      BY <2>3, <3>2 DEF AtLeast
    <3>3. CASE r > j
      <4>1. Better(sc, M[j].index, M[r].index)
        BY <1>10, <1>11, <2>1, <3>3 DEF IsTop
      <4> QED
        BY <2>3, <4>1 DEF AtLeast
    <3> QED
      BY <1>2, <3>1, <3>2, <3>3
  <2>4. ASSUME mm = kk, \A r \in 1..kk : Better(sc, M[r].index, i)
        PROVE  AtLeast(sc, M[j].index, i)
    BY <2>1, <2>4 DEF AtLeast
  <2> QED
    BY <2>2, <2>3, <2>4
<1>16. Ahead(sc, M, list, j)
  <2>1. \A r \in 1..j : r \in 1..(j - 1) \/ r = j
    BY <1>2
  <2> QED
    BY <1>4, <1>11, <1>12, <1>14, <1>15, <2>1 DEF Ahead
<1> QED
  BY <1>9, <1>10, <1>16

(* The list of the best k of S1, merged with that of vectors stored after  *)
(* them, is the list of the best k of both.                                *)
LEMMA MergeTop ==
    ASSUME NEW sc, IsStore(sc), NEW kk \in Nat \ {0},
           NEW S1 \in SUBSET DOMAIN sc, NEW S2 \in SUBSET DOMAIN sc,
           \A e \in S1, i \in S2 : e < i,
           NEW hs, IsTop(hs, sc, S1, kk), NEW list, IsTop(list, sc, S2, kk)
    PROVE  IsTop(Merge(hs, list, kk), sc, S1 \cup S2, kk)
<1>1. PICK n \in Nat : Len(list) = n
  BY LenProperties DEF IsTop
<1>2. PICK kept : Merge(hs, list, kk) = kept[n] /\ Merges(kept, hs, list, kk, n)
  BY <1>1, MergeSteps
<1> DEFINE Good(j) == IsTop(kept[j], sc, Upto(S1, list, j), kk) /\ Ahead(sc, kept[j], list, j)
<1> DEFINE Bad == {j \in 0..n : ~Good(j)}
<1>3. Bad = {}
  <2> SUFFICES ASSUME Bad # {} PROVE FALSE
    OBVIOUS
  <2>1. PICK j \in Bad : j # 0 => j - 1 \in Nat \ Bad
    <3>1. Bad \in SUBSET Nat
      OBVIOUS
    <3> HIDE DEF Bad
    <3> QED
      BY <3>1, LeastBad
  <2>2. CASE j = 0
    <3>1. kept[0] = hs
      BY <1>2 DEF Merges
    <3>2. Upto(S1, list, 0) = S1
      BY DEF Upto
    <3>3. Ahead(sc, hs, list, 0)
      BY LenProperties DEF Ahead, IsTop
    <3> QED
      BY <2>2, <3>1, <3>2, <3>3
  <2>3. CASE j # 0
    <3>1. j \in 1..n /\ j - 1 \in 0..n /\ j - 1 \notin Bad
      BY <2>1, <2>3
    <3>2. Good(j - 1)
      BY <3>1
    <3>3. PICK L : L = kept[j - 1]
      OBVIOUS
    <3>4. PICK M : M = kept[j]
      OBVIOUS
    <3>5. IsTop(L, sc, Upto(S1, list, j - 1), kk) /\ Ahead(sc, L, list, j - 1)
      BY <3>2, <3>3
    <3>6. M = TopkInsert(L, kk, list[j])
      BY <1>2, <3>1, <3>3, <3>4 DEF Merges
    <3>7. j \in 1..Len(list)
      BY <1>1, <3>1
    <3> HIDE DEF Bad, Good
    <3>8. IsTop(M, sc, Upto(S1, list, j), kk)
      BY <3>5, <3>6, <3>7, MergeStep
    <3>9. Ahead(sc, M, list, j)
      BY <3>5, <3>6, <3>7, MergeStep
    <3> QED
      BY <3>4, <3>8, <3>9 DEF Bad, Good
  <2> QED
    BY <2>2, <2>3
<1>4. PICK L : L = kept[n]
  OBVIOUS
<1>5. IsTop(L, sc, Upto(S1, list, n), kk) /\ Ahead(sc, L, list, n)
  BY <1>3, <1>4
<1>6. PICK m \in Nat : Len(L) = m
  BY <1>5, LenProperties DEF IsTop
<1>7. \A r \in 1..n : list[r].index \in S2
  BY <1>1 DEF IsTop
<1>8. Upto(S1, list, n) \subseteq S1 \cup S2
  BY <1>7 DEF Upto
<1>9. \A i \in S1 \cup S2 : \/ \E r \in 1..m : L[r].index = i
                            \/ m = kk /\ \A r \in 1..kk : Better(sc, L[r].index, i)
  <2> SUFFICES ASSUME NEW i \in S1 \cup S2
               PROVE  \/ \E r \in 1..m : L[r].index = i
                      \/ m = kk /\ \A r \in 1..kk : Better(sc, L[r].index, i)
    OBVIOUS
  <2>1. CASE i \in Upto(S1, list, n)
    BY <1>5, <1>6, <2>1 DEF IsTop
  <2>2. CASE i \notin Upto(S1, list, n)
    <3>1. i \in S2 /\ \A r \in 1..n : list[r].index # i
      BY <2>2 DEF Upto
    <3>2. n = kk /\ \A r \in 1..kk : Better(sc, list[r].index, i)
      BY <1>1, <3>1 DEF IsTop
    <3>3. m = kk /\ \A r \in 1..kk : AtLeast(sc, L[r].index, list[r].index)
      BY <1>5, <1>6, <3>2 DEF Ahead, IsTop
    <3>4. \A r \in 1..kk : L[r].index \in DOMAIN sc /\ list[r].index \in DOMAIN sc
      BY <1>5, <1>6, <1>7, <1>8, <3>2, <3>3 DEF IsTop
    <3>5. i \in DOMAIN sc
      OBVIOUS
    <3>6. \A r \in 1..kk : Better(sc, L[r].index, i)
      BY <3>2, <3>3, <3>4, <3>5, AtLeastOrders
    <3> QED
      BY <3>3, <3>6
  <2> QED
    BY <2>1, <2>2
<1>10. IsTop(L, sc, S1 \cup S2, kk)
  BY <1>5, <1>6, <1>8, <1>9 DEF IsTop
<1> QED
  BY <1>2, <1>4, <1>10

----------------------------------------------------------------------------
(* The workers' ranges.                                                    *)
Extra(cnt, n, t) == IF t < cnt % n THEN t ELSE cnt % n

LEMMA FirstIs ==
    ASSUME NEW cnt \in Nat, NEW n \in Nat \ {0}, NEW t \in Nat
    PROVE  First(cnt, n, t) = t * (cnt \div n) + Extra(cnt, n, t)
<1> DEFINE Is(f) == f = [u \in 0..t |-> IF u = 0 THEN 0 ELSE f[u - 1] + Share(cnt, n, u - 1)]
<1>1. PICK d \in Nat, r \in Nat : d = cnt \div n /\ r = cnt % n
  OBVIOUS
<1> DEFINE e(u) == u * d + (IF u < r THEN u ELSE r)
<1>2. \A u \in Nat : u # 0 => e(u) = e(u - 1) + (d + (IF u - 1 < r THEN 1 ELSE 0))
  <2> SUFFICES ASSUME NEW u \in Nat, u # 0
               PROVE  e(u) = e(u - 1) + (d + (IF u - 1 < r THEN 1 ELSE 0))
    OBVIOUS
  <2>1. u * d = (u - 1) * d + d /\ u * d \in Nat /\ (u - 1) * d \in Nat
    OBVIOUS
  <2> HIDE <1>1
  <2> QED
    BY <2>1
<1>3. \A u \in Nat : Share(cnt, n, u) = d + (IF u < r THEN 1 ELSE 0)
  BY <1>1 DEF Share
<1>4. e(0) = 0
  OBVIOUS
<1> HIDE DEF e
<1>5. \A u \in Nat : u # 0 => u - 1 \in Nat /\ e(u) = e(u - 1) + Share(cnt, n, u - 1)
  BY <1>2, <1>3
<1>6. \E f : Is(f)
  <2> DEFINE g == [u \in 0..t |-> e(u)]
  <2>1. \A u \in 0..t : g[u] = IF u = 0 THEN 0 ELSE g[u - 1] + Share(cnt, n, u - 1)
    <3> SUFFICES ASSUME NEW u \in 0..t
                 PROVE  g[u] = IF u = 0 THEN 0 ELSE g[u - 1] + Share(cnt, n, u - 1)
      OBVIOUS
    <3>1. u # 0 => u - 1 \in 0..t
      OBVIOUS
    <3> QED
      BY <1>4, <1>5, <3>1
  <2>2. Is(g)
    BY <2>1
  <2> QED
    BY <2>2
<1>7. PICK f : Is(f) /\ First(cnt, n, t) = f[t]
  <2>1. PICK f : f = CHOOSE ff : Is(ff)
    OBVIOUS
  <2>2. Is(f)
    BY <1>6, <2>1
  <2>3. First(cnt, n, t) = f[t]
    BY <2>1 DEF First
  <2> QED
    BY <2>2, <2>3
<1>8. \A u \in 0..t : f[u] = IF u = 0 THEN 0 ELSE f[u - 1] + Share(cnt, n, u - 1)
  BY <1>7
<1> DEFINE Bad == {u \in 0..t : f[u] # e(u)}
<1>9. Bad = {}
  <2> SUFFICES ASSUME Bad # {} PROVE FALSE
    OBVIOUS
  <2>1. PICK u \in Bad : u # 0 => u - 1 \in Nat \ Bad
    <3>1. Bad \in SUBSET Nat
      OBVIOUS
    <3> HIDE DEF Bad
    <3> QED
      BY <3>1, LeastBad
  <2>2. CASE u = 0
    BY <1>4, <1>8, <2>2
  <2>3. CASE u # 0
    <3>1. u \in Nat /\ u \in 0..t /\ u - 1 \in 0..t /\ f[u - 1] = e(u - 1)
      BY <2>1, <2>3
    <3>2. f[u] = e(u)
      BY <1>5, <1>8, <2>3, <3>1
    <3> QED
      BY <3>2
  <2> QED
    BY <2>2, <2>3
<1>10. f[t] = e(t)
  BY <1>9
<1> QED
  BY <1>1, <1>7, <1>10 DEF e, Extra

LEMMA Divided ==
    ASSUME NEW m \in Nat, NEW n \in Nat \ {0}
    PROVE  \E d \in Nat, r \in Nat : d = m \div n /\ r = m % n /\ n * d + r = m /\ r < n
<1>1. m \div n \in Nat /\ m % n \in Nat /\ n * (m \div n) + (m % n) = m /\ m % n < n
  OBVIOUS
<1> QED
  BY <1>1

(* They are consecutive and together all the vectors.                      *)
LEMMA Ranges ==
    ASSUME NEW cnt \in Nat, NEW n \in Nat \ {0}
    PROVE  /\ First(cnt, n, 0) = 0
           /\ First(cnt, n, n) = cnt
           /\ \A t \in Nat : /\ First(cnt, n, t) \in Nat /\ Share(cnt, n, t) \in Nat
                             /\ First(cnt, n, t + 1) = First(cnt, n, t) + Share(cnt, n, t)
           /\ \A t \in 0..n : First(cnt, n, t) <= cnt
<1>1. PICK d \in Nat, r \in Nat : d = cnt \div n /\ r = cnt % n /\ n * d + r = cnt /\ r < n
  BY Divided
<1>2. n * d + r = cnt /\ r < n
  BY <1>1
<1>3. \A t \in Nat : First(cnt, n, t) = t * d + (IF t < r THEN t ELSE r)
  BY <1>1, FirstIs DEF Extra
<1>4. \A t \in Nat : Share(cnt, n, t) = d + (IF t < r THEN 1 ELSE 0)
  BY <1>1 DEF Share
<1> HIDE <1>1
<1>5. First(cnt, n, 0) = 0
  BY <1>3
<1>6. First(cnt, n, n) = cnt
  BY <1>2, <1>3
<1>7. ASSUME NEW t \in Nat
      PROVE  /\ First(cnt, n, t) \in Nat /\ Share(cnt, n, t) \in Nat
             /\ First(cnt, n, t + 1) = First(cnt, n, t) + Share(cnt, n, t)
  <2>1. (t + 1) * d = t * d + d /\ t * d \in Nat /\ t + 1 \in Nat
    OBVIOUS
  <2> QED
    BY <1>3, <1>4, <2>1
<1>8. ASSUME NEW t \in 0..n
      PROVE  First(cnt, n, t) <= cnt
  <2>1. PICK m \in Nat : m = n - t
    OBVIOUS
  <2>2. n * d = t * d + m * d /\ m * d \in Nat /\ t * d \in Nat /\ n * d \in Nat
    BY <2>1
  <2>3. First(cnt, n, t) = t * d + (IF t < r THEN t ELSE r)
    BY <1>3
  <2> QED
    BY <1>2, <2>2, <2>3
<1> QED
  BY <1>5, <1>6, <1>7, <1>8

----------------------------------------------------------------------------
(* The list is what a reader would define it to be.                        *)
LEMMA Places ==
    ASSUME NEW n \in Nat, NEW S, NEW f \in [1..n -> S],
           \A r, s \in 1..n : r # s => f[r] # f[s], \A x \in S : \E r \in 1..n : f[r] = x
    PROVE  IsFiniteSet(S) /\ Cardinality(S) = n
<1>1. f \in Bijection(1..n, S)
  BY DEF Bijection, Injection, Surjection, IsInjective
<1>2. ExistsBijection(1..n, S)
  BY <1>1 DEF ExistsBijection
<1> QED
  BY <1>2, FS_CountingElements, FS_NatBijection

(* L is the list of the best kk of the records 0..cnt - 1 of a store.      *)
IsTopOf(L, sc, cnt, kk) ==
    /\ IsStore(sc) /\ cnt \in Nat /\ 0..(cnt - 1) \subseteq DOMAIN sc /\ kk \in Nat
    /\ IsTop(L, sc, 0..(cnt - 1), kk)

(* Who is better than the r-th hit of a list: the hits before it.          *)
LEMMA BetterThanPlace ==
    ASSUME NEW L, NEW sc, NEW cnt, NEW kk, IsTopOf(L, sc, cnt, kk), NEW r \in 1..Len(L)
    PROVE  L[r].index \in 0..(cnt - 1) /\ NumBetter(sc, cnt, L[r].index) = r - 1
<1>. /\ IsStore(sc) /\ cnt \in Nat /\ 0..(cnt - 1) \subseteq DOMAIN sc /\ kk \in Nat
     /\ IsTop(L, sc, 0..(cnt - 1), kk)
  BY DEF IsTopOf
<1>1. PICK n \in Nat : Len(L) = n
  BY LenProperties DEF IsTop
<1>2. PICK S : S = 0..(cnt - 1)
  OBVIOUS
<1>3. S \in SUBSET DOMAIN sc /\ IsTop(L, sc, S, kk) /\ r \in 1..n
  BY <1>1, <1>2
<1>4. \A s \in 1..n : L[s].index \in S
  BY <1>1, <1>3 DEF IsTop
<1>5. \A s, u \in 1..n : s < u => Better(sc, L[s].index, L[u].index)
  BY <1>1, <1>3 DEF IsTop
<1>6. PICK B : B = {j \in S : Better(sc, j, L[r].index)}
  OBVIOUS
<1>7. \A s \in 1..(r - 1) : s \in 1..n /\ s < r
  BY <1>3
<1>8. PICK f : f = [s \in 1..(r - 1) |-> L[s].index]
  OBVIOUS
<1>9. f \in [1..(r - 1) -> B]
  BY <1>3, <1>4, <1>5, <1>6, <1>7, <1>8
<1>10. \A s, u \in 1..(r - 1) : s # u => f[s] # f[u]
  <2> SUFFICES ASSUME NEW s \in 1..(r - 1), NEW u \in 1..(r - 1), s < u PROVE f[s] # f[u]
    OBVIOUS
  <2> QED
    BY <1>3, <1>4, <1>5, <1>7, <1>8, BetterOrders
<1>11. \A x \in B : \E s \in 1..(r - 1) : f[s] = x
  <2> SUFFICES ASSUME NEW x \in B PROVE \E s \in 1..(r - 1) : f[s] = x
    OBVIOUS
  <2>1. x \in S /\ Better(sc, x, L[r].index)
    BY <1>6
  <2>2. L[r].index \in DOMAIN sc /\ x \in DOMAIN sc
    BY <1>3, <1>4, <2>1
  <2>3. ~Better(sc, L[r].index, x) /\ L[r].index # x
    BY <2>1, <2>2, BetterOrders
  <2>4. PICK s \in 1..n : L[s].index = x
    BY <1>1, <1>3, <2>1, <2>3 DEF IsTop
  <2>5. s < r
    BY <1>3, <1>5, <2>3, <2>4
  <2>6. s \in 1..(r - 1)
    BY <1>3, <2>5
  <2> QED
    BY <1>8, <2>4, <2>6
<1>12. PICK m \in Nat : m = r - 1
  BY <1>3
<1>13. Cardinality(B) = m
  <2>1. /\ f \in [1..m -> B]
        /\ \A s, u \in 1..m : s # u => f[s] # f[u]
        /\ \A x \in B : \E s \in 1..m : f[s] = x
    BY <1>9, <1>10, <1>11, <1>12
  <2> QED
    BY <2>1, Places
<1> QED
  BY <1>2, <1>3, <1>4, <1>6, <1>12, <1>13 DEF NumBetter

(* Different vectors are at different places.                              *)
LEMMA NumBetterInjective ==
    ASSUME NEW sc, IsStore(sc), NEW cnt \in Nat, 0..(cnt - 1) \subseteq DOMAIN sc,
           NEW i \in 0..(cnt - 1), NEW j \in 0..(cnt - 1), Better(sc, i, j)
    PROVE  NumBetter(sc, cnt, i) < NumBetter(sc, cnt, j)
<1>1. PICK S : S = 0..(cnt - 1)
  OBVIOUS
<1>2. IsFiniteSet(S) /\ S \subseteq DOMAIN sc /\ i \in S /\ j \in S
  BY <1>1, FS_Interval
<1>3. PICK A : A = {l \in S : Better(sc, l, i)}
  OBVIOUS
<1>4. PICK B \in SUBSET S : B = {l \in S : Better(sc, l, j)}
  OBVIOUS
<1>5. A \in SUBSET B
  BY <1>2, <1>3, <1>4, BetterOrders
<1>6. i \in B /\ i \notin A
  BY <1>2, <1>3, <1>4, BetterOrders
<1>7. IsFiniteSet(B)
  BY <1>2, FS_Subset
<1>8. Cardinality(A) <= Cardinality(B) /\ Cardinality(B) # Cardinality(A)
  BY <1>5, <1>6, <1>7, FS_Subset
<1>9. Cardinality(A) \in Nat /\ Cardinality(B) \in Nat
  BY <1>5, <1>7, FS_Subset, FS_CardinalityType
<1> QED
  BY <1>1, <1>3, <1>4, <1>8, <1>9 DEF NumBetter

LEMMA TopLength ==
    ASSUME NEW sc, IsStore(sc), NEW cnt \in Nat, 0..(cnt - 1) \subseteq DOMAIN sc,
           NEW kk \in Nat, NEW L, IsTop(L, sc, 0..(cnt - 1), kk)
    PROVE  Len(L) = IF kk < cnt THEN kk ELSE cnt
<1>1. PICK n \in Nat : Len(L) = n
  BY LenProperties DEF IsTop
<1>2. PICK S : S = 0..(cnt - 1)
  OBVIOUS
<1>3. S \in SUBSET DOMAIN sc /\ IsTop(L, sc, S, kk) /\ n <= kk
  BY <1>1, <1>2 DEF IsTop
<1>4. IsFiniteSet(S) /\ Cardinality(S) = cnt
  BY <1>2, FS_Interval
<1>5. \A s \in 1..n : L[s].index \in S
  BY <1>1, <1>3 DEF IsTop
<1>6. \A s, u \in 1..n : s < u => Better(sc, L[s].index, L[u].index)
  BY <1>1, <1>3 DEF IsTop
<1>7. PICK f : f = [s \in 1..n |-> L[s].index]
  OBVIOUS
<1>8. f \in [1..n -> S]
  BY <1>5, <1>7
<1>9. \A s, u \in 1..n : s # u => f[s] # f[u]
  <2> SUFFICES ASSUME NEW s \in 1..n, NEW u \in 1..n, s < u PROVE f[s] # f[u]
    OBVIOUS
  <2> QED
    BY <1>3, <1>5, <1>6, <1>7, BetterOrders
<1>10. n <= cnt
  <2>1. f \in Injection(1..n, S)
    BY <1>8, <1>9 DEF Injection, IsInjective
  <2>2. Cardinality(1..n) <= Cardinality(S)
    BY <1>4, <2>1, FS_Injection
  <2>3. Cardinality(1..n) = n
    BY FS_Interval
  <2> QED
    BY <1>4, <2>2, <2>3
<1>11. n # kk => n = cnt
  <2> SUFFICES ASSUME n # kk PROVE n = cnt
    OBVIOUS
  <2>1. \A x \in S : \E s \in 1..n : L[s].index = x
    BY <1>1, <1>3 DEF IsTop
  <2>2. \A x \in S : \E s \in 1..n : f[s] = x
    BY <1>7, <2>1
  <2>3. Cardinality(S) = n
    BY <1>8, <1>9, <2>2, Places
  <2> QED
    BY <1>4, <2>3
<1> QED
  BY <1>1, <1>3, <1>10, <1>11

LEMMA BestTop ==
    ASSUME NEW sc, IsStore(sc), NEW cnt \in Nat, 0..(cnt - 1) \subseteq DOMAIN sc,
           NEW kk \in Nat, NEW L, IsTop(L, sc, 0..(cnt - 1), kk)
    PROVE  L = BestOf(sc, cnt, kk)
<1>1. PICK n \in Nat : n = IF kk < cnt THEN kk ELSE cnt
  OBVIOUS
<1>2. Len(L) = n
  BY <1>1, TopLength
<1>3. L \in Seq(HitSet)
  BY DEF IsTop
<1>4. PICK B : B = BestOf(sc, cnt, kk)
  OBVIOUS
<1>5. B = [r \in 1..n |-> Hit(sc, CHOOSE i \in 0..(cnt - 1) : NumBetter(sc, cnt, i) = r - 1)]
  BY <1>1, <1>4 DEF BestOf
<1>6. ASSUME NEW r \in 1..n
      PROVE  B[r] = L[r] /\ L[r] \in HitSet
  <2>1. L[r].index \in 0..(cnt - 1) /\ NumBetter(sc, cnt, L[r].index) = r - 1
    <3>1. IsTopOf(L, sc, cnt, kk)
      BY DEF IsTopOf
    <3> QED
      BY <1>2, <3>1, BetterThanPlace
  <2>2. PICK i : i = CHOOSE j \in 0..(cnt - 1) : NumBetter(sc, cnt, j) = r - 1
    OBVIOUS
  <2>3. i \in 0..(cnt - 1) /\ NumBetter(sc, cnt, i) = r - 1
    BY <2>1, <2>2
  <2>4. i = L[r].index
    <3>1. i \in DOMAIN sc /\ L[r].index \in DOMAIN sc
      BY <2>1, <2>3
    <3>2. CASE Better(sc, i, L[r].index)
      <4>1. NumBetter(sc, cnt, i) < NumBetter(sc, cnt, L[r].index)
        BY <2>1, <2>3, <3>2, NumBetterInjective
      <4> QED
        BY <2>1, <2>3, <4>1
    <3>3. CASE Better(sc, L[r].index, i)
      <4>1. NumBetter(sc, cnt, L[r].index) < NumBetter(sc, cnt, i)
        BY <2>1, <2>3, <3>3, NumBetterInjective
      <4> QED
        BY <2>1, <2>3, <4>1
    <3> QED
      BY <3>1, <3>2, <3>3, BetterOrders
  <2>5. L[r] = Hit(sc, L[r].index)
    BY <1>2 DEF IsTop
  <2>6. B[r] = Hit(sc, i)
    BY <1>5, <2>2
  <2>7. L[r] \in HitSet
    BY <1>2, <1>3, ElementOfSeq
  <2> QED
    BY <2>4, <2>5, <2>6, <2>7
<1>7. B = [r \in 1..n |-> B[r]]
  BY <1>5
<1>8. B \in [1..n -> HitSet]
  BY <1>6, <1>7
<1>9. B \in Seq(HitSet) /\ Len(B) = n
  BY <1>8
<1> QED
  BY <1>2, <1>3, <1>4, <1>6, <1>9, SeqEqual

(* The scan of all vectors returns the best k, sorted, the one stored      *)
(* first of equal scores: search.h on vdb_search.                          *)
THEOREM SearchIsBest ==
    ASSUME NEW sc, IsStore(sc), NEW cnt \in Nat, 0..(cnt - 1) \subseteq DOMAIN sc,
           NEW kk \in Nat \ {0}
    PROVE  VdbSearch(sc, cnt, kk) = BestOf(sc, cnt, kk)
<1>1. PICK L : L = ScanRange(sc, 0, cnt, kk)
  OBVIOUS
<1>2. IsTop(L, sc, 0..(cnt - 1), kk)
  BY <1>1, ScanTop
<1>3. L = BestOf(sc, cnt, kk)
  BY <1>2, BestTop
<1> QED
  BY <1>1, <1>3 DEF VdbSearch

(* Merging the scans of two consecutive ranges, the first first, gives the *)
(* scan of both: why vdb_search_mt returns what vdb_search does.           *)
THEOREM MergeIsScan ==
    ASSUME NEW sc, IsStore(sc), NEW kk \in Nat \ {0},
           NEW a \in Nat, NEW b \in Nat, NEW c \in Nat, a <= b, b <= c,
           a..(c - 1) \subseteq DOMAIN sc
    PROVE  Merge(ScanRange(sc, a, b, kk), ScanRange(sc, b, c, kk), kk) = ScanRange(sc, a, c, kk)
<1>1. PICK S1 \in SUBSET DOMAIN sc : S1 = a..(b - 1)
  <2>1. a..(b - 1) \subseteq a..(c - 1)
    OBVIOUS
  <2> QED
    BY <2>1
<1>2. PICK S2 \in SUBSET DOMAIN sc : S2 = b..(c - 1)
  <2>1. b..(c - 1) \subseteq a..(c - 1)
    OBVIOUS
  <2> QED
    BY <2>1
<1>3. PICK S \in SUBSET DOMAIN sc : S = a..(c - 1)
  OBVIOUS
<1>4. S = S1 \cup S2 /\ \A e \in S1, i \in S2 : e < i
  BY <1>1, <1>2, <1>3
<1>5. PICK hs : hs = ScanRange(sc, a, b, kk)
  OBVIOUS
<1>6. PICK list : list = ScanRange(sc, b, c, kk)
  OBVIOUS
<1>7. IsTop(hs, sc, S1, kk)
  BY <1>1, <1>5, ScanTop
<1>8. IsTop(list, sc, S2, kk)
  BY <1>2, <1>6, ScanTop
<1>9. PICK M : M = Merge(hs, list, kk)
  OBVIOUS
<1>10. IsTop(M, sc, S, kk)
  BY <1>4, <1>7, <1>8, <1>9, MergeTop
<1>11. a <= c
  OBVIOUS
<1>12. IsTop(ScanRange(sc, a, c, kk), sc, S, kk)
  BY <1>3, <1>11, ScanTop
<1>13. M = ScanRange(sc, a, c, kk)
  BY <1>10, <1>12, TopUnique
<1> QED
  BY <1>5, <1>6, <1>9, <1>13

----------------------------------------------------------------------------
(* The commands.                                                           *)

(* What the command's place says of the pool.                              *)
Driver == /\ threads \in 1..MaxThreads
          /\ upto \in 1..MaxThreads
          /\ command = "none" => mpc = "start"
          /\ mpc # "start" => threads > 1
          /\ command = "returned" => mpc \in {"start", "freed", "failed"}

CInv == IInv /\ Driver

----------------------------------------------------------------------------
(* A step of the pool's, seen from a command, is one of its specification. *)
LEMMA PoolSteps ==
    ASSUME IInv, [Next]_vars
    PROVE  IInv'
<1>1. CASE Client
  BY <1>1, CreationStep, ShutdownStep, PoolRunStep, WaitStep, JoinStep DEF Client
<1>2. CASE Gone \/ UNCHANGED vars
  BY <1>2, StutterStep DEF Gone
<1>3. CASE \E w \in Workers : Step(w) \/ SpuriousWakeup(w)
  <2> SUFFICES ASSUME NEW w \in Workers, Step(w) \/ SpuriousWakeup(w) PROVE IInv'
    BY <1>3
  <2> QED
    BY IdleWorkerStep, ClaimStep, FetchStep, RunTaskStep, FinishStep DEF Step
<1> QED
  BY <1>1, <1>2, <1>3 DEF Next

(* A new pool of a benchmark starts where a pool starts.                   *)
LEMMA FreshPool ==
    ASSUME mpc' = "start", nthreads' = 0, created' = 0,
           args' = 0, ntasks' = 0, next' = 0, active' = 0, shutdown' = FALSE,
           wpc' = [w \in Workers |-> "none"],
           idx' = [w \in Workers |-> 0], got' = [w \in Workers |-> 0],
           ran' = [i \in Tasks |-> 0]
    PROVE  IInv'
<1>1. Holders' = {}
  BY DEF Holders, Holding
<1>2. Cardinality(Holders') = 0
  BY <1>1, FS_EmptySet
<1>3. TypeOK'
  <2>1. /\ 0 \in 0..MaxThreads /\ 0 \in 0..MaxTasks /\ 0 \in 0..MaxBatches
        /\ 0 \in 0..0
    BY PoolAssumption
  <2>2. wpc' \in [Workers -> WorkerStates] /\ mpc' \in ClientStates
    BY DEF WorkerStates, ClientStates
  <2> QED
    BY <2>1, <2>2 DEF TypeOK
<1>4. ArgsLive' /\ ActiveCount' /\ NoLostWakeup' /\ NoUseAfterFree'
  BY <1>2 DEF ArgsLive, ActiveCount, NoLostWakeup, NoUseAfterFree,
     Holding, InPoolRun, WorkPosted
<1>5. Claims' /\ Lifecycle'
  BY PoolAssumption DEF Claims, Lifecycle, Holding, Pending, InPoolRun, Workers, Tasks
<1> QED
  BY <1>3, <1>4, <1>5 DEF IInv

----------------------------------------------------------------------------
LEMMA CommandsInitCInv == CommandsInit => CInv
<1> SUFFICES ASSUME CommandsInit PROVE CInv
  OBVIOUS
<1>1. IInv
  BY InitIInv DEF CommandsInit, SearchInit
<1>2. Driver
  BY PoolAssumption DEF CommandsInit, SearchInit, Init, Driver
<1> QED
  BY <1>1, <1>2 DEF CInv

LEMMA BeginKeeps ==
    ASSUME CInv, NEW c \in {"search", "bench"}, NEW n \in 1..MaxThreads, NEW m \in 1..MaxThreads,
           NEW nq, NEW kk, NEW store, Begin(c, n, m, nq, kk, store)
    PROVE  CInv'
<1>1. IInv'
  BY StutterStep DEF CInv, Begin
<1>2. Driver'
  BY DEF CInv, Driver, Begin, vars, client
<1> QED
  BY <1>1, <1>2 DEF CInv

LEMMA CommandBegins ==
    ASSUME CInv,
           \/ \E n \in SearchThreads, kk \in SearchK, store \in Stores : SearchCommand(n, kk, store)
           \/ \E b \in Benches, store \in BenchStores : BenchCommand(b.threads, b.nqueries, store)
    PROVE  CInv'
<1>1. ASSUME NEW n \in SearchThreads, NEW kk \in SearchK, NEW store \in Stores,
             SearchCommand(n, kk, store)
      PROVE  CInv'
  <2> DEFINE atLeast1 == IF n < 1 THEN 1 ELSE n
  <2>1. atLeast1 \in 1..MaxThreads
    BY PoolAssumption, CommandsAssumption
  <2>2. Begin("search", atLeast1, atLeast1, 1, kk, store)
    BY <1>1 DEF SearchCommand
  <2> HIDE DEF atLeast1
  <2> QED
    BY <2>1, <2>2, BeginKeeps
<1>2. ASSUME NEW b \in Benches, NEW store \in BenchStores,
             BenchCommand(b.threads, b.nqueries, store)
      PROVE  CInv'
  <2>1. b.threads \in 1..MaxThreads /\ 1 \in 1..MaxThreads
    BY PoolAssumption, CommandsAssumption
  <2> QED
    BY <1>2, <2>1, BeginKeeps DEF BenchCommand
<1> QED
  BY <1>1, <1>2

(* What the main thread does with the pool.                                *)
LEMMA MainStep ==
    ASSUME CInv, Main
    PROVE  CInv'
<1> USE DEF CInv
<1>1. CASE AskAlone \/ AskNoMemory \/ Answer \/ Return
  <2>1. UNCHANGED vars
    BY <1>1 DEF AskAlone, SearchAlone, AskNoMemory, SearchNoMemory, Answer, SearchReturn,
       Return, svars
  <2>2. IInv'
    BY <2>1, StutterStep
  <2>3. UNCHANGED <<threads, upto>> /\ mpc' = mpc
    BY <1>1, <2>1 DEF AskAlone, AskNoMemory, Answer, Return, vars, client
  <2>4. command' = command \/ (command' = "returned" /\ mpc \in {"start", "freed", "failed"})
    <3>1. CASE Return
      BY <3>1 DEF Return, Asked, Driver
    <3>2. CASE ~Return
      BY <1>1, <3>2 DEF AskAlone, AskNoMemory, Answer
    <3> QED
      BY <3>1, <3>2
  <2> QED
    BY <2>2, <2>3, <2>4 DEF Driver
<1>2. CASE OpenPool \/ GrowPool
  <2>1. /\ (\E n \in 0..MaxThreads : PoolCreate(n)) \/ PoolCreateNoMemory
             \/ CreateThread \/ CreateThreadFails \/ PoolReady
        /\ mpc = "start" => Running /\ threads > 1
        /\ UNCHANGED run
    BY <1>2, PoolAssumption DEF OpenPool, GrowPool, Driver, CreateThread, CreateThreadFails, PoolReady
  <2>2. IInv'
    BY <2>1, PoolSteps DEF Next, Client
  <2>3. mpc \in {"start", "creating"}
    BY <2>1 DEF PoolCreate, PoolCreateNoMemory, CreateThread, CreateThreadFails, PoolReady
  <2> QED
    BY <2>1, <2>2, <2>3 DEF Driver, run, Running
<1>3. CASE Ask
  <2>1. PoolRun(nthreads) /\ nthreads \in 0..MaxTasks /\ UNCHANGED run
    BY <1>3, PoolAssumption, SearchAssumption DEF Ask, SearchPost, IInv, TypeOK
  <2>2. IInv'
    BY <2>1, PoolRunStep
  <2> QED
    BY <2>1, <2>2 DEF Driver, run, PoolRun
<1>4. CASE Wait \/ MergeLists \/ ClosePool \/ PoolClosed
  <2>1. /\ PoolRunSleep \/ PoolRunReturn \/ UNCHANGED vars \/ PoolDestroy \/ Join
        /\ UNCHANGED run
    BY <1>4 DEF Wait, MergeLists, SearchRunReturns, MergeList, ClosePool, PoolClosed
  <2>2. IInv'
    BY <2>1, PoolSteps DEF Next, Client
  <2>3. UNCHANGED mpc \/ mpc \notin {"start", "freed", "failed"}
    BY <2>1 DEF PoolRunSleep, PoolRunReturn, vars, client, PoolDestroy, Join
  <2> QED
    BY <2>1, <2>2, <2>3 DEF Driver, run
<1>5. CASE NextRound
  <2>1. IInv'
    BY <1>5, FreshPool DEF NextRound
  <2>2. threads' \in 1..MaxThreads /\ UNCHANGED <<command, upto>> /\ mpc' = "start"
    BY <1>5, PoolAssumption DEF NextRound, Driver
  <2> QED
    BY <2>1, <2>2 DEF Driver
<1> QED
  BY <1>1, <1>2, <1>3, <1>4, <1>5 DEF Main

(* What a worker does, and a wake-up nobody sent: nothing unless the pool  *)
(* has live threads.                                                       *)
LEMMA ThreadStep ==
    ASSUME CInv, (\E w \in Workers : Worker(w)) \/ Spurious
    PROVE  CInv'
<1> USE DEF CInv
<1>1. /\ \/ \E w \in Workers : Step(w) \/ SpuriousWakeup(w)
         \/ SpuriousClientWakeup
         \/ UNCHANGED vars
      /\ UNCHANGED run
  BY DEF Worker, Step, ScanVector, SearchTaskDone, Spurious
<1>2. IInv'
  BY <1>1, PoolSteps DEF Next, Client
<1>3. UNCHANGED mpc \/ mpc = "sleep"
  BY <1>1 DEF Step, Sleep, Exit, Claim, Fetch, RunTask, Finish, SpuriousWakeup,
     SpuriousClientWakeup, vars, client
<1> QED
  BY <1>1, <1>2, <1>3 DEF Driver, run

(* The pool's invariant, and with it every safety property of the pool,    *)
(* holds while commands run on it.                                         *)
THEOREM CommandsInductive == CommandsSpec => []CInv
<1>1. CInv /\ [CommandsNext]_cvars => CInv'
  <2> SUFFICES ASSUME CInv, [CommandsNext]_cvars PROVE CInv'
    OBVIOUS
  <2>1. CASE UNCHANGED cvars
    <3>1. IInv'
      BY <2>1, StutterStep DEF cvars, svars, CInv
    <3> QED
      BY <2>1, <3>1 DEF cvars, svars, vars, client, run, CInv, Driver
  <2> QED
    BY <2>1, CommandBegins, MainStep, ThreadStep DEF CommandsNext, Over
<1> QED
  BY <1>1, CommandsInitCInv, PTL DEF CommandsSpec

(* main.c:278 and 510: when a command frees the store and the hits, none   *)
(* of the threads it has started is left.                                  *)
THEOREM NothingLeftCorrect == CommandsSpec => []NothingLeft
<1>1. CInv => NothingLeft
  BY DEF CInv, IInv, Driver, Lifecycle, NoUseAfterFree, NothingLeft, Live, Workers
<1> QED
  BY <1>1, CommandsInductive, PTL

----------------------------------------------------------------------------
(* One worker's part of localbuf: the list of what it has scanned so far,  *)
(* in places that no other worker's part has.                              *)
PartOf(buf, m, kk, t) == [j \in 1..m |-> buf[t * kk + j]]

Part(buf, m, c, sc, kk, cnt, n, t) ==
    /\ m \in 0..kk
    /\ c \in First(cnt, n, t)..(First(cnt, n, t) + Share(cnt, n, t))
    /\ PartOf(buf, m, kk, t) = ScanRange(sc, First(cnt, n, t), c, kk)

IsData(sc, kk, cnt) ==
    kk \in Nat \ {0} /\ cnt \in Nat /\ IsStore(sc) /\ 0..(cnt - 1) \subseteq DOMAIN sc

LEMMA PartsApart ==
    ASSUME NEW kk \in Nat, NEW t \in Nat, NEW u \in Nat, t # u, NEW j \in 1..kk
    PROVE  ~(u * kk + j - t * kk \in 1..kk)
<1>1. CASE u < t
  <2> PICK d \in Nat : d + 1 = t - u
    BY <1>1
  <2>1. t * kk = u * kk + d * kk + kk /\ d * kk \in Nat /\ u * kk \in Nat /\ t * kk \in Nat
    OBVIOUS
  <2> QED
    BY <2>1
<1>2. CASE t < u
  <2> PICK d \in Nat : d + 1 = u - t
    BY <1>2
  <2>1. u * kk = t * kk + d * kk + kk /\ d * kk \in Nat /\ u * kk \in Nat /\ t * kk \in Nat
    OBVIOUS
  <2> QED
    BY <2>1
<1> QED
  BY <1>1, <1>2

LEMMA PartInside ==
    ASSUME NEW kk \in Nat, NEW n \in Nat, NEW t \in 0..(n - 1), NEW j \in 1..kk
    PROVE  t * kk + j \in 1..(n * kk) /\ t * kk + j - t * kk = j
<1> PICK d \in Nat : d + 1 = n - t
  OBVIOUS
<1>1. n * kk = t * kk + d * kk + kk /\ d * kk \in Nat /\ t * kk \in Nat /\ n * kk \in Nat
  OBVIOUS
<1> QED
  BY <1>1

(* The range of a worker is in the store.                                  *)
LEMMA RangeInside ==
    ASSUME NEW sc, NEW kk, NEW cnt, IsData(sc, kk, cnt),
           NEW n \in Nat \ {0}, NEW t \in 0..(n - 1)
    PROVE  /\ First(cnt, n, t) \in Nat /\ Share(cnt, n, t) \in Nat
           /\ First(cnt, n, t) + Share(cnt, n, t) <= cnt
           /\ First(cnt, n, t + 1) = First(cnt, n, t) + Share(cnt, n, t)
<1>1. cnt \in Nat /\ t \in Nat /\ t + 1 \in 0..n
  BY DEF IsData
<1> QED
  BY <1>1, Ranges

(* A step of worker t: its list is that of one vector more, the others'    *)
(* are what they were.                                                     *)
Written(buf, list, kk, t) ==
    [c \in DOMAIN buf |-> IF c - t * kk \in 1..Len(list) THEN list[c - t * kk] ELSE buf[c]]

LEMMA PartGrows ==
    ASSUME NEW sc, NEW kk, NEW cnt, IsData(sc, kk, cnt),
           NEW n \in Nat \ {0}, NEW t \in 0..(n - 1),
           NEW buf, DOMAIN buf = 1..(n * kk), NEW m, NEW c, Part(buf, m, c, sc, kk, cnt, n, t),
           c < First(cnt, n, t) + Share(cnt, n, t),
           NEW list, list = TopkInsert(PartOf(buf, m, kk, t), kk, Hit(sc, c))
    PROVE  /\ Part(Written(buf, list, kk, t), Len(list), c + 1, sc, kk, cnt, n, t)
           /\ Len(list) \in 0..kk
<1>0. /\ First(cnt, n, t) \in Nat /\ Share(cnt, n, t) \in Nat
      /\ First(cnt, n, t) + Share(cnt, n, t) <= cnt
  BY RangeInside
<1> PICK a \in Nat : a = First(cnt, n, t)
  BY <1>0
<1> PICK e \in Nat : e = First(cnt, n, t) + Share(cnt, n, t) /\ e <= cnt
  BY <1>0
<1>1. kk \in Nat \ {0} /\ IsStore(sc) /\ cnt \in Nat
  BY DEF IsData
<1>2. c \in Nat /\ a <= c /\ c < e
  BY DEF Part
<1>3. a..c \subseteq DOMAIN sc
  <2>1. a..c \subseteq 0..(cnt - 1)
    BY <1>1, <1>2
  <2> QED
    BY <2>1 DEF IsData
<1>4. list = ScanRange(sc, a, c + 1, kk)
  <2>1. list = TopkInsert(ScanRange(sc, a, c, kk), kk, Hit(sc, c))
    BY DEF Part
  <2> QED
    BY <1>1, <1>2, <1>3, <2>1, ScanNext
<1>5. IsTop(list, sc, a..((c + 1) - 1), kk)
  <2>1. c + 1 \in Nat /\ a <= c + 1 /\ (c + 1) - 1 = c
    BY <1>2
  <2> QED
    BY <1>1, <1>3, <1>4, <2>1, ScanTop
<1>6. PICK l \in Nat : Len(list) = l /\ l <= kk /\ list \in Seq(HitSet)
  BY <1>5, LenProperties DEF IsTop
<1>7. PartOf(Written(buf, list, kk, t), l, kk, t) = list
  <2>1. \A j \in 1..l : Written(buf, list, kk, t)[t * kk + j] = list[j]
    <3> SUFFICES ASSUME NEW j \in 1..l PROVE Written(buf, list, kk, t)[t * kk + j] = list[j]
      OBVIOUS
    <3>1. PICK i : i = t * kk + j
      OBVIOUS
    <3>2. i \in DOMAIN buf /\ i - t * kk = j
      BY <1>1, <1>6, <3>1, PartInside
    <3> QED
      BY <1>6, <3>1, <3>2 DEF Written
  <2>2. PartOf(Written(buf, list, kk, t), l, kk, t) = [j \in 1..l |-> list[j]]
    BY <2>1 DEF PartOf
  <2> QED
    BY <1>6, <2>2
<1>8. c + 1 \in First(cnt, n, t)..(First(cnt, n, t) + Share(cnt, n, t))
  BY <1>2
<1> QED
  BY <1>4, <1>6, <1>7, <1>8 DEF Part

LEMMA PartStays ==
    ASSUME NEW sc, NEW kk \in Nat, NEW cnt, NEW n \in Nat, NEW t \in 0..(n - 1),
           NEW u \in 0..(n - 1), u # t, NEW buf, DOMAIN buf = 1..(n * kk),
           NEW m, NEW c, Part(buf, m, c, sc, kk, cnt, n, u), NEW list, Len(list) \in 0..kk
    PROVE  Part(Written(buf, list, kk, t), m, c, sc, kk, cnt, n, u)
<1>1. m \in 0..kk
  BY DEF Part
<1>2. \A j \in 1..m : Written(buf, list, kk, t)[u * kk + j] = buf[u * kk + j]
  <2> SUFFICES ASSUME NEW j \in 1..m
               PROVE  Written(buf, list, kk, t)[u * kk + j] = buf[u * kk + j]
    OBVIOUS
  <2>1. PICK i : i = u * kk + j
    OBVIOUS
  <2>2. j \in 1..kk
    BY <1>1
  <2>3. i \in DOMAIN buf
    BY <2>1, <2>2, PartInside
  <2>4. ~(i - t * kk \in 1..kk)
    BY <2>1, <2>2, PartsApart
  <2>5. ~(i - t * kk \in 1..Len(list))
    BY <2>4
  <2> QED
    BY <2>1, <2>3, <2>5 DEF Written
<1>3. PartOf(Written(buf, list, kk, t), m, kk, u) = PartOf(buf, m, kk, u)
  BY <1>2 DEF PartOf
<1> QED
  BY <1>3 DEF Part

----------------------------------------------------------------------------
(* What holds of a search in every state of a command: its k and its store *)
(* are fit for one (Given), where it is (Place), what its workers have     *)
(* written (Parts), and what the scans, the merge loop and the call have   *)
(* returned (Results).                                                     *)
Searching == InPoolRun \/ rc = "merge"

Given == command # "none" => IsData(scores, k, count)

Place == /\ rc = "merge" => mpc = "idle"
         /\ Searching => /\ command # "none" /\ q < queries
                         /\ nthreads > 0 /\ ntasks = nthreads
         /\ rc = "ok" => command # "none"

Parts == /\ cur \in [Tasks -> Nat] /\ localn \in [Tasks -> Nat]
         /\ Searching =>
              /\ DOMAIN localbuf = 1..(nthreads * k)
              /\ \A t \in 0..(nthreads - 1) :
                    Part(localbuf, localn[t], cur[t], scores, k, count, nthreads, t)

Results == /\ InPoolRun => /\ merged = 0 /\ hits = <<>>
                           /\ \A t \in 0..(nthreads - 1) : ran[t] = 1 => cur[t] = End(t)
           /\ rc = "merge" => /\ merged \in 0..nthreads
                              /\ \A t \in 0..(nthreads - 1) : cur[t] = End(t)
                              /\ hits = ScanRange(scores, 0, First(count, nthreads, merged), k)
           /\ rc = "ok" => hits = VdbSearch(scores, count, k)

Search == Given /\ Place /\ Parts /\ Results

Counts == q \in Nat /\ queries \in Nat

SInv == CInv /\ Counts /\ Search

LEMMA ScanOfNothing ==
    ASSUME NEW sc, NEW kk, NEW a \in Nat
    PROVE  ScanRange(sc, a, a, kk) = <<>>
<1>1. a - a = 0 /\ 0 \in Nat
  OBVIOUS
<1>2. PICK kept : ScanRange(sc, a, a, kk) = kept[0] /\ Scans(kept, sc, a, kk, 0)
  BY <1>1, ScanSteps
<1> QED
  BY <1>2 DEF Scans

(* Steps of the pool, and of the command while no search runs.             *)
LEMMA FrameStep ==
    ASSUME SInv, UNCHANGED search, command' = "none" <=> command = "none",
           InPoolRun' => InPoolRun, rc = "merge" => mpc' = "idle",
           Searching => UNCHANGED <<nthreads, ntasks, ran, q, queries>>
    PROVE  Search'
<1> USE DEF SInv, Search
<1>1. /\ k' = k /\ count' = count /\ scores' = scores /\ cur' = cur /\ localn' = localn
      /\ localbuf' = localbuf /\ hits' = hits /\ merged' = merged /\ rc' = rc
  BY DEF search
<1>2. Searching' => Searching
  BY <1>1 DEF Searching
<1>3. Searching => /\ nthreads' = nthreads /\ ntasks' = ntasks /\ ran' = ran
                   /\ q' = q /\ queries' = queries
  OBVIOUS
<1>4. Given'
  BY <1>1 DEF Given
<1>5. Place'
  BY <1>1, <1>2, <1>3 DEF Place, Searching
<1>6. Parts'
  BY <1>1, <1>2, <1>3 DEF Parts
<1>7. Results'
  <2>1. CASE InPoolRun'
    <3>1. InPoolRun /\ Searching
      BY <2>1 DEF Searching
    <3>2. rc # "merge"
      BY <3>1 DEF Place, InPoolRun
    <3> QED
      BY <1>1, <1>3, <3>1, <3>2 DEF Results, End
  <2>2. CASE ~InPoolRun'
    <3>1. rc = "merge" => Searching
      BY DEF Searching
    <3> QED
      BY <1>1, <1>3, <2>2, <3>1 DEF Results, End
  <2> QED
    BY <2>1, <2>2
<1> QED
  BY <1>4, <1>5, <1>6, <1>7

(* A call of vdb_search_mt posts its tasks: nothing is scanned yet.        *)
LEMMA PostStep ==
    ASSUME SInv, SInv => CInv', Ask
    PROVE  Search'
<1> USE DEF SInv, Search
<1>1. /\ k' = k /\ count' = count /\ scores' = scores /\ nthreads' = nthreads
      /\ cur' = [t \in Tasks |-> IF t < nthreads THEN First(count, nthreads, t) ELSE 0]
      /\ localn' = [t \in Tasks |-> 0]
      /\ localbuf' = [c \in 1..(nthreads * k) |-> Free]
      /\ hits' = <<>> /\ merged' = 0 /\ rc' = "none"
      /\ ntasks' = nthreads /\ nthreads > 0 /\ mpc' = "sleep"
      /\ ran' = [i \in Tasks |-> 0]
      /\ command # "none" /\ command' = command /\ q < queries /\ q' = q /\ queries' = queries
  BY DEF Ask, Running, SearchPost, PoolRun, run
<1>2. PICK n \in Nat \ {0} : n = nthreads /\ 0..(n - 1) \subseteq Tasks
  <2>1. nthreads \in 0..MaxThreads
    BY DEF CInv, IInv, TypeOK
  <2> QED
    BY <1>1, <2>1, PoolAssumption, SearchAssumption DEF Tasks
<1>3. IsData(scores, k, count)
  BY <1>1 DEF Given
<1>4. \A t \in 0..(n - 1) : First(count, n, t) \in Nat /\ Share(count, n, t) \in Nat
  BY <1>3, RangeInside
<1>5. \A t \in 0..(n - 1) : Part(localbuf', 0, First(count, n, t), scores, k, count, n, t)
  <2> SUFFICES ASSUME NEW t \in 0..(n - 1)
               PROVE  Part(localbuf', 0, First(count, n, t), scores, k, count, n, t)
    OBVIOUS
  <2>1. PICK a \in Nat : a = First(count, n, t)
    BY <1>4
  <2>2. ScanRange(scores, a, a, k) = <<>>
    BY ScanOfNothing
  <2>3. PartOf(localbuf', 0, k, t) = <<>>
    BY DEF PartOf
  <2>4. 0 \in 0..k /\ a \in First(count, n, t)..(First(count, n, t) + Share(count, n, t))
    BY <1>3, <1>4, <2>1 DEF IsData
  <2> QED
    BY <2>1, <2>2, <2>3, <2>4 DEF Part
<1>6. cur' \in [Tasks -> Nat] /\ localn' \in [Tasks -> Nat]
  <2>1. \A t \in Tasks : t < n => t \in 0..(n - 1)
    BY DEF Tasks
  <2>2. \A t \in Tasks : (IF t < n THEN First(count, n, t) ELSE 0) \in Nat
    BY <1>4, <2>1
  <2> QED
    BY <1>1, <1>2, <2>2
<1>7. \A t \in 0..(n - 1) : cur'[t] = First(count, n, t) /\ localn'[t] = 0 /\ ran'[t] = 0
  BY <1>1, <1>2
<1>8. Given'
  BY <1>1 DEF Given
<1>9. Place'
  BY <1>1 DEF Place, Searching
<1>10. Parts'
  <2>1. \A t \in 0..(n - 1) : Part(localbuf', localn'[t], cur'[t], scores, k, count, n, t)
    BY <1>5, <1>7
  <2>2. DOMAIN localbuf' = 1..(n * k)
    BY <1>1, <1>2
  <2>3. nthreads' = n /\ k' = k /\ count' = count /\ scores' = scores
    BY <1>1, <1>2
  <2> QED
    BY <1>6, <2>1, <2>2, <2>3 DEF Parts
<1>11. Results'
  BY <1>1, <1>2, <1>7 DEF Results
<1> QED
  BY <1>8, <1>9, <1>10, <1>11

(* A worker scans one vector more.                                         *)
LEMMA ScanStep ==
    ASSUME SInv, NEW w \in Workers, ScanVector(w), UNCHANGED run
    PROVE  Search'
<1> USE DEF SInv, Search
<1>1. PICK t : t = idx[w]
  OBVIOUS
<1>2. PICK list : list = TopkInsert(PartOf(localbuf, localn[t], k, t), k, Hit(scores, cur[t]))
  OBVIOUS
<1>3. /\ wpc[w] = "call" /\ cur[t] < End(t)
      /\ cur' = [cur EXCEPT ![t] = @ + 1]
      /\ localn' = [localn EXCEPT ![t] = Len(list)]
      /\ localbuf' = Written(localbuf, list, k, t)
      /\ UNCHANGED <<vars, k, count, scores, hits, merged, rc>>
  BY <1>1, <1>2 DEF ScanVector, Local, Offset, PartOf, Written
<1>4. k' = k /\ count' = count /\ scores' = scores /\ hits' = hits /\ merged' = merged /\ rc' = rc
  BY <1>3
<1>5. mpc' = mpc /\ nthreads' = nthreads /\ ntasks' = ntasks /\ ran' = ran
  BY <1>3 DEF vars, client, batch
<1>6. command' = command /\ q' = q /\ queries' = queries
  BY DEF run
<1>7. InPoolRun /\ t < ntasks /\ t \in Nat
  BY <1>1, <1>3 DEF CInv, IInv, ArgsLive, Holding, TypeOK
<1>8. Searching /\ rc # "merge" /\ InPoolRun' /\ Searching'
  BY <1>4, <1>5, <1>7 DEF Searching, Place, InPoolRun
<1>9. PICK n \in Nat \ {0} : n = nthreads /\ t \in 0..(n - 1) /\ 0..(n - 1) \subseteq Tasks
  <2>1. nthreads \in 0..MaxThreads
    BY DEF CInv, IInv, TypeOK
  <2> QED
    BY <1>7, <1>8, <2>1, PoolAssumption, SearchAssumption DEF Tasks, Place
<1>10. IsData(scores, k, count) /\ k \in Nat
  BY <1>8 DEF Given, Place, IsData
<1>11. DOMAIN localbuf = 1..(n * k) /\ cur \in [Tasks -> Nat] /\ localn \in [Tasks -> Nat]
  BY <1>8, <1>9 DEF Parts
<1>12. \A u \in 0..(n - 1) : Part(localbuf, localn[u], cur[u], scores, k, count, n, u)
  BY <1>8, <1>9 DEF Parts
<1>13. /\ Part(localbuf', Len(list), cur[t] + 1, scores, k, count, n, t)
       /\ Len(list) \in 0..k
  <2>1. cur[t] < First(count, n, t) + Share(count, n, t)
    BY <1>3, <1>9 DEF End
  <2>2. Part(localbuf, localn[t], cur[t], scores, k, count, n, t)
    BY <1>9, <1>12
  <2>3. /\ Part(Written(localbuf, list, k, t), Len(list), cur[t] + 1, scores, k, count, n, t)
        /\ Len(list) \in 0..k
    BY <1>2, <1>9, <1>10, <1>11, <2>1, <2>2, PartGrows
  <2> QED
    BY <1>3, <2>3
<1>14. \A u \in 0..(n - 1) : u # t => Part(localbuf', localn[u], cur[u], scores, k, count, n, u)
  <2> SUFFICES ASSUME NEW u \in 0..(n - 1), u # t
               PROVE  Part(localbuf', localn[u], cur[u], scores, k, count, n, u)
    OBVIOUS
  <2>1. Part(localbuf, localn[u], cur[u], scores, k, count, n, u)
    BY <1>12
  <2>2. Part(Written(localbuf, list, k, t), localn[u], cur[u], scores, k, count, n, u)
    BY <1>9, <1>10, <1>11, <1>13, <2>1, PartStays
  <2> QED
    BY <1>3, <2>2
<1>15. \A u \in Tasks : /\ cur'[u] = IF u = t THEN cur[t] + 1 ELSE cur[u]
                        /\ localn'[u] = IF u = t THEN Len(list) ELSE localn[u]
  BY <1>3, <1>11
<1>16. Given'
  BY <1>4, <1>6 DEF Given
<1>17. Place'
  BY <1>4, <1>5, <1>6, <1>8 DEF Place
<1>18. Parts'
  <2>1. cur[t] + 1 \in Nat /\ Len(list) \in Nat
    BY <1>9, <1>11, <1>13
  <2>2. cur' \in [Tasks -> Nat] /\ localn' \in [Tasks -> Nat]
    BY <1>3, <1>11, <2>1
  <2>3. DOMAIN localbuf' = DOMAIN localbuf
    BY <1>3 DEF Written
  <2>4. \A u \in 0..(n - 1) : Part(localbuf', localn'[u], cur'[u], scores, k, count, n, u)
    BY <1>9, <1>13, <1>14, <1>15
  <2> QED
    BY <1>4, <1>5, <1>9, <1>11, <2>2, <2>3, <2>4 DEF Parts
<1>19. Results'
  <2>1. ran[t] # 1
    <3>1. cur[t] \in Nat /\ End(t) \in Int
      BY <1>9, <1>10, <1>11, RangeInside DEF End
    <3> QED
      BY <1>3, <1>7, <1>9, <3>1 DEF Results
  <2>2. \A u \in 0..(n - 1) : ran[u] = 1 => cur'[u] = First(count, n, u) + Share(count, n, u)
    BY <1>7, <1>9, <1>15, <2>1 DEF Results, End
  <2> QED
    BY <1>4, <1>5, <1>7, <1>8, <1>9, <2>2 DEF Results, End, Place
<1> QED
  BY <1>16, <1>17, <1>18, <1>19

(* A worker's task ends: its range is scanned.                             *)
LEMMA TaskDoneStep ==
    ASSUME SInv, NEW w \in Workers, SearchTaskDone(w), UNCHANGED run
    PROVE  Search'
<1> USE DEF SInv, Search
<1>1. PICK t : t = idx[w]
  OBVIOUS
<1>2. /\ wpc[w] = "call" /\ cur[t] >= End(t) /\ ran' = [ran EXCEPT ![t] = @ + 1]
      /\ mpc' = mpc /\ nthreads' = nthreads /\ ntasks' = ntasks
      /\ k' = k /\ count' = count /\ scores' = scores /\ cur' = cur /\ localn' = localn
      /\ localbuf' = localbuf /\ hits' = hits /\ merged' = merged /\ rc' = rc
      /\ command' = command /\ q' = q /\ queries' = queries
  BY <1>1 DEF SearchTaskDone, RunTask, client, batch, search, run
<1>3. InPoolRun /\ t < ntasks /\ t \in Nat
  BY <1>1, <1>2 DEF CInv, IInv, ArgsLive, Holding, TypeOK
<1>4. Searching /\ rc # "merge" /\ t \in 0..(nthreads - 1) /\ nthreads \in Nat \ {0}
  BY <1>3 DEF Searching, Place, InPoolRun, CInv, IInv, TypeOK
<1>5. IsData(scores, k, count)
  BY <1>4 DEF Given, Place
<1>6. cur[t] = End(t)
  <2>1. Part(localbuf, localn[t], cur[t], scores, k, count, nthreads, t)
    BY <1>4 DEF Parts
  <2>2. First(count, nthreads, t) \in Nat /\ Share(count, nthreads, t) \in Nat
    BY <1>4, <1>5, RangeInside
  <2> QED
    BY <1>2, <2>1, <2>2 DEF Part, End
<1>7. Given' /\ Place' /\ Parts'
  BY <1>2 DEF Given, Place, Parts, Searching, InPoolRun
<1>8. \A u \in 0..(nthreads - 1) : ran'[u] = 1 => cur[u] = End(u)
  <2>1. \A u \in 0..(nthreads - 1) : u # t => ran'[u] = ran[u]
    <3>1. \A u \in 0..(nthreads - 1) : u \in Tasks
      BY <1>4, PoolAssumption DEF Place, CInv, IInv, TypeOK, Tasks
    <3> QED
      BY <1>2, <3>1 DEF CInv, IInv, TypeOK
  <2> QED
    BY <1>3, <1>6, <2>1 DEF Results
<1>9. Results'
  BY <1>2, <1>3, <1>4, <1>8 DEF Results, End, InPoolRun
<1> QED
  BY <1>7, <1>9

(* pool_run returns: every range is scanned.                               *)
LEMMA RunReturnsStep ==
    ASSUME SInv, SearchRunReturns, UNCHANGED run
    PROVE  Search'
<1> USE DEF SInv, Search
<1>1. /\ mpc = "lock" /\ mpc' = "idle" /\ active <= 0
      /\ nthreads' = nthreads /\ ntasks' = ntasks
      /\ k' = k /\ count' = count /\ scores' = scores /\ cur' = cur /\ localn' = localn
      /\ localbuf' = localbuf /\ hits' = hits /\ merged' = merged /\ rc' = "merge"
      /\ command' = command /\ q' = q /\ queries' = queries
  BY DEF SearchRunReturns, PoolRunReturn, Drained, batch, run
<1>2. InPoolRun /\ Searching
  BY <1>1 DEF InPoolRun, Searching
<1>3. nthreads \in Nat \ {0} /\ ntasks = nthreads /\ IsData(scores, k, count)
  BY <1>2 DEF Place, Given, CInv, IInv, TypeOK
<1>4. active = 0
  BY <1>1 DEF CInv, IInv, TypeOK
<1>5. next = ntasks /\ \A v \in Workers : ~Pending(v)
  BY <1>4, DrainedMeansIdle DEF CInv, IInv, Holders, Holding, Pending
<1>6. \A i \in 0..(ntasks - 1) : ran[i] = 1
  BY <1>5 DEF CInv, IInv, TypeOK, Claims
<1>7. \A t \in 0..(nthreads - 1) : cur[t] = End(t)
  BY <1>2, <1>3, <1>6 DEF Results
<1>8. merged = 0 /\ hits = <<>>
  BY <1>2 DEF Results
<1>9. ScanRange(scores, 0, First(count, nthreads, 0), k) = <<>>
  <2>1. First(count, nthreads, 0) = 0
    BY <1>3, Ranges DEF IsData
  <2> QED
    BY <2>1, ScanOfNothing
<1>10. Given' /\ Place' /\ Parts'
  BY <1>1, <1>2 DEF Given, Place, Parts, Searching
<1>11. Results'
  BY <1>1, <1>3, <1>7, <1>8, <1>9 DEF Results, End, InPoolRun
<1> QED
  BY <1>10, <1>11

(* A round of the merge loop: hits is the list of one range more.          *)
LEMMA MergeListStep ==
    ASSUME SInv, MergeList, UNCHANGED run
    PROVE  Search'
<1> USE DEF SInv, Search
<1>1. /\ rc = "merge" /\ merged < nthreads /\ hits' = Merge(hits, Local(merged), k)
      /\ merged' = merged + 1
      /\ mpc' = mpc /\ nthreads' = nthreads /\ ntasks' = ntasks
      /\ k' = k /\ count' = count /\ scores' = scores /\ cur' = cur /\ localn' = localn
      /\ localbuf' = localbuf /\ rc' = rc
      /\ command' = command /\ q' = q /\ queries' = queries
  BY DEF MergeList, vars, client, batch, run
<1>2. Searching /\ mpc = "idle"
  BY <1>1 DEF Searching, Place
<1>3. PICK n \in Nat \ {0} : n = nthreads /\ IsData(scores, k, count)
  BY <1>2 DEF Place, Given, CInv, IInv, TypeOK
<1>4. PICK t \in 0..(n - 1) : t = merged
  BY <1>1, <1>3 DEF Results
<1>5. Local(merged) = ScanRange(scores, First(count, n, t), cur[t], k)
  BY <1>2, <1>3, <1>4 DEF Parts, Part, PartOf, Local, Offset
<1>6. /\ First(count, n, t) \in Nat /\ Share(count, n, t) \in Nat
      /\ First(count, n, t) + Share(count, n, t) <= count
      /\ First(count, n, t + 1) = First(count, n, t) + Share(count, n, t)
  BY <1>3, RangeInside
<1>7. PICK a \in Nat : a = First(count, n, t)
  BY <1>6
<1>8. PICK b \in Nat : b = First(count, n, t + 1)
  BY <1>6
<1>9. a <= b /\ b <= count /\ cur[t] = b
  <2>1. cur[t] = End(t)
    BY <1>1, <1>3, <1>4 DEF Results
  <2> QED
    BY <1>3, <1>6, <1>7, <1>8, <2>1 DEF End
<1>10. hits = ScanRange(scores, 0, a, k)
  BY <1>1, <1>3, <1>4, <1>7 DEF Results
<1>11. Merge(ScanRange(scores, 0, a, k), ScanRange(scores, a, b, k), k) = ScanRange(scores, 0, b, k)
  <2>1. k \in Nat \ {0} /\ IsStore(scores) /\ count \in Nat
    BY <1>3 DEF IsData
  <2>2. 0..(b - 1) \subseteq DOMAIN scores
    <3>1. 0..(b - 1) \subseteq 0..(count - 1)
      BY <1>9, <2>1
    <3> QED
      BY <1>3, <3>1 DEF IsData
  <2>3. 0 \in Nat /\ 0 <= a /\ a <= b
    BY <1>9
  <2> QED
    BY <2>1, <2>2, <2>3, MergeIsScan
<1>12. hits' = ScanRange(scores, 0, First(count, n, t + 1), k)
  BY <1>1, <1>5, <1>7, <1>8, <1>9, <1>10, <1>11
<1>13. merged' \in 0..n /\ merged' = t + 1
  BY <1>1, <1>4
<1>14. Given' /\ Place' /\ Parts'
  BY <1>1, <1>2 DEF Given, Place, Parts, Searching, InPoolRun
<1>15. Results'
  BY <1>1, <1>2, <1>3, <1>12, <1>13 DEF Results, End, InPoolRun
<1> QED
  BY <1>14, <1>15

(* The call returns: hits is the list of all vectors.                      *)
LEMMA AnswerStep ==
    ASSUME SInv, Answer
    PROVE  Search'
<1> USE DEF SInv, Search
<1>1. /\ rc = "merge" /\ merged = nthreads /\ rc' = "ok" /\ mpc' = mpc
      /\ k' = k /\ count' = count /\ scores' = scores /\ cur' = cur /\ localn' = localn
      /\ hits' = hits /\ command' = command
  BY DEF Answer, SearchReturn, vars, client
<1>2. Searching /\ mpc = "idle"
  BY <1>1 DEF Searching, Place
<1>3. nthreads \in Nat \ {0} /\ IsData(scores, k, count)
  BY <1>2 DEF Place, Given, CInv, IInv, TypeOK
<1>4. First(count, nthreads, nthreads) = count
  BY <1>3, Ranges DEF IsData
<1>5. hits = VdbSearch(scores, count, k)
  BY <1>1, <1>4 DEF Results, VdbSearch
<1>6. ~InPoolRun' /\ ~Searching'
  BY <1>1, <1>2 DEF InPoolRun, Searching
<1> QED
  BY <1>1, <1>2, <1>5, <1>6 DEF Given, Place, Parts, Results

(* Steps after which no search runs, and none has just returned "ok".      *)
LEMMA NotSearching ==
    ASSUME SInv, ~Searching', rc' # "ok",
           UNCHANGED <<k, count, scores, cur, localn>>, command # "none" \/ command' = "none"
    PROVE  Search'
BY DEF SInv, Search, Given, Place, Parts, Results, Searching

(* vdb_search on the main thread, and a call of vdb_search_mt that has no  *)
(* memory.                                                                 *)
LEMMA AloneStep ==
    ASSUME SInv, AskAlone \/ AskNoMemory
    PROVE  Search'
<1> USE DEF SInv, Search
<1>1. CASE AskAlone
  <2>1. /\ (rc' = "ok" /\ hits' = VdbSearch(scores, count, k)) \/ rc' = "failed"
        /\ k' = k /\ count' = count /\ scores' = scores /\ cur' = cur /\ localn' = localn
        /\ mpc' = mpc /\ command # "none" /\ command' = command /\ threads = 1
    BY <1>1 DEF AskAlone, Running, SearchAlone, vars, client
  <2>2. mpc = "start"
    BY <2>1 DEF CInv, Driver
  <2>3. ~InPoolRun' /\ ~Searching'
    BY <2>1, <2>2 DEF InPoolRun, Searching
  <2> QED
    BY <2>1, <2>3 DEF Given, Place, Parts, Results
<1>2. CASE AskNoMemory
  <2>1. /\ rc' = "failed" /\ mpc = "idle" /\ mpc' = mpc /\ command # "none"
        /\ UNCHANGED <<k, count, scores, cur, localn>>
    BY <1>2 DEF AskNoMemory, Running, SearchNoMemory, vars, client
  <2>2. ~Searching'
    BY <2>1 DEF InPoolRun, Searching
  <2> QED
    BY <2>1, <2>2, NotSearching
<1> QED
  BY <1>1, <1>2

(* A command begins, with a store and a k that the assumption describes.   *)
LEMMA StoreIsData ==
    ASSUME NEW store \in Stores \cup BenchStores, NEW kk \in SearchK \cup {BenchK}
    PROVE  IsData(store, kk, Cardinality(DOMAIN store))
<1>1. /\ IsFiniteSet(DOMAIN store)
      /\ store \in [0..(Cardinality(DOMAIN store) - 1) -> Int]
      /\ kk \in Nat \ {0}
  BY CommandsAssumption
<1>2. PICK n \in Nat : n = Cardinality(DOMAIN store)
  BY <1>1, FS_CardinalityType
<1>3. DOMAIN store = 0..(n - 1) /\ \A i \in 0..(n - 1) : store[i] \in Int
  BY <1>1, <1>2
<1> QED
  BY <1>1, <1>2, <1>3 DEF IsData, IsStore

LEMMA BeginStep ==
    ASSUME SInv, NEW c, NEW n, NEW m, NEW nq, NEW kk \in SearchK \cup {BenchK},
           NEW store \in Stores \cup BenchStores, Begin(c, n, m, nq, kk, store)
    PROVE  Search'
<1> USE DEF SInv, Search
<1>1. /\ command = "none" /\ k' = kk /\ scores' = store
      /\ count' = Cardinality(DOMAIN store)
      /\ mpc' = mpc /\ rc' = rc /\ cur' = cur /\ localn' = localn
  BY DEF Begin, vars, client
<1>2. ~Searching /\ rc # "ok"
  BY <1>1 DEF Place
<1>3. ~InPoolRun' /\ ~Searching' /\ rc' # "ok"
  BY <1>1, <1>2 DEF Searching, InPoolRun
<1>4. IsData(scores', k', count')
  BY <1>1, StoreIsData
<1> QED
  BY <1>1, <1>3, <1>4 DEF Given, Place, Parts, Results, Searching

(* The command's loop goes round, and the command returns, between         *)
(* searches only.                                                          *)
LEMMA RoundStep ==
    ASSUME SInv, NextRound \/ Return
    PROVE  Search'
<1> USE DEF SInv, Search
<1>1. /\ UNCHANGED search /\ mpc' \in {"start", mpc}
      /\ mpc' = mpc \/ ~(mpc' \in {"sleep", "lock"})
  BY DEF NextRound, Return, svars, vars, client
<1>2. q = queries \/ mpc = "failed"
  BY DEF NextRound, Return, Asked
<1>3. ~Searching
  <2>1. mpc = "failed" => ~Searching
    BY DEF Searching, InPoolRun, Place
  <2> QED
    BY <1>2, <2>1 DEF Place, Counts
<1>4. command # "none" /\ command' # "none"
  BY DEF NextRound, Return
<1>5. InPoolRun' => InPoolRun
  BY <1>1 DEF InPoolRun
<1>6. rc # "merge"
  BY <1>3 DEF Searching
<1> QED
  BY <1>1, <1>3, <1>4, <1>5, <1>6, FrameStep

(* Steps of the pool's that leave the search alone.                        *)
LEMMA PoolStep ==
    ASSUME SInv, OpenPool \/ GrowPool \/ Wait \/ ClosePool \/ PoolClosed \/ Spurious
    PROVE  Search'
<1> USE DEF SInv, Search
<1>1. UNCHANGED search /\ UNCHANGED run
  BY DEF OpenPool, GrowPool, Wait, ClosePool, PoolClosed, Spurious
<1>2. command' = command /\ q' = q /\ queries' = queries
  BY <1>1 DEF run
<1>3. CASE OpenPool \/ GrowPool \/ ClosePool \/ PoolClosed
  <2>1. ~InPoolRun /\ ~InPoolRun'
    BY <1>3 DEF OpenPool, GrowPool, ClosePool, PoolClosed, PoolCreate, PoolCreateNoMemory,
       CreateThread, CreateThreadFails, PoolReady, PoolDestroy, Shutdown, Join, InPoolRun
  <2>2. rc # "merge"
    <3>1. mpc = "idle" => ClosePool
      BY <1>3 DEF OpenPool, GrowPool, PoolClosed, PoolCreate, PoolCreateNoMemory,
         CreateThread, CreateThreadFails, PoolReady, Join
    <3>2. mpc = "idle" => q = queries
      BY <3>1 DEF ClosePool
    <3> QED
      BY <3>2 DEF Place, Searching, Counts
  <2>3. ~Searching
    BY <2>1, <2>2 DEF Searching
  <2> QED
    BY <1>1, <1>2, <2>1, <2>2, <2>3, FrameStep
<1>4. CASE Wait \/ Spurious
  <2>1. /\ mpc' = mpc \/ InPoolRun
        /\ UNCHANGED <<nthreads, ntasks, ran>>
    BY <1>4 DEF Wait, Spurious, PoolRunSleep, SpuriousClientWakeup, SpuriousWakeup, InPoolRun,
       batch, client
  <2>2. InPoolRun' => InPoolRun
    BY <2>1 DEF InPoolRun
  <2>3. rc = "merge" => mpc' = "idle"
    BY <2>1 DEF Place, InPoolRun
  <2> QED
    BY <1>1, <1>2, <2>1, <2>2, <2>3, FrameStep
<1> QED
  BY <1>3, <1>4

LEMMA WorkerStep ==
    ASSUME SInv, NEW w \in Workers, Worker(w)
    PROVE  Search'
<1>1. UNCHANGED run
  BY DEF Worker
<1>2. CASE ScanVector(w)
  BY <1>1, <1>2, ScanStep
<1>3. CASE SearchTaskDone(w)
  BY <1>1, <1>3, TaskDoneStep
<1>4. CASE (Sleep(w) \/ Exit(w) \/ Claim(w) \/ Fetch(w) \/ Finish(w)) /\ UNCHANGED search
  <2>1. /\ mpc' = mpc \/ InPoolRun
        /\ UNCHANGED <<nthreads, ntasks, ran>>
    BY <1>4 DEF Sleep, Exit, Claim, Fetch, Finish, InPoolRun, batch, client
  <2>2. InPoolRun' => InPoolRun
    BY <2>1 DEF InPoolRun
  <2>3. rc = "merge" => mpc' = "idle"
    BY <2>1 DEF SInv, Search, Place, InPoolRun
  <2>4. command' = command /\ q' = q /\ queries' = queries
    BY <1>1 DEF run
  <2> QED
    BY <1>4, <2>1, <2>2, <2>3, <2>4, FrameStep
<1> QED
  BY <1>2, <1>3, <1>4 DEF Worker

LEMMA CountsStep ==
    ASSUME SInv, CommandsNext
    PROVE  Counts'
<1> USE DEF SInv, Counts
<1>1. ASSUME NEW c, NEW n, NEW m, NEW nq \in Nat, NEW kk, NEW store, Begin(c, n, m, nq, kk, store)
      PROVE  Counts'
  BY <1>1 DEF Begin
<1>2. ASSUME NEW n \in SearchThreads, NEW kk \in SearchK, NEW store \in Stores,
             SearchCommand(n, kk, store)
      PROVE  Counts'
  BY <1>1, <1>2 DEF SearchCommand
<1>3. ASSUME NEW b \in Benches, NEW store \in BenchStores,
             BenchCommand(b.threads, b.nqueries, store)
      PROVE  Counts'
  <2>1. b.nqueries \in Nat
    BY PoolAssumption, CommandsAssumption
  <2> QED
    BY <1>1, <1>3, <2>1 DEF BenchCommand
<1>4. CASE Main
  BY <1>4 DEF Main, AskAlone, OpenPool, GrowPool, Ask, AskNoMemory, Wait, MergeLists, Answer,
     ClosePool, PoolClosed, NextRound, Return, run
<1>5. CASE Spurious \/ Over \/ \E w \in Workers : Worker(w)
  BY <1>5 DEF Spurious, Over, Worker, run, cvars
<1> QED
  BY <1>2, <1>3, <1>4, <1>5 DEF CommandsNext

LEMMA InitSearch == CommandsInit => Counts /\ Search
<1> SUFFICES ASSUME CommandsInit PROVE Counts /\ Search
  OBVIOUS
<1>1. ~InPoolRun /\ rc = "none" /\ command = "none"
  BY DEF CommandsInit, SearchInit, Init, InPoolRun
<1>2. cur \in [Tasks -> Nat] /\ localn \in [Tasks -> Nat] /\ Counts
  BY DEF CommandsInit, SearchInit, Counts
<1> QED
  BY <1>1, <1>2 DEF Search, Given, Place, Parts, Results, Searching

(* Whatever the order of the scans, each worker's part of localbuf is the  *)
(* list of what it has scanned, and hits the list of what was merged.      *)
THEOREM SearchInductive == CommandsSpec => []SInv
<1>1. CommandsInit => SInv
  BY CommandsInitCInv, InitSearch DEF SInv
<1>2. SInv /\ CInv' /\ [CommandsNext]_cvars => SInv'
  <2> SUFFICES ASSUME SInv, CInv', [CommandsNext]_cvars PROVE SInv'
    OBVIOUS
  <2>1. CASE UNCHANGED cvars
    <3>1. Search'
      <4>1. UNCHANGED search /\ UNCHANGED <<nthreads, ntasks, ran, q, queries>> /\ command' = command
            /\ mpc' = mpc
        BY <2>1 DEF cvars, svars, vars, client, batch, run
      <4>2. (InPoolRun' => InPoolRun) /\ (rc = "merge" => mpc' = "idle")
        BY <4>1 DEF InPoolRun, SInv, Search, Place
      <4> QED
        BY <4>1, <4>2, FrameStep
    <3>2. Counts'
      BY <2>1 DEF cvars, run, SInv, Counts
    <3> QED
      BY <3>1, <3>2 DEF SInv
  <2>2. CASE CommandsNext
    <3>1. ASSUME NEW n \in SearchThreads, NEW kk \in SearchK, NEW store \in Stores,
                 SearchCommand(n, kk, store)
          PROVE  Search'
      BY <3>1, BeginStep DEF SearchCommand
    <3>2. ASSUME NEW b \in Benches, NEW store \in BenchStores,
                 BenchCommand(b.threads, b.nqueries, store)
          PROVE  Search'
      BY <3>2, BeginStep DEF BenchCommand
    <3>3. ASSUME Main PROVE Search'
      <4>1. CASE MergeLists
        <5>1. UNCHANGED run
          BY <4>1 DEF MergeLists
        <5>2. CASE SearchRunReturns
          BY <5>1, <5>2, RunReturnsStep
        <5>3. CASE MergeList
          BY <5>1, <5>3, MergeListStep
        <5> QED
          BY <4>1, <5>2, <5>3 DEF MergeLists
      <4>2. CASE Ask
        BY <4>2, PostStep
      <4>3. CASE AskAlone \/ AskNoMemory
        BY <4>3, AloneStep
      <4>4. CASE Answer
        BY <4>4, AnswerStep
      <4>5. CASE NextRound \/ Return
        BY <4>5, RoundStep
      <4>6. CASE OpenPool \/ GrowPool \/ Wait \/ ClosePool \/ PoolClosed
        BY <4>6, PoolStep
      <4> QED
        BY <3>3, <4>1, <4>2, <4>3, <4>4, <4>5, <4>6 DEF Main
    <3>4. ASSUME Over PROVE Search'
      <4>1. UNCHANGED cvars
        BY <3>4 DEF Over
      <4> QED
        BY <2>1, <4>1 DEF SInv
    <3>5. Search'
      BY <2>2, <3>1, <3>2, <3>3, <3>4, PoolStep, WorkerStep DEF CommandsNext
    <3> QED
      BY <2>2, <3>5, CountsStep DEF SInv
  <2> QED
    BY <2>1, <2>2
<1> QED
  BY <1>1, <1>2, CommandsInductive, PTL DEF CommandsSpec

(* A task's list is what it would be if the task had run alone: nobody     *)
(* else writes its part of localbuf (search.c:151).                        *)
THEOREM PrivateBuffersCorrect == CommandsSpec => []PrivateBuffers
<1>1. SInv => PrivateBuffers
  BY DEF SInv, Search, Parts, Part, PartOf, Searching, InPoolRun, PrivateBuffers, Local, Offset, Start
<1> QED
  BY <1>1, SearchInductive, PTL

(* search.h: what a search of any store returns, with any number of        *)
(* threads and for any k, is the best k, and what vdb_search returns.      *)
THEOREM BestKCorrect == CommandsSpec => []BestK
<1>1. SInv => BestK
  <2> SUFFICES ASSUME SInv, rc = "ok" PROVE BestK
    BY DEF BestK
  <2>1. hits = VdbSearch(scores, count, k) /\ IsData(scores, k, count)
    BY DEF SInv, Search, Results, Place, Given
  <2>2. VdbSearch(scores, count, k) = BestOf(scores, count, k)
    BY <2>1, SearchIsBest DEF IsData
  <2> QED
    BY <2>1, <2>2 DEF BestK
<1> QED
  BY <1>1, SearchInductive, PTL
=============================================================================
