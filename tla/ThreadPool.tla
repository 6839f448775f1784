---------------------------- MODULE ThreadPool ----------------------------
(***************************************************************************)
(* The worker thread pool of vecdb (vecdb/src/pool.c), as its one client   *)
(* thread -- the main thread -- and its workers see it.                    *)
(*                                                                         *)
(* Everything a thread does between taking p->mutex and releasing it (or   *)
(* handing it back in pthread_cond_wait) is one action: no other thread    *)
(* reads or writes the fields meanwhile.  What a worker does without the   *)
(* lock -- reading p->fn and p->args, and running the task -- is a step of *)
(* its own.  pthread_cond_wait may also return without a signal.           *)
(***************************************************************************)
EXTENDS Integers, FiniteSets

CONSTANTS
    MaxThreads,            \* largest pool requested
    MaxTasks,              \* largest batch posted
    MaxBatches             \* number of batches posted in one life of the pool

ASSUME PoolAssumption == /\ MaxThreads \in Nat \ {0}
                         /\ MaxTasks \in Nat
                         /\ MaxBatches \in Nat

Workers == 0..(MaxThreads - 1)
Tasks   == 0..(MaxTasks - 1)

VARIABLES
    mpc,       \* where the client thread is
    nthreads,  \* p->nthreads
    created,   \* workers pthread_create has started: 0..created-1
    args,      \* p->fn, p->args: number of the batch they belong to, 0 for NULL
    ntasks,    \* p->ntasks
    next,      \* p->next
    active,    \* p->active
    shutdown,  \* p->shutdown
    wpc,       \* where each worker is
    idx,       \* each worker's local i
    got,       \* batch whose fn and args each worker fetched
    ran        \* history: how often each task of the last batch was executed

client == <<mpc, nthreads, created>>
batch  == <<args, ntasks, next, active>>
worker == <<wpc, idx, got>>
vars   == <<client, batch, shutdown, worker, ran>>

Init == /\ mpc = "start"
        /\ nthreads = 0
        /\ created = 0
        /\ args = 0
        /\ ntasks = 0
        /\ next = 0
        /\ active = 0
        /\ shutdown = FALSE
        /\ wpc = [w \in Workers |-> "none"]
        /\ idx = [w \in Workers |-> 0]
        /\ got = [w \in Workers |-> 0]
        /\ ran = [i \in Tasks |-> 0]

(* The test of the worker's wait loop, p->next < p->ntasks.                *)
WorkPosted == next < ntasks

(* The test of pool_run's wait loop: nothing is active any more.           *)
OneTooEarlyDrained == active <= 1
Drained == active <= 0

(* The worker about to decrement p->active brings it to 0 and signals      *)
(* cond_done.                                                              *)
LastFinisherTestedFirst == active = 0
LastFinisher == active - 1 = 0

(* pthread_cond_broadcast(&p->cond_work): every sleeping worker goes back  *)
(* to its loop test.                                                       *)
WakeFirst == [w \in Workers |-> IF wpc[w] = "sleep" /\ \A v \in 0..(w - 1) : wpc[v] # "sleep"
                               THEN "lock" ELSE wpc[w]]
WakeAll == [w \in Workers |-> IF wpc[w] = "sleep" THEN "lock" ELSE wpc[w]]

----------------------------------------------------------------------------
(* The client thread.                                                      *)

(* pool_create(n) up to its thread loop: the request is clamped to 1.      *)
PoolCreate(n) ==
    /\ mpc = "start"
    /\ nthreads' = IF n < 1 THEN 1 ELSE n
    /\ mpc' = "creating"
    /\ UNCHANGED <<created, batch, shutdown, worker, ran>>

(* calloc or malloc fails: NULL, nothing to tear down.                     *)
PoolCreateNoMemory ==
    /\ mpc = "start"
    /\ mpc' = "failed"
    /\ UNCHANGED <<nthreads, created, batch, shutdown, worker, ran>>

CreateThread ==
    /\ mpc = "creating"
    /\ created < nthreads
    /\ wpc' = [wpc EXCEPT ![created] = "lock"]
    /\ created' = created + 1
    /\ UNCHANGED <<mpc, nthreads, batch, shutdown, idx, got, ran>>

(* pool_destroy up to the joins.                                           *)
ShutdownUnsignalled(after) ==
    /\ shutdown' = TRUE
    /\ wpc' = wpc
    /\ mpc' = after
Shutdown(after) ==
    /\ shutdown' = TRUE
    /\ wpc' = WakeAll
    /\ mpc' = after

(* pthread_create fails: keep the i threads there are and destroy them.    *)
CreateThreadFails ==
    /\ mpc = "creating"
    /\ created < nthreads
    /\ nthreads' = created
    /\ Shutdown("abandon")
    /\ UNCHANGED <<created, batch, idx, got, ran>>

PoolReady ==
    /\ mpc = "creating"
    /\ created = nthreads
    /\ mpc' = "idle"
    /\ UNCHANGED <<nthreads, created, batch, shutdown, worker, ran>>

(* pool_run posts a batch; active > 0, so the client goes to sleep on      *)
(* cond_done in the same critical section.                                 *)
ActiveAtStart(count) == count

PoolRun(count) ==
    /\ mpc = "idle"
    /\ args < MaxBatches
    /\ count > 0
    /\ args' = args + 1
    /\ ntasks' = count
    /\ next' = 0
    /\ active' = ActiveAtStart(count)
    /\ wpc' = WakeAll
    /\ mpc' = "sleep"
    /\ ran' = [i \in Tasks |-> 0]
    /\ UNCHANGED <<nthreads, created, shutdown, idx, got>>

(* The client wakes from cond_done and tests active again.                 *)
PoolRunSleep ==
    /\ mpc = "lock"
    /\ ~Drained
    /\ mpc' = "sleep"
    /\ UNCHANGED <<nthreads, created, batch, shutdown, worker, ran>>

PoolRunReturn ==
    /\ mpc = "lock"
    /\ Drained
    /\ mpc' = "idle"
    /\ UNCHANGED <<nthreads, created, batch, shutdown, worker, ran>>

PoolDestroy ==
    /\ mpc = "idle"
    /\ Shutdown("joining")
    /\ UNCHANGED <<nthreads, created, batch, idx, got, ran>>

(* The joins of pool_destroy have all returned: mutex, conditions and pool *)
(* are destroyed and freed.                                                *)
JoinedAllButLast == \A w \in 0..(nthreads - 2) : wpc[w] = "exited"
Joined == \A w \in 0..(nthreads - 1) : wpc[w] = "exited"

Join ==
    /\ mpc \in {"joining", "abandon"}
    /\ Joined
    /\ mpc' = IF mpc = "joining" THEN "freed" ELSE "failed"
    /\ UNCHANGED <<nthreads, created, batch, shutdown, worker, ran>>

SpuriousClientWakeup ==
    /\ mpc = "sleep"
    /\ mpc' = "lock"
    /\ UNCHANGED <<nthreads, created, batch, shutdown, worker, ran>>

----------------------------------------------------------------------------
(* The worker loop.                                                        *)

Sleep(w) ==
    /\ wpc[w] = "lock"
    /\ ~WorkPosted
    /\ ~shutdown
    /\ wpc' = [wpc EXCEPT ![w] = "sleep"]
    /\ UNCHANGED <<client, batch, shutdown, idx, got, ran>>

Exit(w) ==
    /\ wpc[w] = "lock"
    /\ shutdown
    /\ wpc' = [wpc EXCEPT ![w] = "exited"]
    /\ UNCHANGED <<client, batch, shutdown, idx, got, ran>>

Unclaimed == next
Claimed == next + 1

Claim(w) ==
    /\ wpc[w] = "lock"
    /\ WorkPosted
    /\ ~shutdown
    /\ idx' = [idx EXCEPT ![w] = next]
    /\ next' = Claimed
    /\ wpc' = [wpc EXCEPT ![w] = "fetch"]
    /\ UNCHANGED <<client, args, ntasks, active, shutdown, got, ran>>

(* p->fn and p->args are read without the lock.                            *)
Fetch(w) ==
    /\ wpc[w] = "fetch"
    /\ got' = [got EXCEPT ![w] = args]
    /\ wpc' = [wpc EXCEPT ![w] = "call"]
    /\ UNCHANGED <<client, batch, shutdown, idx, ran>>

(* The task runs, still without the lock.                                  *)
RunTask(w) ==
    /\ wpc[w] = "call"
    /\ ran' = [ran EXCEPT ![idx[w]] = @ + 1]
    /\ wpc' = [wpc EXCEPT ![w] = "finish"]
    /\ UNCHANGED <<client, batch, shutdown, idx, got>>

(* pthread_cond_signal(&p->cond_done) once the batch has drained.          *)
Finish(w) ==
    /\ wpc[w] = "finish"
    /\ active' = active - 1
    /\ mpc' = IF LastFinisher /\ mpc = "sleep" THEN "lock" ELSE mpc
    /\ wpc' = [wpc EXCEPT ![w] = "lock"]
    /\ UNCHANGED <<nthreads, created, args, ntasks, next, shutdown, idx, got, ran>>

SpuriousWakeup(w) ==
    /\ wpc[w] = "sleep"
    /\ wpc' = [wpc EXCEPT ![w] = "lock"]
    /\ UNCHANGED <<client, batch, shutdown, idx, got, ran>>

----------------------------------------------------------------------------
Client == \/ \E n \in 0..MaxThreads : PoolCreate(n)
          \/ PoolCreateNoMemory
          \/ CreateThread \/ CreateThreadFails \/ PoolReady
          \/ \E count \in 0..MaxTasks : PoolRun(count)
          \/ PoolRunSleep \/ PoolRunReturn
          \/ PoolDestroy \/ Join \/ SpuriousClientWakeup

Step(w) == Sleep(w) \/ Exit(w) \/ Claim(w) \/ Fetch(w) \/ RunTask(w) \/ Finish(w)

(* The pool is gone; the program goes on without it.                       *)
Gone == /\ mpc \in {"freed", "failed"}
        /\ UNCHANGED vars

Next == Client \/ Gone \/ \E w \in Workers : Step(w) \/ SpuriousWakeup(w)

Spec == Init /\ [][Next]_vars

(* A runnable thread is eventually scheduled.  A blocked thread's step is  *)
(* not enabled; spurious wake-ups and what the client calls next are owed  *)
(* by nobody.                                                              *)
Fairness == /\ \A w \in Workers : WF_vars(Step(w))
            /\ WF_vars(PoolRunSleep \/ PoolRunReturn)
            /\ WF_vars(CreateThread \/ CreateThreadFails \/ PoolReady)
            /\ WF_vars(Join)

FairSpec == Spec /\ Fairness

----------------------------------------------------------------------------
(* What must hold of the pool.                                             *)

ClientStates == {"start", "creating", "idle", "sleep", "lock",
                 "joining", "abandon", "freed", "failed"}
WorkerStates == {"none", "lock", "sleep", "fetch", "call", "finish", "exited"}

(* Types, and the range of every counter of pool.c.                        *)
TypeOK == /\ mpc \in ClientStates
          /\ nthreads \in 0..MaxThreads
          /\ created \in 0..MaxThreads
          /\ args \in 0..MaxBatches
          /\ ntasks \in 0..MaxTasks
          /\ next \in 0..ntasks
          /\ active \in 0..ntasks
          /\ shutdown \in BOOLEAN
          /\ wpc \in [Workers -> WorkerStates]
          /\ idx \in [Workers -> 0..MaxTasks]
          /\ got \in [Workers -> 0..MaxBatches]
          /\ ran \in [Tasks -> Nat]

InPoolRun == mpc \in {"sleep", "lock"}
Holding(w) == wpc[w] \in {"fetch", "call", "finish"}
Holders == {w \in Workers : Holding(w)}
Live == {w \in Workers : wpc[w] \notin {"none", "exited"}}

(* pool.c:38: "reading them here without the lock is safe for the batch's  *)
(* life".  Whenever a worker reads p->fn and p->args, or runs a task, the  *)
(* caller is still inside pool_run with the arrays it passed; the index is *)
(* one of the batch, and the function the worker runs is that batch's.     *)
ArgsLive == \A w \in Workers :
               /\ Holding(w) => InPoolRun /\ idx[w] < ntasks
               /\ wpc[w] \in {"call", "finish"} => got[w] = args

(* pool.h: pool_run blocks until all tasks have finished.  When it has     *)
(* returned each task of the batch was run, and never is one run twice     *)
(* (two workers with the same task would also share its buffer).           *)
RunOnce == /\ \A i \in Tasks : ran[i] <= 1
           /\ mpc \in {"idle", "joining"} => \A i \in 0..(ntasks - 1) : ran[i] = 1

(* p->active is the number of tasks nobody claimed yet plus the number of  *)
(* workers that hold one, in every state.                                  *)
ActiveCount == active = (ntasks - next) + Cardinality(Holders)

(* No wakeup is lost: a caller asleep in pool_run has something left to    *)
(* wait for, and no worker sleeps while there is work or a shutdown.       *)
NoLostWakeup == /\ mpc = "sleep" => active > 0
                /\ \A w \in Workers : wpc[w] = "sleep" => ~WorkPosted /\ ~shutdown

(* Once pool_destroy, or the failure path of pool_create, has freed the    *)
(* pool no worker runs any more, so none can touch the freed memory.       *)
NoUseAfterFree == mpc \in {"freed", "failed"} => Live = {}

(* The pool as the parallel loop of pool.h, with the workers hidden.       *)
Pool == INSTANCE ParallelFor WITH
           phase <- IF InPoolRun THEN "busy" ELSE "idle",
           todo  <- IF InPoolRun THEN {i \in 0..(ntasks - 1) : ran[i] = 0} ELSE {}

(* pool_run starts a batch, each task of it is executed once, and it       *)
(* returns when none is left.                                              *)
PoolSafe == Pool!PFSafe

(* And every batch is worked off and every call of pool_run returns.       *)
PoolLive == Pool!PFSpec

(* pool_destroy returns: every worker sees the shutdown and can be joined. *)
DestroyReturns == mpc \in {"joining", "abandon"} ~> mpc \in {"freed", "failed"}
============================================================================
