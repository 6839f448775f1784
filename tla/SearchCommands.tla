--------------------------- MODULE SearchCommands ---------------------------
(***************************************************************************)
(* The commands of vecdb/src/main.c that search a store: search, which     *)
(* asks one query with as many threads as it is told, and bench, which     *)
(* asks the same query over and over with 1, 2, 4, ... threads and a new   *)
(* pool for each.  One process runs one command.                           *)
(***************************************************************************)
EXTENDS ParallelSearch

CONSTANTS
    Stores,                \* what the query scores the vectors of a store
    SearchThreads,         \* what --threads is given
    SearchK,               \* the k that search is given
    BenchStores,           \* the same for bench
    Benches,               \* the [threads, nqueries] that bench is given
    BenchK                 \* 5 in the code

ASSUME CommandsAssumption ==
    /\ SearchThreads \subseteq Int
    /\ \A n \in SearchThreads : n <= MaxThreads
    /\ \A b \in Benches : b.threads \in 1..MaxThreads /\ b.nqueries \in 1..MaxBatches
    /\ SearchK \subseteq Nat \ {0} /\ BenchK \in Nat \ {0}
    /\ \A store \in Stores \cup BenchStores :
          /\ IsFiniteSet(DOMAIN store)
          /\ store \in [0..(Cardinality(DOMAIN store) - 1) -> Int]

VARIABLES
    command,   \* the command that runs, "none" before and "returned" after
    threads,   \* cmd_search's nthreads, run_benchmark's t
    upto,      \* maxthreads
    queries,   \* nqueries
    q,         \* queries asked since threads changed
    exit       \* history: what the command returned

run   == <<command, threads, upto, queries, q, exit>>
cvars == <<svars, run>>

CommandsInit == /\ SearchInit
                /\ command = "none"
                /\ threads = 1
                /\ upto = 1
                /\ queries = 0
                /\ q = 0
                /\ exit = "none"

(* A store with vectors is loaded and the hits are allocated.  (Where not, *)
(* the command returns at once.)                                           *)
Begin(c, n, m, nq, kk, store) ==
    /\ command = "none"
    /\ command' = c
    /\ threads' = n
    /\ upto' = m
    /\ queries' = nq
    /\ k' = kk
    /\ scores' = store
    /\ count' = Cardinality(DOMAIN store)
    /\ UNCHANGED <<vars, cur, localn, localbuf, hits, merged, rc, q, exit>>

SearchCommand(n, kk, store) ==
    LET atLeast1 == IF n < 1 THEN 1 ELSE n
    IN  Begin("search", atLeast1, atLeast1, 1, kk, store)

BenchCommand(m, nq, store) == Begin("bench", 1, m, nq, BenchK, store)

Running == command \in {"search", "bench"}

----------------------------------------------------------------------------
(* The main thread.  One thread needs no pool.                             *)
AskAlone ==
    /\ Running /\ threads = 1 /\ q < queries
    /\ SearchAlone
    /\ q' = q + 1
    /\ UNCHANGED <<command, threads, upto, queries, exit>>

OpenPool ==
    /\ Running /\ threads > 1
    /\ PoolCreate(threads) \/ PoolCreateNoMemory
    /\ UNCHANGED <<search, run>>

GrowPool ==
    /\ CreateThread \/ CreateThreadFails \/ PoolReady
    /\ UNCHANGED <<search, run>>

Ask ==
    /\ Running /\ q < queries
    /\ SearchPost
    /\ UNCHANGED run

AskNoMemory ==
    /\ Running /\ q < queries
    /\ SearchNoMemory
    /\ q' = q + 1
    /\ UNCHANGED <<command, threads, upto, queries, exit>>

Wait == PoolRunSleep /\ UNCHANGED <<search, run>>

MergeLists == (SearchRunReturns \/ MergeList) /\ UNCHANGED run

Answer ==
    /\ SearchReturn
    /\ q' = q + 1
    /\ UNCHANGED <<command, threads, upto, queries, exit>>

(* The pool is destroyed whether the search has succeeded or not.          *)
ClosePool ==
    /\ Running /\ q = queries
    /\ PoolDestroy
    /\ UNCHANGED <<search, run>>

PoolClosed == Join /\ UNCHANGED <<search, run>>

(* The loop body is done, or there was no pool for it.                     *)
AskedOrFailed == q = queries /\ (threads = 1 \/ mpc = "freed" \/ rc = "failed")
Asked == q = queries /\ (threads = 1 \/ mpc = "freed")

(* run_benchmark's loop goes on with twice the threads.                    *)
NextRound ==
    /\ command = "bench"
    /\ Asked
    /\ 2 * threads <= upto
    /\ threads' = 2 * threads
    /\ q' = 0
    /\ mpc' = "start" /\ nthreads' = 0 /\ created' = 0
    /\ args' = 0 /\ ntasks' = 0 /\ next' = 0 /\ active' = 0 /\ shutdown' = FALSE
    /\ wpc' = [w \in Workers |-> "none"]
    /\ idx' = [w \in Workers |-> 0]
    /\ got' = [w \in Workers |-> 0]
    /\ ran' = [i \in Tasks |-> 0]
    /\ UNCHANGED <<search, command, upto, queries, exit>>

Return ==
    /\ \/ command = "search" /\ Asked /\ exit' = rc
       \/ command = "search" /\ mpc = "failed" /\ exit' = "failed"
       \/ command = "bench" /\ Asked /\ 2 * threads > upto /\ exit' = "ok"
       \/ command = "bench" /\ mpc = "failed" /\ exit' = "ok"
    /\ command' = "returned"
    /\ UNCHANGED <<svars, threads, upto, queries, q>>

Main == \/ AskAlone \/ OpenPool \/ GrowPool \/ Ask \/ AskNoMemory \/ Wait
        \/ MergeLists \/ Answer \/ ClosePool \/ PoolClosed \/ NextRound \/ Return

----------------------------------------------------------------------------
(* A worker, and the wake-ups nobody sent.                                 *)
Worker(w) ==
    /\ \/ (Sleep(w) \/ Exit(w) \/ Claim(w) \/ Fetch(w) \/ Finish(w)) /\ UNCHANGED search
       \/ ScanVector(w)
       \/ SearchTaskDone(w)
    /\ UNCHANGED run

Spurious ==
    /\ SpuriousClientWakeup \/ \E w \in Workers : SpuriousWakeup(w)
    /\ UNCHANGED <<search, run>>

Over == command = "returned" /\ UNCHANGED cvars

CommandsNext ==
    \/ \E n \in SearchThreads, kk \in SearchK, store \in Stores : SearchCommand(n, kk, store)
    \/ \E b \in Benches, store \in BenchStores : BenchCommand(b.threads, b.nqueries, store)
    \/ Main \/ Spurious \/ Over
    \/ \E w \in Workers : Worker(w)

(* Every thread that can run is scheduled.  No command is owed.            *)
CommandsSpec == /\ CommandsInit
                /\ [][CommandsNext]_cvars
                /\ WF_cvars(Main)
                /\ \A w \in Workers : WF_cvars(Worker(w))

----------------------------------------------------------------------------
(* When a command has returned no worker is left: main has freed the store *)
(* the workers read and the hits (main.c:278 and 510), also when a search  *)
(* or the creation of the pool has failed.                                 *)
NothingLeft == command = "returned" => Live = {}

(* Every search and every benchmark returns.                               *)
CommandReturns == Running ~> command = "returned"
=============================================================================
