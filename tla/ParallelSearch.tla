--------------------------- MODULE ParallelSearch ---------------------------
(***************************************************************************)
(* vdb_search_mt (vecdb/src/search.c) on top of the thread pool: the main  *)
(* thread divides the vectors, posts one search_task per worker thread,    *)
(* the workers each scan their range into their own part of one shared     *)
(* buffer, and the main thread merges the parts when pool_run returns.     *)
(* A worker's step is one vector, so scans interleave freely.              *)
(***************************************************************************)
EXTENDS ThreadPool, TopK

ASSUME SearchAssumption == MaxTasks >= MaxThreads

Free == "uninitialized"    \* a cell of localbuf nobody wrote

VARIABLES
    k,         \* the call's k
    count,     \* data->count
    scores,    \* score of each vector for the call's query
    cur,       \* scan position of each task, its t->start at first
    localn,    \* t->local_n of each task
    localbuf,  \* the workers' lists, one after the other
    hits,      \* what the call returns in hits and *out_n
    merged,    \* workers' lists merged so far, the main thread's t
    rc         \* what the call returns; "none" before, "merge" in the merge loop

search == <<k, count, scores, cur, localn, localbuf, hits, merged, rc>>
svars  == <<vars, search>>

SearchInit == /\ Init
              /\ k = 0
              /\ count = 0
              /\ scores = <<>>
              /\ cur = [t \in Tasks |-> 0]
              /\ localn = [t \in Tasks |-> 0]
              /\ localbuf = <<>>
              /\ hits = <<>>
              /\ merged = 0
              /\ rc = "none"

(* localbuf + t * k                                                        *)
OffsetUnscaled(t) == t
Offset(t) == t * k

(* The list task t has built so far.                                       *)
Local(t) == [j \in 1..localn[t] |-> localbuf[Offset(t) + j]]

Start(t) == First(count, nthreads, t)
End(t)   == First(count, nthreads, t) + Share(count, nthreads, t)

----------------------------------------------------------------------------
(* vdb_search_mt up to pool_run: one task per thread, also when there are  *)
(* fewer vectors than threads.                                             *)
SearchPost ==
    /\ PoolRun(nthreads)
    /\ rc # "merge"
    /\ cur' = [t \in Tasks |-> IF t < nthreads THEN First(count, nthreads, t) ELSE 0]
    /\ localn' = [t \in Tasks |-> 0]
    /\ localbuf' = [c \in 1..(nthreads * k) |-> Free]
    /\ hits' = <<>>
    /\ merged' = 0
    /\ rc' = "none"
    /\ UNCHANGED <<k, count, scores>>

(* One of its four allocations fails: nothing was posted.                  *)
SearchNoMemory ==
    /\ mpc = "idle"
    /\ rc # "merge"
    /\ rc' = "failed"
    /\ UNCHANGED <<vars, k, count, scores, cur, localn, localbuf, hits, merged>>

(* vdb_search, on the main thread; its one allocation may fail.            *)
SearchAlone ==
    /\ \/ rc' = "ok" /\ hits' = VdbSearch(scores, count, k)
       \/ rc' = "failed" /\ UNCHANGED hits
    /\ UNCHANGED <<vars, k, count, scores, cur, localn, localbuf, merged>>

(* One round of scan_range in the task worker w runs.                      *)
ScanVector(w) ==
    LET t == idx[w]
        list == TopkInsert(Local(t), k, Hit(scores, cur[t]))
    IN  /\ wpc[w] = "call"
        /\ cur[t] < End(t)
        /\ cur' = [cur EXCEPT ![t] = @ + 1]
        /\ localn' = [localn EXCEPT ![t] = Len(list)]
        /\ localbuf' = [c \in DOMAIN localbuf |->
                          IF c - Offset(t) \in 1..Len(list) THEN list[c - Offset(t)]
                          ELSE localbuf[c]]
        /\ UNCHANGED <<vars, k, count, scores, hits, merged, rc>>

(* The task returns to the pool's worker.                                  *)
SearchTaskDone(w) ==
    /\ RunTask(w)
    /\ cur[idx[w]] >= End(idx[w])
    /\ UNCHANGED search

SearchRunReturns ==
    /\ PoolRunReturn
    /\ rc' = "merge"
    /\ UNCHANGED <<k, count, scores, cur, localn, localbuf, hits, merged>>

(* One round of the merge loop: the list of one worker.                    *)
MergeList ==
    /\ rc = "merge"
    /\ merged < nthreads
    /\ hits' = Merge(hits, Local(merged), k)
    /\ merged' = merged + 1
    /\ UNCHANGED <<vars, k, count, scores, cur, localn, localbuf, rc>>

SearchReturn ==
    /\ rc = "merge"
    /\ merged = nthreads
    /\ rc' = "ok"
    /\ UNCHANGED <<vars, k, count, scores, cur, localn, localbuf, hits, merged>>

----------------------------------------------------------------------------
(* However the scans interleave, a task's list is what it would be if the  *)
(* task had run alone: nobody else writes its part of localbuf.            *)
PrivateBuffers ==
    mpc \in {"sleep", "lock"} =>
       \A t \in 0..(nthreads - 1) : Local(t) = ScanRange(scores, Start(t), cur[t], k)

(* search.h: the best k, sorted, and min(k, count) of them; "Results match *)
(* vdb_search" also where scores are equal.                                *)
BestK == rc = "ok" => /\ hits = BestOf(scores, count, k)
                      /\ hits = VdbSearch(scores, count, k)
=============================================================================
