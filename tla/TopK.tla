-------------------------------- MODULE TopK --------------------------------
(***************************************************************************)
(* The search algorithm of vecdb/src/search.c: the top-k list, the scan of *)
(* a range of vectors and the merge of several lists.  A list of hits is a *)
(* sequence.  Only the order of scores matters, so a score is an integer;  *)
(* vectors are numbered from 0 and scores is a function of that number.    *)
(***************************************************************************)
EXTENDS Integers, SequencesExt

Hit(scores, i) == [score |-> scores[i], index |-> i]

(* How many kept hits a new one of this score stays behind: the loop moves *)
(* it up past every hit that scores strictly less.                         *)
RankPastEqual(kept, score) == SelectLastInSeq(kept, LAMBDA e : e.score > score)
Rank(kept, score) == SelectLastInSeq(kept, LAMBDA e : e.score >= score)

(* A full list drops its weakest hit for a better one.  k is not 0, for    *)
(* which the code would have no weakest hit to look at.                    *)
TopkInsert(hits, k, h) ==
    LET full == Len(hits) >= k
        kept == IF full THEN Front(hits) ELSE hits
    IN  IF full /\ h.score <= Last(hits).score
        THEN hits
        ELSE InsertAt(kept, Rank(kept, h.score) + 1, h)

(* Hits inserted one after the other: the inner loop of the merge loop of  *)
(* vdb_search_mt, over one worker's list.                                  *)
Merge(hits, list, k) ==
    LET kept[j \in 0..Len(list)] ==
            IF j = 0 THEN hits ELSE TopkInsert(kept[j - 1], k, list[j])
    IN  kept[Len(list)]

ScanRange(scores, start, end, k) ==
    Merge(<<>>, [j \in 1..(end - start) |-> Hit(scores, start + j - 1)], k)

VdbSearch(scores, count, k) == ScanRange(scores, 0, count, k)

(* Worker t of n gets Share(t) consecutive vectors, from First(t) on.      *)
Share(count, n, t) == count \div n + (IF t < count % n THEN 1 ELSE 0)

First(count, n, t) ==
    LET first[u \in 0..t] == IF u = 0 THEN 0 ELSE first[u - 1] + Share(count, n, u - 1)
    IN  first[t]

(* search.h: "the best k, sorted by descending score", of equal scores the *)
(* one stored first.                                                       *)
Better(scores, i, j) == scores[i] > scores[j] \/ (scores[i] = scores[j] /\ i < j)

NumBetter(scores, count, i) ==
    Cardinality({j \in 0..(count - 1) : Better(scores, j, i)})

BestOf(scores, count, k) ==
    [r \in 1..(IF k < count THEN k ELSE count) |->
        Hit(scores, CHOOSE i \in 0..(count - 1) : NumBetter(scores, count, i) = r - 1)]
=============================================================================
