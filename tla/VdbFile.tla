------------------------------ MODULE VdbFile ------------------------------
(***************************************************************************)
(* The .vdb file of vecdb/src/store.c and the dataset vdb_load makes of it *)
(* (VdbData).  A file is the sequence of the parts that were written: the  *)
(* header, each vector, each payload, the IDF weights.  A part that was    *)
(* cut short reads like a part that is not there.                          *)
(*                                                                         *)
(* IDF weights are told apart by the corpus they were computed from, and a *)
(* vector by its text and the weights it was embedded with.                *)
(***************************************************************************)
EXTENDS Integers, Sequences

NoIdf == <<>>              \* data->idf == NULL: there is no corpus

EmbedTfidf(text, idf) == [text |-> text, idf |-> idf]
EmbedTf(text) == EmbedTfidf(text, NoIdf)

EmptyData == [texts |-> <<>>, vectors |-> <<>>, idf |-> NoIdf]

(* The fields of the header that steer vdb_load: count and idf_size.       *)
HeaderWithoutIdf(d) == [kind |-> "header", count |-> Len(d.texts), hasIdf |-> FALSE]
Header(d) == [kind |-> "header", count |-> Len(d.texts), hasIdf |-> d.idf # NoIdf]

(* The parts a file with this header has.                                  *)
Parts(header) == 1 + 2 * header.count + (IF header.hasIdf THEN 1 ELSE 0)

(* What vdb_write writes, in the order it writes it.                       *)
Stream(d) ==
    LET n == Len(d.texts)
    IN  [i \in 1..Parts(Header(d)) |->
           CASE i = 1                    -> Header(d)
             [] i \in 2..(n + 1)         -> [kind |-> "vector", vector |-> d.vectors[i - 1]]
             [] i \in (n + 2)..(2*n + 1) -> [kind |-> "payload", text |-> d.texts[i - n - 1]]
             [] OTHER                    -> [kind |-> "idf", idf |-> d.idf]]

(* vdb_load succeeds: no part that the header announces is missing.  (The  *)
(* file that does not exist is the empty one: both are refused.)           *)
Loads(f) ==
    /\ Len(f) >= 1
    /\ f[1].count = 0 \/ Len(f) >= Parts(f[1])

(* What it returns.  An empty store is not read beyond its header.         *)
Loaded(f) ==
    LET n == f[1].count
    IN  IF n = 0 THEN EmptyData
        ELSE [texts   |-> [i \in 1..n |-> f[1 + n + i].text],
              vectors |-> [i \in 1..n |-> f[1 + i].vector],
              idf     |-> IF f[1].hasIdf THEN f[2 + 2*n].idf ELSE NoIdf]

StoredTexts(f) == Loaded(f).texts
=============================================================================
