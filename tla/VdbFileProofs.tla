--------------------------- MODULE VdbFileProofs ---------------------------
(***************************************************************************)
(* What vdb_write and vdb_load of vecdb/src/store.c are to each other, for *)
(* every dataset: a prefix of what was written loads only when it is all   *)
(* of it, and what it loads as is the dataset that was written.            *)
(***************************************************************************)
EXTENDS VdbFile, TLAPS

(* The datasets over a set of texts, and those that vdb_write is given: as *)
(* many vectors as payloads, and no weights without a corpus.              *)
Datasets(T) == [texts   : Seq(T),
                vectors : Seq([text : T, idf : Seq(T)]),
                idf     : Seq(T)]

Writable(d) == /\ Len(d.vectors) = Len(d.texts)
               /\ d.texts = <<>> => d.idf = NoIdf

(* The first n parts of what is written for d.                             *)
Begun(d, n) == [i \in 1..n |-> Stream(d)[i]]

----------------------------------------------------------------------------
(* How many parts a header announces.                                      *)
LEMMA Announced ==
    ASSUME NEW header, NEW n \in Nat, header.count = n
    PROVE  Parts(header) = IF header.hasIdf THEN 2 + 2*n ELSE 1 + 2*n
BY DEF Parts

(* One header, two parts for each record, and the weights if there are any. *)
LEMMA PartsCount ==
    ASSUME NEW T, NEW d \in Datasets(T)
    PROVE  /\ Len(d.texts) \in Nat
           /\ Header(d).count = Len(d.texts)
           /\ Header(d).hasIdf <=> d.idf # NoIdf
           /\ d.idf # NoIdf => Parts(Header(d)) = 2 + 2 * Len(d.texts)
           /\ d.idf = NoIdf => Parts(Header(d)) = 1 + 2 * Len(d.texts)
           /\ Parts(Header(d)) \in Nat \ {0}
<1>1. Len(d.texts) \in Nat
  BY DEF Datasets
<1>2. Header(d).count = Len(d.texts) /\ (Header(d).hasIdf <=> d.idf # NoIdf)
  BY DEF Header
<1>3. Parts(Header(d)) = IF Header(d).hasIdf THEN 2 + 2 * Len(d.texts)
                                             ELSE 1 + 2 * Len(d.texts)
  BY <1>1, <1>2, Announced
<1>4. /\ d.idf # NoIdf => Parts(Header(d)) = 2 + 2 * Len(d.texts)
      /\ d.idf = NoIdf => Parts(Header(d)) = 1 + 2 * Len(d.texts)
  BY <1>2, <1>3
<1>5. Parts(Header(d)) \in Nat \ {0}
  BY <1>1, <1>4
<1> QED
  BY <1>1, <1>2, <1>4, <1>5

(* The length of what is written is what its header announces.             *)
LEMMA StreamShape ==
    ASSUME NEW T, NEW d \in Datasets(T)
    PROVE  /\ Parts(Header(d)) \in Nat \ {0}
           /\ Stream(d) = [i \in 1..Parts(Header(d)) |-> Stream(d)[i]]
           /\ Len(Stream(d)) = Parts(Header(d))
           /\ DOMAIN Stream(d) = 1..Parts(Header(d))
           /\ Stream(d)[1] = Header(d)
<1>1. Len(d.texts) \in Nat
  BY DEF Datasets
<1>2. Parts(Header(d)) \in Nat \ {0}
  BY PartsCount
<1> QED
  BY <1>1, <1>2 DEF Stream

(* Where each part of a dataset is.                                        *)
LEMMA StreamParts ==
    ASSUME NEW T, NEW d \in Datasets(T), NEW n \in Nat, Len(d.texts) = n
    PROVE  /\ \A i \in 1..n : Stream(d)[1 + i].vector = d.vectors[i]
           /\ \A i \in 1..n : Stream(d)[1 + n + i] = [kind |-> "payload", text |-> d.texts[i]]
           /\ d.idf # NoIdf => Stream(d)[2 + 2*n].idf = d.idf
<1>1. /\ d.idf # NoIdf => Parts(Header(d)) = 2 + 2*n
      /\ d.idf = NoIdf => Parts(Header(d)) = 1 + 2*n
  BY PartsCount
<1>2. PICK m \in Nat : Parts(Header(d)) = m
  BY PartsCount
<1>3. m >= 1 + 2*n
  BY <1>1, <1>2
<1>4. ASSUME NEW i \in 1..n PROVE Stream(d)[1 + i].vector = d.vectors[i]
  <2>1. 1 + i \in 1..m /\ 1 + i # 1 /\ 1 + i \in 2..(n + 1) /\ 1 + i - 1 = i
    BY <1>3
  <2> QED
    BY <1>2, <2>1 DEF Stream
<1>5. ASSUME NEW i \in 1..n
      PROVE  Stream(d)[1 + n + i] = [kind |-> "payload", text |-> d.texts[i]]
  <2>1. /\ 1 + n + i \in 1..m /\ 1 + n + i # 1 /\ 1 + n + i \notin 2..(n + 1)
        /\ 1 + n + i \in (n + 2)..(2*n + 1)
        /\ 1 + n + i - n - 1 = i
    BY <1>3
  <2> QED
    BY <1>2, <2>1 DEF Stream
<1>6. d.idf # NoIdf => Stream(d)[2 + 2*n].idf = d.idf
  <2>1. /\ 2 + 2*n # 1 /\ 2 + 2*n \notin 2..(n + 1)
        /\ 2 + 2*n \notin (n + 2)..(2*n + 1)
        /\ d.idf # NoIdf => 2 + 2*n \in 1..Parts(Header(d))
    BY <1>1
  <2> QED
    BY <1>2, <2>1 DEF Stream
<1> QED
  BY <1>4, <1>5, <1>6

(* The header is the first part of every prefix that is not empty.         *)
LEMMA BegunShape ==
    ASSUME NEW T, NEW d \in Datasets(T), NEW n \in 0..Parts(Header(d))
    PROVE  /\ Len(Begun(d, n)) = n
           /\ n >= 1 => Begun(d, n)[1] = Header(d)
           /\ \A i \in 1..n : Begun(d, n)[i] = Stream(d)[i]
<1>1. n \in Nat
  BY StreamShape
<1> QED
  BY <1>1, StreamShape DEF Begun

(* One more part.                                                          *)
LEMMA BegunGrows ==
    ASSUME NEW T, NEW d \in Datasets(T), NEW n \in 0..(Parts(Header(d)) - 1)
    PROVE  Append(Begun(d, n), Stream(d)[n + 1]) = Begun(d, n + 1)
<1>1. n \in Nat
  BY PartsCount
<1>2. Begun(d, n) = [i \in 1..n |-> Stream(d)[i]] /\ Len(Begun(d, n)) = n
  BY <1>1 DEF Begun
<1>3. Append(Begun(d, n), Stream(d)[n + 1])
        = [i \in 1..(n + 1) |-> IF i <= n THEN Begun(d, n)[i] ELSE Stream(d)[n + 1]]
  BY <1>1, <1>2
<1>4. \A i \in 1..(n + 1) : (IF i <= n THEN Begun(d, n)[i] ELSE Stream(d)[n + 1]) = Stream(d)[i]
  BY <1>1, <1>2
<1> QED
  BY <1>3, <1>4 DEF Begun

(* store.h:95: a prefix is refused unless nothing is missing.              *)
THEOREM OnlyTheWholeLoads ==
    ASSUME NEW T, NEW d \in Datasets(T), Writable(d), NEW n \in 0..Parts(Header(d))
    PROVE  Loads(Begun(d, n)) <=> n = Parts(Header(d))
<1>1. Len(d.texts) \in Nat /\ Parts(Header(d)) \in Nat \ {0} /\ n \in Nat
  BY PartsCount
<1>2. CASE n = 0
  BY <1>1, <1>2, BegunShape DEF Loads
<1>3. CASE n >= 1
  <2>1. Begun(d, n)[1] = Header(d) /\ Len(Begun(d, n)) = n
    BY <1>3, BegunShape
  <2>3. Header(d).count = 0 => Parts(Header(d)) = 1
    <3>1. Len(d.texts) = 0 => d.texts = <<>>
      BY DEF Datasets
    <3> QED
      BY <3>1, PartsCount DEF Writable
  <2> QED
    BY <1>1, <1>3, <2>1, <2>3 DEF Loads
<1> QED
  BY <1>1, <1>2, <1>3

(* A file with records, as it is loaded.                                   *)
LEMMA LoadedFields ==
    ASSUME NEW f, NEW n \in Nat, f[1].count = n, n # 0
    PROVE  Loaded(f) = [texts   |-> [i \in 1..n |-> f[1 + n + i].text],
                        vectors |-> [i \in 1..n |-> f[1 + i].vector],
                        idf     |-> IF f[1].hasIdf THEN f[2 + 2*n].idf ELSE NoIdf]
BY DEF Loaded

(* What was written is what is loaded.                                     *)
THEOREM LoadedIsWritten ==
    ASSUME NEW T, NEW d \in Datasets(T), Writable(d)
    PROVE  Loaded(Begun(d, Parts(Header(d)))) = d
<1>1. PICK n \in Nat : Len(d.texts) = n
  BY PartsCount
<1>2. PICK m \in Nat : /\ Parts(Header(d)) = m /\ m # 0
                       /\ d.idf # NoIdf => m = 2 + 2*n
                       /\ d.idf = NoIdf => m = 1 + 2*n
  BY <1>1, PartsCount
<1>3. PICK f : /\ f = Begun(d, m)
               /\ f[1] = Header(d)
               /\ \A i \in 1..m : f[i] = Stream(d)[i]
  BY <1>2, BegunShape
<1>4. f[1].count = n /\ (f[1].hasIdf <=> d.idf # NoIdf)
  BY <1>1, <1>3, PartsCount
<1>5. d = [texts |-> d.texts, vectors |-> d.vectors, idf |-> d.idf]
  BY DEF Datasets
<1>6. CASE n = 0
  <2>1. d.texts = <<>> /\ d.vectors = <<>> /\ d.idf = NoIdf
    BY <1>1, <1>6 DEF Datasets, Writable
  <2>2. Loaded(f) = EmptyData
    BY <1>4, <1>6 DEF Loaded
  <2> QED
    BY <1>2, <1>3, <1>5, <2>1, <2>2 DEF EmptyData
<1>7. CASE n # 0
  <2>1. \A i \in 1..n : f[1 + n + i].text = d.texts[i] /\ f[1 + i].vector = d.vectors[i]
    <3> SUFFICES ASSUME NEW i \in 1..n
                 PROVE  f[1 + n + i].text = d.texts[i] /\ f[1 + i].vector = d.vectors[i]
      OBVIOUS
    <3>1. m >= 1 + 2*n
      BY <1>2
    <3>2. 1 + n + i \in 1..m /\ 1 + i \in 1..m
      BY <3>1
    <3>3. /\ Stream(d)[1 + n + i] = [kind |-> "payload", text |-> d.texts[i]]
          /\ Stream(d)[1 + i].vector = d.vectors[i]
      BY <1>1, StreamParts
    <3> QED
      BY <1>3, <3>2, <3>3
  <2>2. (IF f[1].hasIdf THEN f[2 + 2*n].idf ELSE NoIdf) = d.idf
    <3>1. d.idf # NoIdf => 2 + 2*n \in 1..m
      BY <1>2
    <3> QED
      BY <1>1, <1>3, <1>4, <3>1, StreamParts
  <2>3. [i \in 1..n |-> f[1 + n + i].text] = d.texts
    <3>1. d.texts = [i \in 1..n |-> d.texts[i]]
      BY <1>1 DEF Datasets
    <3> QED
      BY <2>1, <3>1
  <2>4. [i \in 1..n |-> f[1 + i].vector] = d.vectors
    <3>1. d.vectors = [i \in 1..n |-> d.vectors[i]]
      BY <1>1 DEF Datasets, Writable
    <3> QED
      BY <2>1, <3>1
  <2>5. Loaded(f) = [texts   |-> [i \in 1..n |-> f[1 + n + i].text],
                     vectors |-> [i \in 1..n |-> f[1 + i].vector],
                     idf     |-> IF f[1].hasIdf THEN f[2 + 2*n].idf ELSE NoIdf]
    BY <1>4, <1>7, LoadedFields
  <2> QED
    BY <1>2, <1>3, <1>5, <2>2, <2>3, <2>4, <2>5
<1> QED
  BY <1>6, <1>7
=============================================================================
