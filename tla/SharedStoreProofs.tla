------------------------- MODULE SharedStoreProofs -------------------------
(***************************************************************************)
(* What any number of add commands on one store do to each other.  That    *)
(* writes which do not overlap leave a whole file rests on what the file   *)
(* is meanwhile: what its one writer has begun (FileBegun).  That a record *)
(* is lost only to a process at work at the same time rests on what each   *)
(* loads: unless it was caught, the dataset of one process (Reads), and    *)
(* every record that one lacks was written, or lost, by a process it met.  *)
(***************************************************************************)
EXTENDS SharedStore, VdbFileProofs, SequenceTheorems

TextSet == Procs \cup {Garbage}

PartSet == [kind : {"header"}, count : Nat, hasIdf : BOOLEAN]
             \cup [kind : {"vector"}, vector : [text : TextSet, idf : Seq(TextSet)]]
             \cup [kind : {"payload"}, text : TextSet]
             \cup [kind : {"idf"}, idf : Seq(TextSet)]
             \cup {Hole}

TypeOK == /\ file \in Seq(PartSet)
          /\ pc \in [Procs -> {"ready", "reading", "writing", "done", "refused"}]
          /\ got \in [Procs -> Seq(PartSet)]
          /\ data \in [Procs -> Datasets(TextSet)]
          /\ pos \in [Procs -> Nat]
          /\ last \in Datasets(TextSet)

(* What a process has read and written by its place.                       *)
Positions == \A p \in Procs :
    /\ Writable(data[p])
    /\ pc[p] \in {"ready", "reading", "refused"} => pos[p] = 0
    /\ pos[p] <= Parts(Header(data[p]))
    /\ pc[p] = "ready" => got[p] = <<>>
    /\ pc[p] = "reading" => got[p] # <<>>
    /\ got[p] # <<>> => HeaderRead(p).kind = "header"

(* The dataset that is in the file, or on its way there.                   *)
Current(d) == \/ Quiet /\ d = last
              \/ \E w \in At({"writing"}) : d = data[w]

FileBegun == clashed = {} =>
    /\ Quiet => file = Stream(last)
    /\ \A w \in At({"writing"}) : At({"writing"}) = {w} /\ file = Begun(data[w], pos[w])

(* Two that have begun and not ended have met.                             *)
Meetings == \A p, q \in At({"reading", "writing"}) : p # q => {p, q} \in met

(* No two wrote at a time, and none wrote what it had read of two files.   *)
Writers == At({"writing", "done"})
Clean   == clashed = {} /\ caught \cap Writers = {}

(* A record that is not in d was written over by a process it met.         *)
Overwritten(p) == \E q \in Writers : {p, q} \in met /\ p \notin ToSet(data[q].texts)
Known(p, d) == p \in ToSet(d.texts) \/ Overwritten(p)

(* Each record of a writer is that of another one, or its own; each once.  *)
Distinct(s) == \A i, j \in DOMAIN s : s[i] = s[j] => i = j
Records == Clean => \A w \in Writers : /\ ToSet(data[w].texts) \subseteq Writers
                                       /\ Distinct(data[w].texts)
                                       /\ w \in ToSet(data[w].texts)

LastClosed == \/ last = EmptyData /\ At({"done"}) = {}
              \/ \E w \in At({"done"}) : last = data[w]

Lost == Clean => \A p \in At({"done"}) : \A d \in Datasets(TextSet) :
                     Current(d) => Known(p, d)

(* What a process reads is one dataset, and if it is not all there yet it  *)
(* is the one in the file.                                                 *)
Source(q, d) == /\ d = EmptyData \/ \E w \in Writers : d = data[w]
                /\ Len(got[q]) <= Parts(Header(d))
                /\ got[q] = Begun(d, Len(got[q]))
                /\ ~IsRead(q) => Current(d)
                /\ \A p \in Writers : Known(p, d) \/ {p, q} \in met

Reads == Clean => \A q \in At({"reading"}) \ caught :
                      \E d \in Datasets(TextSet) : Source(q, d)

IInv == /\ TypeOK
        /\ Positions
        /\ FileBegun
        /\ Meetings
        /\ Records
        /\ LastClosed
        /\ Lost
        /\ Reads

----------------------------------------------------------------------------
(* What vdb_write writes are parts of a file.                              *)
LEMMA StreamTyped ==
    ASSUME NEW d \in Datasets(TextSet), Writable(d)
    PROVE  /\ Stream(d) \in Seq(PartSet)
           /\ Len(Stream(d)) = Parts(Header(d))
           /\ Parts(Header(d)) \in Nat \ {0}
           /\ Stream(d) = Begun(d, Parts(Header(d)))
<1>1. PICK n \in Nat : Len(d.texts) = n /\ Len(d.vectors) = n
  BY PartsCount DEF Writable
<1>2. PICK m \in Nat : Parts(Header(d)) = m /\ m # 0
  BY PartsCount
<1>3. /\ \A i \in 1..n : d.texts[i] \in TextSet
      /\ \A i \in 1..n : d.vectors[i] \in [text : TextSet, idf : Seq(TextSet)]
  BY <1>1, ElementOfSeq DEF Datasets
<1>4. Header(d) \in [kind : {"header"}, count : Nat, hasIdf : BOOLEAN]
  BY <1>1 DEF Header
<1>5. ASSUME NEW i \in 1..m PROVE Stream(d)[i] \in PartSet
  <2>1. CASE i = 1
    BY <1>2, <1>4, <2>1, StreamShape DEF PartSet
  <2>2. CASE i # 1 /\ i \in 2..(n + 1)
    <3>1. Stream(d)[i] = [kind |-> "vector", vector |-> d.vectors[i - 1]]
      BY <1>1, <1>2, <2>2 DEF Stream
    <3>2. i - 1 \in 1..n
      BY <2>2
    <3> QED
      BY <1>3, <3>1, <3>2 DEF PartSet
  <2>3. CASE i # 1 /\ i \notin 2..(n + 1) /\ i \in (n + 2)..(2*n + 1)
    <3>1. Stream(d)[i] = [kind |-> "payload", text |-> d.texts[i - n - 1]]
      BY <1>1, <1>2, <2>3 DEF Stream
    <3>2. i - n - 1 \in 1..n
      BY <2>3
    <3> QED
      BY <1>3, <3>1, <3>2 DEF PartSet
  <2>4. CASE i # 1 /\ i \notin 2..(n + 1) /\ i \notin (n + 2)..(2*n + 1)
    <3>1. Stream(d)[i] = [kind |-> "idf", idf |-> d.idf]
      BY <1>1, <1>2, <2>4 DEF Stream
    <3> QED
      BY <3>1 DEF PartSet, Datasets
  <2> QED
    BY <2>1, <2>2, <2>3, <2>4
<1>6. Stream(d) = [i \in 1..m |-> Stream(d)[i]]
  BY <1>2, StreamShape
<1>7. Stream(d) \in [1..m -> PartSet]
  BY <1>5, <1>6
<1>8. Stream(d) \in Seq(PartSet)
  BY <1>7, SeqDef
<1> QED
  BY <1>2, <1>6, <1>8, StreamShape DEF Begun

(* A write at the end of the file makes it a part longer; behind the end   *)
(* it leaves a hole.                                                       *)
LEMMA PutTyped ==
    ASSUME NEW f \in Seq(PartSet), NEW i \in Nat \ {0}, NEW x \in PartSet
    PROVE  /\ Put(f, i, x) \in Seq(PartSet)
           /\ i = Len(f) + 1 => Put(f, i, x) = Append(f, x)
<1>1. PICK n \in Nat : Len(f) = n
  BY LenProperties
<1>2. \A j \in 1..n : f[j] \in PartSet
  BY <1>1, ElementOfSeq
<1>3. PICK m \in Nat : m = IF i > n THEN i ELSE n
  OBVIOUS
<1>4. Put(f, i, x) = [j \in 1..m |-> IF j = i THEN x ELSE IF j <= n THEN f[j] ELSE Hole]
  BY <1>1, <1>3 DEF Put
<1>5. Put(f, i, x) \in [1..m -> PartSet]
  BY <1>2, <1>4 DEF PartSet
<1>6. Put(f, i, x) \in Seq(PartSet)
  BY <1>5, SeqDef
<1>7. ASSUME i = n + 1 PROVE Put(f, i, x) = Append(f, x)
  <2>1. m = n + 1
    BY <1>3, <1>7
  <2>2. /\ Append(f, x) \in Seq(PartSet) /\ Len(Append(f, x)) = n + 1
        /\ \A j \in 1..n : Append(f, x)[j] = f[j]
        /\ Append(f, x)[n + 1] = x
    BY <1>1, AppendProperties
  <2>3. Len(Put(f, i, x)) = n + 1
    BY <1>4, <2>1
  <2>4. \A j \in 1..(n + 1) : Put(f, i, x)[j] = Append(f, x)[j]
    <3> SUFFICES ASSUME NEW j \in 1..(n + 1) PROVE Put(f, i, x)[j] = Append(f, x)[j]
      OBVIOUS
    <3>1. Put(f, i, x)[j] = IF j = i THEN x ELSE IF j <= n THEN f[j] ELSE Hole
      BY <1>4, <2>1
    <3>2. CASE j = n + 1
      BY <1>7, <2>2, <3>1, <3>2
    <3>3. CASE j # n + 1
      <4>1. j \in 1..n
        BY <3>3
      <4> QED
        BY <1>7, <2>2, <3>1, <3>3, <4>1
    <3> QED
      BY <3>2, <3>3
  <2> QED
    BY <1>6, <2>2, <2>3, <2>4, SeqEqual
<1> QED
  BY <1>1, <1>6, <1>7

(* What is read as a text, wherever it comes from, is one or is garbage.   *)
LEMMA TextsTyped ==
    ASSUME TypeOK, Positions, NEW p \in Procs, IsRead(p)
    PROVE  TextsRead(p) \in Seq(TextSet)
<1>1. got[p] \in Seq(PartSet) /\ got[p] # <<>>
  BY DEF TypeOK, IsRead
<1>2. got[p][1] \in PartSet /\ got[p][1].kind = "header"
  <2>1. 1 \in 1..Len(got[p])
    BY <1>1, EmptySeq
  <2> QED
    BY <1>1, <2>1, ElementOfSeq DEF Positions, HeaderRead
<1>3. PICK n \in Nat : HeaderRead(p).count = n
  BY <1>2 DEF HeaderRead, PartSet, Hole
<1>4. n # 0 => Len(got[p]) >= 1 + 2*n
  BY <1>3, Announced DEF IsRead
<1>5. ASSUME NEW i \in 1..n PROVE TextAt(p, i) \in TextSet
  <2>1. CASE \A j \in (2 + n)..(2 + n + i - 1) : got[p][j].kind = "payload"
    <3>1. 2 + n + i - 1 \in (2 + n)..(2 + n + i - 1) /\ 2 + n + i - 1 \in 1..Len(got[p])
      BY <1>1, <1>4, LenProperties
    <3>2. got[p][2 + n + i - 1] \in PartSet /\ got[p][2 + n + i - 1].kind = "payload"
      BY <1>1, <2>1, <3>1, ElementOfSeq
    <3>3. got[p][2 + n + i - 1].text \in TextSet
      BY <3>2 DEF PartSet, Hole
    <3> QED
      BY <1>3, <2>1, <3>3 DEF TextAt
  <2>2. CASE ~(\A j \in (2 + n)..(2 + n + i - 1) : got[p][j].kind = "payload")
    BY <1>3, <2>2 DEF TextAt, TextSet
  <2> QED
    BY <2>1, <2>2
<1>6. TextsRead(p) \in [1..n -> TextSet]
  BY <1>3, <1>5 DEF TextsRead
<1> QED
  BY <1>6, SeqDef

LEMMA IndexedTyped ==
    ASSUME NEW texts \in Seq(TextSet)
    PROVE  /\ Indexed(texts) \in Datasets(TextSet)
           /\ Writable(Indexed(texts))
           /\ Indexed(texts).texts = texts
<1>1. PICK n \in Nat : Len(texts) = n /\ DOMAIN texts = 1..n
  BY LenProperties
<1>2. \A i \in 1..n : EmbedTfidf(texts[i], texts) \in [text : TextSet, idf : Seq(TextSet)]
  BY <1>1, ElementOfSeq DEF EmbedTfidf
<1>3. Indexed(texts).vectors = [i \in 1..n |-> EmbedTfidf(texts[i], texts)]
  BY <1>1 DEF Indexed
<1>4. Indexed(texts).vectors \in [1..n -> [text : TextSet, idf : Seq(TextSet)]]
  BY <1>2, <1>3
<1>5. Indexed(texts).vectors \in Seq([text : TextSet, idf : Seq(TextSet)])
  <2>1. Indexed(texts).vectors
          \in UNION {[1..m -> [text : TextSet, idf : Seq(TextSet)]] : m \in Nat}
    BY <1>4
  <2> QED
    BY <2>1, SeqDef
<1> QED
  BY <1>1, <1>3, <1>5 DEF Indexed, Datasets, Writable, NoIdf

(* A load of one dataset finds its texts.                                  *)
LEMMA TextsOfSource ==
    ASSUME NEW p \in Procs, NEW d \in Datasets(TextSet), Writable(d), IsRead(p),
           Len(got[p]) \in 0..Parts(Header(d)), got[p] = Begun(d, Len(got[p]))
    PROVE  TextsRead(p) = d.texts
<1>1. PICK n \in Nat : Len(d.texts) = n /\ d.texts = [i \in 1..n |-> d.texts[i]]
  BY LenProperties DEF Datasets
<1>2. PICK l \in Nat : Len(got[p]) = l /\ got[p] = Begun(d, l)
  BY PartsCount
<1>3. got[p] # <<>> => l >= 1
  BY <1>2 DEF Begun
<1>4. HeaderRead(p) = Header(d) /\ HeaderRead(p).count = n
  BY <1>1, <1>2, <1>3, BegunShape, PartsCount DEF IsRead, HeaderRead
<1>5. CASE n = 0
  BY <1>1, <1>4, <1>5 DEF TextsRead
<1>6. CASE n # 0
  <2>1. l = Parts(Header(d)) /\ l >= 1 + 2*n
    BY <1>1, <1>2, <1>4, <1>6, PartsCount DEF IsRead
  <2>2. ASSUME NEW j \in (2 + n)..(1 + 2*n)
        PROVE  got[p][j].kind = "payload" /\ got[p][j].text = d.texts[j - n - 1]
    <3>1. PICK i \in 1..n : j = 1 + n + i /\ j - n - 1 = i
      <4>1. j - n - 1 \in 1..n /\ j = 1 + n + (j - n - 1)
        OBVIOUS
      <4> QED
        BY <4>1
    <3>2. j \in 1..l
      BY <2>1
    <3>3. got[p][j] = Stream(d)[j]
      BY <1>2, <2>1, <3>2, BegunShape, PartsCount
    <3>4. Stream(d)[1 + n + i] = [kind |-> "payload", text |-> d.texts[i]]
      BY <1>1, StreamParts
    <3> QED
      BY <3>1, <3>3, <3>4
  <2>3. ASSUME NEW i \in 1..n PROVE TextAt(p, i) = d.texts[i]
    <3>1. \A j \in (2 + n)..(2 + n + i - 1) : j \in (2 + n)..(1 + 2*n)
      OBVIOUS
    <3>2. /\ 2 + n + i - 1 \in (2 + n)..(1 + 2*n)
          /\ (2 + n + i - 1) - n - 1 = i
      OBVIOUS
    <3>3. got[p][2 + n + i - 1].text = d.texts[i]
      BY <2>2, <3>2
    <3> QED
      BY <1>4, <2>2, <3>1, <3>3 DEF TextAt
  <2> QED
    BY <1>1, <1>4, <2>3 DEF TextsRead
<1> QED
  BY <1>5, <1>6

----------------------------------------------------------------------------
LEMMA EmptyDataTyped ==
    /\ EmptyData \in Datasets(TextSet)
    /\ Writable(EmptyData)
    /\ EmptyData.texts = <<>>
BY EmptySeq DEF EmptyData, Datasets, Writable, NoIdf

(* While no two write at a time, the file is what was begun of the current *)
(* dataset, and there is one.                                              *)
LEMMA CurrentFile ==
    ASSUME IInv, clashed = {}
    PROVE  \E d \in Datasets(TextSet) : Current(d)
<1>1. CASE Quiet
  BY <1>1 DEF Current, IInv, TypeOK
<1>2. CASE ~Quiet
  <2>1. PICK w \in Procs : w \in At({"writing"})
    BY <1>2 DEF Quiet, At
  <2> QED
    BY <2>1 DEF Current, IInv, TypeOK
<1> QED
  BY <1>1, <1>2

LEMMA FileOfCurrent ==
    ASSUME IInv, clashed = {}, NEW d \in Datasets(TextSet), Current(d)
    PROVE  /\ Writable(d)
           /\ Len(file) \in 0..Parts(Header(d))
           /\ file = Begun(d, Len(file))
           /\ d = EmptyData \/ \E w \in Writers : d = data[w]
<1>1. CASE Quiet /\ d = last
  <2>1. d = EmptyData \/ \E w \in At({"done"}) : d = data[w]
    BY <1>1 DEF IInv, LastClosed
  <2>2. Writable(d)
    BY <2>1, EmptyDataTyped DEF IInv, Positions, At
  <2>3. file = Stream(d)
    BY <1>1 DEF IInv, FileBegun
  <2>4. d = EmptyData \/ \E w \in Writers : d = data[w]
    BY <2>1 DEF Writers, At
  <2> QED
    BY <2>2, <2>3, <2>4, StreamTyped
<1>2. CASE \E w \in At({"writing"}) : d = data[w]
  <2>1. PICK w \in Procs : w \in At({"writing"}) /\ d = data[w]
    BY <1>2 DEF At
  <2>2. Writable(d) /\ pos[w] \in 0..Parts(Header(d))
    BY <2>1, PartsCount DEF IInv, TypeOK, Positions
  <2>3. file = Begun(d, pos[w])
    BY <2>1 DEF IInv, FileBegun
  <2>4. Len(file) = pos[w]
    BY <2>2, <2>3, BegunShape
  <2>5. \E v \in Writers : d = data[v]
    BY <2>1 DEF Writers, At
  <2> QED
    BY <2>2, <2>3, <2>4, <2>5
<1> QED
  BY <1>1, <1>2 DEF Current

(* What is known of a record stays known.                                  *)
LEMMA KnownStays ==
    ASSUME Writers \subseteq Writers', met \subseteq met',
           \A w \in Writers : data'[w] = data[w],
           NEW p, NEW d, Known(p, d)
    PROVE  p \in ToSet(d.texts) \/ Overwritten(p)'
BY DEF Known, Overwritten

----------------------------------------------------------------------------
LEMMA InitIInv == Init => IInv
<1> SUFFICES ASSUME Init PROVE IInv
  OBVIOUS
<1>1. /\ \A p \in Procs : pc[p] = "ready" /\ got[p] = <<>> /\ data[p] = EmptyData /\ pos[p] = 0
      /\ file = Stream(EmptyData) /\ last = EmptyData
  BY DEF Init
<1>2. \A places : "ready" \notin places => At(places) = {}
  BY <1>1 DEF At
<1>3. TypeOK
  BY EmptyDataTyped, StreamTyped, EmptySeq DEF Init, TypeOK
<1>4. Positions
  <2>1. Parts(Header(EmptyData)) >= 0
    BY EmptyDataTyped, PartsCount
  <2> QED
    BY <1>1, <2>1, EmptyDataTyped DEF Positions
<1>5. FileBegun
  BY <1>1, <1>2 DEF FileBegun
<1>6. Meetings /\ LastClosed
  BY <1>1, <1>2 DEF Meetings, LastClosed
<1>7. Records /\ Lost /\ Reads
  BY <1>2 DEF Records, Lost, Reads, Writers
<1> QED
  BY <1>3, <1>4, <1>5, <1>6, <1>7 DEF IInv

(* Where the processes are after one has moved.                            *)
LEMMA AtAfter ==
    ASSUME TypeOK, NEW p \in Procs, NEW v, pc' = [pc EXCEPT ![p] = v], NEW places
    PROVE  At(places)' = IF v \in places THEN At(places) \cup {p} ELSE At(places) \ {p}
BY DEF At, TypeOK

(* A load is not disturbed by what leaves its file and the writers alone.  *)
LEMMA SourceStays ==
    ASSUME Writers' = Writers, met \subseteq met',
           \A w \in Writers : data'[w] = data[w],
           NEW q, got'[q] = got[q],
           NEW d, Current(d) => Current(d)', Source(q, d)
    PROVE  Source(q, d)'
<1>1. IsRead(q)' <=> IsRead(q)
  BY DEF IsRead, HeaderRead
<1>2. d = EmptyData \/ \E w \in Writers' : d = data'[w]
  BY DEF Source
<1>3. \A p \in Writers : Known(p, d)' \/ {p, q} \in met'
  BY KnownStays DEF Source, Known
<1> QED
  BY <1>1, <1>2, <1>3 DEF Source

LEMMA ReadPartKeeps ==
    ASSUME IInv, NEW p \in Procs, ReadPart(p)
    PROVE  IInv'
<1> USE DEF IInv
<1>1. PICK i \in Nat \ {0} : i = Len(got[p]) + 1 /\ Len(got[p]) = i - 1
  BY DEF TypeOK
<1>2. /\ pc[p] \in {"ready", "reading"} /\ ~IsRead(p) /\ i <= Len(file)
      /\ i = 1 => file[1].kind = "header"
      /\ got' = [got EXCEPT ![p] = Append(@, file[i])]
      /\ pc' = [pc EXCEPT ![p] = "reading"]
      /\ met' = met \cup IF i = 1 THEN PairsWith(p, At({"reading", "writing"})) ELSE {}
      /\ UNCHANGED <<file, data, pos, clashed, caught, last>>
  BY <1>1 DEF ReadPart
<1>3. /\ got[p] \in Seq(PartSet) /\ file[i] \in PartSet /\ Len(file) \in Nat
      /\ i \in 1..Len(file)
  BY <1>2, ElementOfSeq, LenProperties DEF TypeOK
<1>4. /\ Append(got[p], file[i]) \in Seq(PartSet)
      /\ Append(got[p], file[i]) # <<>>
      /\ Len(Append(got[p], file[i])) = i
      /\ Append(got[p], file[i])[1] = IF i = 1 THEN file[1] ELSE got[p][1]
  BY <1>1, <1>3, AppendProperties, EmptySeq
<1>5. pc[p] = "ready" <=> i = 1
  <2>1. got[p] = <<>> <=> i = 1
    BY <1>1, <1>3, EmptySeq
  <2> QED
    BY <1>2, <2>1 DEF Positions
<1>6. /\ At({"writing"})' = At({"writing"}) /\ At({"done"})' = At({"done"})
      /\ Writers' = Writers
      /\ At({"reading"})' = At({"reading"}) \cup {p}
      /\ At({"reading", "writing"})' = At({"reading", "writing"}) \cup {p}
      /\ p \notin Writers
  BY <1>2 DEF At, Writers, TypeOK
<1>7. TypeOK'
  BY <1>2, <1>4 DEF TypeOK
<1>8. Positions'
  <2> SUFFICES ASSUME NEW q \in Procs PROVE
        /\ Writable(data'[q])
        /\ pc'[q] \in {"ready", "reading", "refused"} => pos'[q] = 0
        /\ pos'[q] <= Parts(Header(data'[q]))
        /\ pc'[q] = "ready" => got'[q] = <<>>
        /\ pc'[q] = "reading" => got'[q] # <<>>
        /\ got'[q] # <<>> => HeaderRead(q)'.kind = "header"
    BY DEF Positions
  <2>1. CASE q = p
    <3>1. got'[p] = Append(got[p], file[i]) /\ pc'[p] = "reading"
      BY <1>2 DEF TypeOK
    <3>2. i # 1 => got[p][1].kind = "header"
      BY <1>1, <1>3, EmptySeq DEF Positions, HeaderRead
    <3>3. HeaderRead(p)'.kind = "header"
      BY <1>2, <1>4, <3>1, <3>2 DEF HeaderRead
    <3> QED
      BY <1>2, <1>4, <2>1, <3>1, <3>3 DEF Positions
  <2>2. CASE q # p
    <3>1. got'[q] = got[q] /\ pc'[q] = pc[q]
      BY <1>2, <2>2 DEF TypeOK
    <3> QED
      BY <1>2, <3>1 DEF Positions, HeaderRead
  <2> QED
    BY <2>1, <2>2
<1>9. FileBegun'
  BY <1>2, <1>6 DEF FileBegun, Quiet
<1>10. Meetings'
  BY <1>2, <1>5, <1>6 DEF Meetings, PairsWith, At
<1>11. Clean' <=> Clean
  BY <1>2, <1>6 DEF Clean
<1>12. Records'
  BY <1>2, <1>6, <1>11 DEF Records
<1>13. LastClosed'
  BY <1>2, <1>6 DEF LastClosed
<1>14. \A d : Current(d)' <=> Current(d)
  BY <1>2, <1>6 DEF Current, Quiet
<1>15. \A q, d : Known(q, d) => Known(q, d)'
  BY <1>2, <1>6 DEF Known, Overwritten
<1>16. Lost'
  BY <1>6, <1>11, <1>14, <1>15 DEF Lost
<1>17. Reads'
  <2> SUFFICES ASSUME Clean, NEW q \in At({"reading"})' \ caught
               PROVE  \E d \in Datasets(TextSet) : Source(q, d)'
    BY <1>2, <1>11 DEF Reads
  <2>1. CASE q # p
    <3>1. PICK d \in Datasets(TextSet) : Source(q, d)
      BY <1>6, <2>1 DEF Reads
    <3>2. got'[q] = got[q]
      BY <1>2, <2>1 DEF TypeOK
    <3>3. Source(q, d)'
      BY <1>2, <1>6, <1>14, <3>1, <3>2, SourceStays
    <3> QED
      BY <3>3
  <2>2. CASE q = p
    <3>1. ASSUME NEW d \in Datasets(TextSet), Current(d),
                 got[p] = Begun(d, i - 1),
                 \A w \in Writers : Known(w, d) \/ {w, p} \in met'
          PROVE  Source(p, d)'
      <4>1. /\ Writable(d) /\ Len(file) \in 0..Parts(Header(d))
            /\ file = Begun(d, Len(file))
            /\ d = EmptyData \/ \E w \in Writers : d = data[w]
        BY <3>1, FileOfCurrent DEF Clean
      <4>2. PICK m \in Nat : Parts(Header(d)) = m
        BY PartsCount
      <4>3. i <= m /\ i - 1 \in 0..(m - 1)
        BY <1>2, <4>1, <4>2
      <4>4. file[i] = Stream(d)[i]
        BY <1>3, <4>1, BegunShape
      <4>5. Append(got[p], file[i]) = Begun(d, i)
        BY <3>1, <4>2, <4>3, <4>4, BegunGrows
      <4>6. got'[p] = Append(got[p], file[i])
        BY <1>2 DEF TypeOK
      <4>7. \A w \in Writers' : Known(w, d)' \/ {w, p} \in met'
        BY <1>6, <1>15, <3>1
      <4> QED
        BY <1>2, <1>4, <1>6, <1>14, <3>1, <4>1, <4>2, <4>3, <4>5, <4>6, <4>7 DEF Source
    <3>2. CASE i = 1
      <4>1. PICK d \in Datasets(TextSet) : Current(d)
        BY CurrentFile DEF Clean
      <4>2. got[p] = Begun(d, i - 1)
        <5>1. got[p] = <<>>
          BY <1>5, <3>2 DEF Positions
        <5>2. Begun(d, 0) = <<>>
          BY DEF Begun
        <5> QED
          BY <3>2, <5>1, <5>2
      <4>3. \A w \in Writers : Known(w, d) \/ {w, p} \in met'
        <5> SUFFICES ASSUME NEW w \in Writers PROVE Known(w, d) \/ {w, p} \in met'
          OBVIOUS
        <5>1. CASE w \in At({"done"})
          BY <4>1, <5>1 DEF Lost
        <5>2. CASE w \in At({"writing"})
          BY <1>2, <1>6, <3>2, <5>2 DEF PairsWith, At
        <5> QED
          BY <5>1, <5>2 DEF Writers, At
      <4>4. Source(p, d)'
        BY <3>1, <4>1, <4>2, <4>3
      <4> QED
        BY <2>2, <4>4
    <3>3. CASE i # 1
      <4>1. p \in At({"reading"}) \ caught
        BY <1>2, <1>5, <2>2, <3>3 DEF At
      <4>2. PICK d \in Datasets(TextSet) : Source(p, d)
        BY <4>1 DEF Reads
      <4>3. Current(d) /\ got[p] = Begun(d, i - 1)
        BY <1>1, <1>2, <4>2 DEF Source
      <4>4. \A w \in Writers : Known(w, d) \/ {w, p} \in met'
        BY <1>2, <4>2 DEF Source
      <4>5. Source(p, d)'
        BY <3>1, <4>3, <4>4
      <4> QED
        BY <2>2, <4>5
    <3> QED
      BY <3>2, <3>3
  <2> QED
    BY <2>1, <2>2
<1> QED
  BY <1>7, <1>8, <1>9, <1>10, <1>12, <1>13, <1>16, <1>17

LEMMA LoadRefusedKeeps ==
    ASSUME IInv, NEW p \in Procs, LoadRefused(p)
    PROVE  IInv'
<1> USE DEF IInv
<1>1. /\ pc[p] \in {"ready", "reading"}
      /\ pc' = [pc EXCEPT ![p] = "refused"]
      /\ UNCHANGED <<file, got, data, pos, met, clashed, caught, last>>
  BY DEF LoadRefused, history
<1>2. /\ At({"writing"})' = At({"writing"}) /\ At({"done"})' = At({"done"})
      /\ Writers' = Writers
      /\ At({"reading"})' = At({"reading"}) \ {p}
      /\ At({"reading", "writing"})' \subseteq At({"reading", "writing"})
  BY <1>1 DEF At, Writers, TypeOK
<1>3. TypeOK'
  BY <1>1 DEF TypeOK
<1>4. Positions'
  BY <1>1 DEF Positions, TypeOK, HeaderRead
<1>5. FileBegun' /\ LastClosed' /\ Meetings'
  BY <1>1, <1>2 DEF FileBegun, LastClosed, Meetings, Quiet
<1>6. Clean' <=> Clean
  BY <1>1, <1>2 DEF Clean
<1>7. Records'
  BY <1>1, <1>2, <1>6 DEF Records
<1>8. \A d : Current(d)' <=> Current(d)
  BY <1>1, <1>2 DEF Current, Quiet
<1>9. \A q, d : Known(q, d) => Known(q, d)'
  BY <1>1, <1>2 DEF Known, Overwritten
<1>10. Lost'
  BY <1>2, <1>6, <1>8, <1>9 DEF Lost
<1>11. Reads'
  <2> SUFFICES ASSUME Clean, NEW q \in At({"reading"})' \ caught
               PROVE  \E d \in Datasets(TextSet) : Source(q, d)'
    BY <1>1, <1>6 DEF Reads
  <2>1. PICK d \in Datasets(TextSet) : Source(q, d)
    BY <1>2 DEF Reads
  <2>2. Source(q, d)'
    BY <1>1, <1>2, <1>8, <2>1, SourceStays
  <2> QED
    BY <2>2
<1> QED
  BY <1>3, <1>4, <1>5, <1>7, <1>10, <1>11

LEMMA AppendedText ==
    ASSUME NEW s \in Seq(TextSet), NEW x \in TextSet
    PROVE  /\ Append(s, x) \in Seq(TextSet)
           /\ ToSet(Append(s, x)) = ToSet(s) \cup {x}
           /\ Distinct(s) /\ x \notin ToSet(s) => Distinct(Append(s, x))
<1>1. PICK n \in Nat : Len(s) = n /\ DOMAIN s = 1..n
  BY LenProperties
<1>2. PICK t \in Seq(TextSet) : t = Append(s, x)
  BY AppendProperties
<1>3. Len(t) = n + 1 /\ DOMAIN t = 1..(n + 1)
  BY <1>1, <1>2, AppendProperties, LenProperties
<1>4. (\A i \in 1..n : t[i] = s[i]) /\ t[n + 1] = x
  BY <1>1, <1>2, AppendProperties
<1>5. \A i \in 1..(n + 1) : i \in 1..n \/ i = n + 1
  OBVIOUS
<1>6. 1..n \subseteq 1..(n + 1) /\ n + 1 \in 1..(n + 1)
  OBVIOUS
<1>7. ToSet(t) = ToSet(s) \cup {x}
  BY <1>1, <1>3, <1>4, <1>5, <1>6 DEF ToSet
<1>8. Distinct(s) /\ x \notin ToSet(s) => Distinct(t)
  BY <1>1, <1>3, <1>4, <1>5 DEF ToSet, Distinct
<1> QED
  BY <1>2, <1>7, <1>8

LEMMA AddAndOpenKeeps ==
    ASSUME IInv, NEW p \in Procs, AddAndOpen(p)
    PROVE  IInv'
<1> USE DEF IInv
<1> DEFINE texts == TextsRead(p)
<1> DEFINE new == Indexed(Append(texts, p))
<1>1. /\ pc[p] = "reading" /\ IsRead(p)
      /\ data' = [data EXCEPT ![p] = new]
      /\ file' = <<>>
      /\ pc' = [pc EXCEPT ![p] = "writing"]
      /\ clashed' = clashed \cup PairsWith(p, At({"writing"}))
      /\ caught' = caught \cup {q \in At({"reading"}) : ~IsRead(q)}
      /\ UNCHANGED <<got, pos, met, last>>
  BY DEF AddAndOpen, Truncated
<1>2. texts \in Seq(TextSet) /\ p \in TextSet
  BY <1>1, TextsTyped DEF TextSet
<1>3. Append(texts, p) \in Seq(TextSet)
  BY <1>2, AppendedText
<1>4. new \in Datasets(TextSet) /\ Writable(new) /\ new.texts = Append(texts, p)
  BY <1>3, IndexedTyped
<1> HIDE DEF new
<1>5. /\ At({"writing"})' = At({"writing"}) \cup {p}
      /\ At({"done"})' = At({"done"})
      /\ Writers' = Writers \cup {p}
      /\ At({"reading"})' = At({"reading"}) \ {p}
      /\ At({"reading", "writing"})' = At({"reading", "writing"})
      /\ p \in At({"reading"})
      /\ p \notin Writers /\ p \notin At({"writing"}) /\ p \notin At({"done"})
      /\ At({"writing"}) \subseteq Writers /\ At({"done"}) \subseteq Writers
  BY <1>1 DEF At, Writers, TypeOK
<1>6. data'[p] = new /\ \A q \in Procs \ {p} : data'[q] = data[q]
  BY <1>1 DEF TypeOK
<1>7. \A w \in Writers : data'[w] = data[w]
  BY <1>5, <1>6 DEF Writers, At
<1>8. TypeOK'
  BY <1>1, <1>4, EmptySeq DEF TypeOK
<1>9. Positions'
  <2>1. Parts(Header(new)) >= 0 /\ pos[p] = 0
    BY <1>1, <1>4, PartsCount DEF Positions
  <2> SUFFICES ASSUME NEW q \in Procs PROVE
        /\ Writable(data'[q])
        /\ pc'[q] \in {"ready", "reading", "refused"} => pos'[q] = 0
        /\ pos'[q] <= Parts(Header(data'[q]))
        /\ pc'[q] = "ready" => got'[q] = <<>>
        /\ pc'[q] = "reading" => got'[q] # <<>>
        /\ got'[q] # <<>> => HeaderRead(q)'.kind = "header"
    BY DEF Positions
  <2>2. CASE q = p
    <3>1. pc'[p] = "writing"
      BY <1>1 DEF TypeOK
    <3> QED
      BY <1>1, <1>4, <1>6, <2>1, <2>2, <3>1 DEF Positions, HeaderRead
  <2>3. CASE q # p
    <3>1. pc'[q] = pc[q] /\ data'[q] = data[q]
      BY <1>1, <1>6, <2>3 DEF TypeOK
    <3> QED
      BY <1>1, <3>1 DEF Positions, HeaderRead
  <2> QED
    BY <2>2, <2>3
<1>10. clashed' = {} => clashed = {} /\ At({"writing"}) = {} /\ At({"writing"})' = {p}
  <2> SUFFICES ASSUME clashed' = {} PROVE clashed = {} /\ At({"writing"}) = {}
    BY <1>5
  <2>1. \A q \in At({"writing"}) : {p, q} \in PairsWith(p, At({"writing"}))
    BY <1>5 DEF PairsWith
  <2> QED
    BY <1>1, <2>1
<1>11. ~Quiet'
  BY <1>5 DEF Quiet
<1>12. FileBegun'
  <2>1. Begun(new, 0) = <<>> /\ pos'[p] = 0
    BY <1>1 DEF Begun, Positions
  <2> QED
    BY <1>1, <1>6, <1>10, <1>11, <2>1 DEF FileBegun
<1>13. Meetings'
  BY <1>1, <1>5 DEF Meetings
<1>14. Clean' => Clean /\ p \notin caught
  BY <1>1, <1>5, <1>10 DEF Clean
<1>15. ASSUME Clean'
       PROVE  \E d \in Datasets(TextSet) : Source(p, d) /\ d.texts = texts
  <2>1. PICK d \in Datasets(TextSet) : Source(p, d)
    BY <1>5, <1>14, <1>15 DEF Reads
  <2>2. Writable(d)
    BY <2>1, EmptyDataTyped DEF Source, Positions, Writers, At
  <2>3. Len(got[p]) \in 0..Parts(Header(d))
    <3>1. Len(got[p]) \in Nat /\ Parts(Header(d)) \in Nat
      BY LenProperties, PartsCount DEF TypeOK
    <3> QED
      BY <2>1, <3>1 DEF Source
  <2>4. texts = d.texts
    BY <1>1, <2>1, <2>2, <2>3, TextsOfSource DEF Source
  <2> QED
    BY <2>1, <2>4
<1>16. /\ ToSet(new.texts) = ToSet(texts) \cup {p}
       /\ Distinct(texts) /\ p \notin ToSet(texts) => Distinct(new.texts)
  BY <1>2, <1>4, AppendedText
<1>17. Records'
  <2> SUFFICES ASSUME Clean', NEW w \in Writers'
               PROVE  /\ ToSet(data'[w].texts) \subseteq Writers'
                      /\ Distinct(data'[w].texts)
                      /\ w \in ToSet(data'[w].texts)
    BY DEF Records
  <2>1. CASE w \in Writers
    BY <1>5, <1>7, <1>14, <2>1 DEF Records
  <2>2. CASE w = p
    <3>1. PICK d \in Datasets(TextSet) : Source(p, d) /\ d.texts = texts
      BY <1>15
    <3>2. ToSet(texts) \subseteq Writers /\ Distinct(texts)
      <4>1. CASE d = EmptyData
        BY <3>1, <4>1, EmptyDataTyped DEF ToSet, Distinct
      <4>2. CASE \E v \in Writers : d = data[v]
        BY <1>14, <3>1, <4>2 DEF Records
      <4> QED
        BY <3>1, <4>1, <4>2 DEF Source
    <3> QED
      BY <1>5, <1>6, <1>16, <2>2, <3>2
  <2> QED
    BY <1>5, <2>1, <2>2
<1>18. LastClosed'
  BY <1>1, <1>5, <1>7 DEF LastClosed
<1>19. \A q, d : Known(q, d) => q \in ToSet(d.texts) \/ Overwritten(q)'
  BY <1>1, <1>5, <1>7, KnownStays
<1>20. Lost'
  <2> SUFFICES ASSUME Clean', NEW r \in At({"done"}), NEW d2 \in Datasets(TextSet), Current(d2)'
               PROVE  r \in ToSet(d2.texts) \/ Overwritten(r)'
    BY <1>5 DEF Lost, Known
  <2>1. clashed' = {}
    BY DEF Clean
  <2>2. d2 = new
    BY <1>6, <1>10, <1>11, <2>1 DEF Current
  <2>3. PICK d \in Datasets(TextSet) : Source(p, d) /\ d.texts = texts
    BY <1>15
  <2>4. r \in Writers /\ r # p
    BY <1>5
  <2>5. CASE Known(r, d)
    BY <1>16, <1>19, <2>2, <2>3, <2>5
  <2>6. CASE ~Known(r, d)
    <3>1. {r, p} \in met /\ r \notin ToSet(texts)
      BY <2>3, <2>4, <2>6 DEF Source, Known
    <3>2. {r, p} \in met' /\ r \notin ToSet(data'[p].texts) /\ p \in Writers'
      BY <1>1, <1>5, <1>6, <1>16, <2>4, <3>1
    <3> QED
      BY <3>2 DEF Overwritten
  <2> QED
    BY <2>5, <2>6
<1>21. Reads'
  <2> SUFFICES ASSUME Clean', NEW q \in At({"reading"})' \ caught'
               PROVE  \E d \in Datasets(TextSet) : Source(q, d)'
    BY DEF Reads
  <2>1. q \in At({"reading"}) \ caught /\ q # p /\ IsRead(q)
    BY <1>1, <1>5
  <2>2. PICK d \in Datasets(TextSet) : Source(q, d)
    BY <1>14, <2>1 DEF Reads
  <2>3. IsRead(q)'
    BY <1>1, <2>1 DEF IsRead, HeaderRead
  <2>4. d = EmptyData \/ \E w \in Writers' : d = data'[w]
    BY <1>5, <1>7, <2>2 DEF Source
  <2>5. \A r \in Writers' : Known(r, d)' \/ {r, q} \in met'
    <3> SUFFICES ASSUME NEW r \in Writers' PROVE Known(r, d)' \/ {r, q} \in met'
      OBVIOUS
    <3>1. CASE r \in Writers
      BY <1>1, <1>19, <2>2, <3>1 DEF Source, Known
    <3>2. CASE r = p
      BY <1>1, <1>5, <2>1, <3>2 DEF Meetings, At
    <3> QED
      BY <1>5, <3>1, <3>2
  <2> QED
    BY <1>1, <2>2, <2>3, <2>4, <2>5 DEF Source
<1> QED
  BY <1>8, <1>9, <1>12, <1>13, <1>17, <1>18, <1>20, <1>21

LEMMA WritePartKeeps ==
    ASSUME IInv, NEW p \in Procs, WritePart(p)
    PROVE  IInv'
<1> USE DEF IInv
<1>1. PICK i \in Nat \ {0} : i = pos[p] + 1 /\ pos[p] = i - 1
  BY DEF TypeOK
<1>2. /\ pc[p] = "writing"
      /\ i <= Len(Stream(data[p]))
      /\ file' = Put(file, i, Stream(data[p])[i])
      /\ pos' = [pos EXCEPT ![p] = i]
      /\ UNCHANGED <<pc, got, data, met, clashed, caught, last>>
  BY <1>1 DEF WritePart, history
<1>3. data[p] \in Datasets(TextSet) /\ Writable(data[p])
  BY DEF TypeOK, Positions
<1>4. PICK m \in Nat : Parts(Header(data[p])) = m
  BY <1>3, PartsCount
<1>5. i \in 1..m /\ i - 1 \in 0..(m - 1) /\ i - 1 \in 0..m
  BY <1>2, <1>3, <1>4, StreamTyped
<1>6. Stream(data[p])[i] \in PartSet
  BY <1>3, <1>4, <1>5, StreamTyped, ElementOfSeq
<1>7. TypeOK'
  BY <1>2, <1>6, PutTyped DEF TypeOK
<1>8. \A places : At(places)' = At(places)
  BY <1>2 DEF At
<1>9. Positions'
  BY <1>2, <1>4, <1>5 DEF Positions, HeaderRead, TypeOK
<1>10. p \in At({"writing"})
  BY <1>2 DEF At
<1>11. FileBegun'
  <2> SUFFICES ASSUME clashed = {}
               PROVE  At({"writing"}) = {p} /\ file' = Begun(data[p], i)
    <3>1. ~Quiet' /\ pos'[p] = i
      BY <1>2, <1>8, <1>10 DEF Quiet, TypeOK
    <3> QED
      BY <1>2, <1>8, <3>1 DEF FileBegun
  <2>1. At({"writing"}) = {p} /\ file = Begun(data[p], i - 1)
    BY <1>1, <1>10 DEF FileBegun
  <2>2. Len(file) = i - 1
    BY <1>3, <1>4, <1>5, <2>1, BegunShape
  <2>3. file' = Append(file, Stream(data[p])[i])
    <3>1. i = Len(file) + 1 /\ file \in Seq(PartSet)
      BY <2>2 DEF TypeOK
    <3> QED
      BY <1>2, <1>6, <3>1, PutTyped
  <2>4. Append(Begun(data[p], i - 1), Stream(data[p])[i]) = Begun(data[p], i)
    BY <1>3, <1>4, <1>5, BegunGrows
  <2> QED
    BY <2>1, <2>3, <2>4
<1>12. Writers' = Writers /\ (Clean' <=> Clean)
  BY <1>2, <1>8 DEF Writers, Clean
<1>13. Meetings' /\ LastClosed'
  BY <1>2, <1>8 DEF Meetings, LastClosed
<1>14. Records'
  BY <1>2, <1>12 DEF Records
<1>15. \A d : Current(d)' <=> Current(d)
  BY <1>2, <1>8 DEF Current, Quiet
<1>16. \A q, d : Known(q, d) => Known(q, d)'
  BY <1>2, <1>12 DEF Known, Overwritten
<1>17. Lost'
  BY <1>8, <1>12, <1>15, <1>16 DEF Lost
<1>18. Reads'
  <2> SUFFICES ASSUME Clean, NEW q \in At({"reading"}) \ caught
               PROVE  \E d \in Datasets(TextSet) : Source(q, d)'
    BY <1>2, <1>8, <1>12 DEF Reads
  <2>1. PICK d \in Datasets(TextSet) : Source(q, d)
    BY DEF Reads
  <2>2. Source(q, d)'
    BY <1>2, <1>12, <1>15, <2>1, SourceStays
  <2> QED
    BY <2>2
<1> QED
  BY <1>7, <1>9, <1>11, <1>13, <1>14, <1>17, <1>18

LEMMA CloseKeeps ==
    ASSUME IInv, NEW p \in Procs, Close(p)
    PROVE  IInv'
<1> USE DEF IInv
<1>1. /\ pc[p] = "writing"
      /\ pos[p] = Len(Stream(data[p]))
      /\ pc' = [pc EXCEPT ![p] = "done"]
      /\ last' = data[p]
      /\ UNCHANGED <<file, got, data, pos, met, clashed, caught>>
  BY DEF Close
<1>2. /\ At({"writing"})' = At({"writing"}) \ {p}
      /\ At({"done"})' = At({"done"}) \cup {p}
      /\ Writers' = Writers
      /\ At({"reading"})' = At({"reading"})
      /\ At({"reading", "writing"})' \subseteq At({"reading", "writing"})
      /\ p \in At({"writing"}) /\ p \in Writers
  BY <1>1 DEF At, Writers, TypeOK
<1>3. TypeOK'
  BY <1>1 DEF TypeOK
<1>4. Positions'
  BY <1>1 DEF Positions, TypeOK, HeaderRead
<1>5. clashed = {} => /\ At({"writing"}) = {p} /\ At({"writing"})' = {} /\ Quiet' /\ ~Quiet
                      /\ file = Stream(last')
  <2>1. Stream(data[p]) = Begun(data[p], pos[p])
    BY <1>1, StreamTyped DEF TypeOK, Positions
  <2> QED
    BY <1>1, <1>2, <2>1 DEF FileBegun, Quiet
<1>6. FileBegun'
  BY <1>1, <1>5 DEF FileBegun
<1>7. Meetings'
  BY <1>1, <1>2 DEF Meetings
<1>8. LastClosed'
  BY <1>1, <1>2 DEF LastClosed
<1>9. Clean' <=> Clean
  BY <1>1, <1>2 DEF Clean
<1>10. Records'
  BY <1>1, <1>2, <1>9 DEF Records
<1>11. Clean => \A d : Current(d)' <=> Current(d)
  BY <1>1, <1>5 DEF Current, Clean
<1>12. \A q, d : Known(q, d) => Known(q, d)'
  BY <1>1, <1>2 DEF Known, Overwritten
<1>13. Lost'
  <2> SUFFICES ASSUME Clean, NEW r \in At({"done"})',
                      NEW d \in Datasets(TextSet), Current(d)'
               PROVE  Known(r, d)'
    BY <1>9 DEF Lost
  <2>1. CASE r \in At({"done"})
    BY <1>11, <1>12, <2>1 DEF Lost
  <2>2. CASE r = p
    <3>1. d = data[p]
      BY <1>1, <1>5 DEF Current, Clean
    <3>2. p \in ToSet(d.texts)
      BY <1>2, <3>1 DEF Records
    <3> QED
      BY <2>2, <3>2 DEF Known
  <2> QED
    BY <1>2, <2>1, <2>2
<1>14. Reads'
  <2> SUFFICES ASSUME Clean, NEW q \in At({"reading"}) \ caught
               PROVE  \E d \in Datasets(TextSet) : Source(q, d)'
    BY <1>1, <1>2, <1>9 DEF Reads
  <2>1. PICK d \in Datasets(TextSet) : Source(q, d)
    BY DEF Reads
  <2>2. Source(q, d)'
    BY <1>1, <1>2, <1>11, <2>1, SourceStays
  <2> QED
    BY <2>2
<1> QED
  BY <1>3, <1>4, <1>6, <1>7, <1>8, <1>10, <1>13, <1>14

----------------------------------------------------------------------------
LEMMA StutterKeeps ==
    ASSUME IInv, UNCHANGED vars
    PROVE  IInv'
<1>1. UNCHANGED <<file, pc, got, data, pos, met, clashed, caught, last>>
  BY DEF vars, history
<1>2. \A places : At(places)' = At(places)
  BY <1>1 DEF At
<1>3. Writers' = Writers /\ (Clean' <=> Clean) /\ (Quiet' <=> Quiet)
  BY <1>1, <1>2 DEF Writers, Clean, Quiet
<1>4. \A d : Current(d)' <=> Current(d)
  BY <1>1, <1>2, <1>3 DEF Current
<1>5. \A q, d : Known(q, d)' <=> Known(q, d)
  BY <1>1, <1>3 DEF Known, Overwritten
<1>6. TypeOK' /\ Positions' /\ FileBegun' /\ Meetings' /\ Records' /\ LastClosed'
  BY <1>1, <1>2, <1>3
  DEF IInv, TypeOK, Positions, HeaderRead, FileBegun, Meetings, Records, LastClosed
<1>7. Lost'
  BY <1>2, <1>3, <1>4, <1>5 DEF IInv, Lost
<1>8. Reads'
  <2> SUFFICES ASSUME Clean, NEW q \in At({"reading"}) \ caught
               PROVE  \E d \in Datasets(TextSet) : Source(q, d)'
    BY <1>1, <1>2, <1>3 DEF Reads
  <2>1. PICK d \in Datasets(TextSet) : Source(q, d)
    BY DEF IInv, Reads
  <2>2. Source(q, d)'
    BY <1>1, <1>3, <1>4, <2>1, SourceStays
  <2> QED
    BY <2>2
<1> QED
  BY <1>6, <1>7, <1>8 DEF IInv

(* The invariant that the theorems below rest on.                          *)
THEOREM Inductive == Spec => []IInv
<1>1. Init => IInv
  BY InitIInv
<1>2. IInv /\ [Next]_vars => IInv'
  <2> SUFFICES ASSUME IInv, [Next]_vars PROVE IInv'
    OBVIOUS
  <2>1. ASSUME NEW p \in Procs, ReadPart(p) PROVE IInv'
    BY <2>1, ReadPartKeeps
  <2>2. ASSUME NEW p \in Procs, LoadRefused(p) PROVE IInv'
    BY <2>2, LoadRefusedKeeps
  <2>3. ASSUME NEW p \in Procs, AddAndOpen(p) PROVE IInv'
    BY <2>3, AddAndOpenKeeps
  <2>4. ASSUME NEW p \in Procs, WritePart(p) PROVE IInv'
    BY <2>4, WritePartKeeps
  <2>5. ASSUME NEW p \in Procs, Close(p) PROVE IInv'
    BY <2>5, CloseKeeps
  <2>6. CASE AllOver
    BY <2>6, StutterKeeps DEF AllOver
  <2>7. CASE UNCHANGED vars
    BY <2>7, StutterKeeps
  <2> QED
    BY <2>1, <2>2, <2>3, <2>4, <2>5, <2>6, <2>7 DEF Next
<1> QED
  BY <1>1, <1>2, PTL DEF Spec

(* Every variable of any number of processes has its type.                 *)
THEOREM TypeCorrect == Spec => []TypeOK
<1>1. IInv => TypeOK
  BY DEF IInv
<1> QED
  BY <1>1, Inductive, PTL

(* Of vdb_write by any number of processes, never two at a time: the file  *)
(* is the whole dataset of the last one that closed it, whatever each read *)
(* and when.                                                               *)
THEOREM WritesApartLeaveAWholeCorrect == Spec => []WritesApartLeaveAWhole
<1>1. IInv => WritesApartLeaveAWhole
  BY DEF IInv, FileBegun, WritesApartLeaveAWhole
<1> QED
  BY <1>1, Inductive, PTL

(* Of cmd_add by any number of processes: a record that was added is in    *)
(* the file once, unless a process that was at work at the same time wrote *)
(* a dataset without it.                                                   *)
THEOREM LostOnlyToALaterWriteCorrect == Spec => []LostOnlyToALaterWrite
<1>1. IInv => LostOnlyToALaterWrite
  <2> SUFFICES ASSUME IInv, clashed = {}, Quiet, caught \cap At({"done"}) = {},
                      NEW p \in At({"done"}),
                      NEW texts, texts = StoredTexts(file)
               PROVE  LET found == {i \in DOMAIN texts : texts[i] = p}
                      IN  \/ \E i \in DOMAIN texts : found = {i}
                          \/ /\ found = {}
                             /\ \E q \in At({"done"}) : {p, q} \in met
                                                        /\ p \notin ToSet(data[q].texts)
    BY DEF LostOnlyToALaterWrite
  <2>1. Writers = At({"done"}) /\ Clean
    BY DEF Quiet, Writers, Clean, At
  <2>2. PICK w \in At({"done"}) : last = data[w]
    BY DEF IInv, LastClosed
  <2>3. last \in Datasets(TextSet) /\ Writable(last) /\ Distinct(last.texts)
    BY <2>1, <2>2 DEF IInv, TypeOK, Positions, Records, At
  <2>4. texts = last.texts
    <3>1. file = Begun(last, Parts(Header(last)))
      BY <2>3, StreamTyped DEF IInv, FileBegun
    <3> QED
      BY <2>3, <3>1, LoadedIsWritten DEF StoredTexts
  <2>5. Known(p, last)
    BY <2>1, <2>3 DEF IInv, Lost, Current
  <2>6. CASE p \in ToSet(texts)
    <3>1. PICK i \in DOMAIN texts : texts[i] = p
      BY <2>6 DEF ToSet
    <3>2. {j \in DOMAIN texts : texts[j] = p} = {i}
      BY <2>3, <2>4, <3>1 DEF Distinct
    <3> QED
      BY <3>2
  <2>7. CASE p \notin ToSet(texts)
    <3>1. {j \in DOMAIN texts : texts[j] = p} = {}
      BY <2>7 DEF ToSet
    <3>2. \E q \in At({"done"}) : {p, q} \in met /\ p \notin ToSet(data[q].texts)
      BY <2>1, <2>4, <2>5, <2>7 DEF Known, Overwritten
    <3> QED
      BY <3>1, <3>2
  <2> QED
    BY <2>6, <2>7
<1> QED
  BY <1>1, Inductive, PTL
=============================================================================
