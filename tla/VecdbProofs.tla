---------------------------- MODULE VecdbProofs ----------------------------
(***************************************************************************)
(* The safety properties of a store under one process at a time, for any   *)
(* number of records, failures and kills.  That a file is whole or refused *)
(* is not inductive: what a cut file is a part of has to be said, and that *)
(* is always the dataset vdb_write was last called with (FileBegun).  That *)
(* a clean session is a stored one rests on where dirty can be 0           *)
(* (CleanSession), and that no record is lost on what the process in       *)
(* memory has of the last complete file (Kept).                            *)
(***************************************************************************)
EXTENDS Vecdb, VdbFileProofs, SequenceTheorems

TypeOK == /\ command \in {"none", "create", "add", "addfile", "repl"}
          /\ pc \in {"none", "prompt", "adding", "indexing", "opening", "writing"}
          /\ data \in Datasets(Texts) /\ last \in Datasets(Texts)
          /\ cap \in Nat
          /\ room \in [vectors : Nat, payloads : Nat]
          /\ written \in Nat
          /\ dirty \in BOOLEAN /\ quitting \in BOOLEAN
          /\ k \in 0..(KValues - 1)
          /\ faults \in 0..MaxFaults
          /\ report \in {"absent", "none", "ok", "failed", "killed"}
          /\ stored \in Seq(Texts)
          /\ acked \in 0..Len(data.texts)

(* Which command can be where.                                             *)
Places == /\ pc = "none" <=> command = "none"
          /\ command = "create" => pc \in {"opening", "writing"}
          /\ pc = "prompt" => command = "repl"
          /\ pc = "adding" => command \in {"add", "addfile"}
          /\ quitting => command = "repl" /\ pc \in {"opening", "writing"}

(* The file is the first part of the dataset that vdb_write was last       *)
(* called with: as much as it has written, and all of it once it is done.  *)
FileBegun == /\ Len(file) \in 0..Parts(Header(last))
             /\ file = Begun(last, Len(file))
             /\ pc = "writing" => last = data /\ written = Len(file) /\ report = "none"
             /\ report = "ok" => Loads(file)

IndexSound == Indexed(data) /\ Indexed(last)

(* A file that does not load is being written, or was reported.            *)
TornKnown == report \in {"none", "ok"} /\ pc # "writing" /\ command # "create" => Loads(file)

(* Where a session is while dirty is 0, and what the file then holds.      *)
CleanSession == command = "repl" /\ ~dirty =>
                    /\ pc \in {"prompt", "indexing"}
                    /\ Loads(file)
                    /\ acked <= Len(last.texts)
                    /\ \A i \in 1..acked : data.texts[i] = last.texts[i]

(* The process has every record of the last complete file.                 *)
Kept == /\ command \in Commands => IsPrefix(stored, data.texts)
        /\ Loads(file) => stored = last.texts

IInv == /\ TypeOK
        /\ Places
        /\ FileBegun
        /\ IndexSound
        /\ TornKnown
        /\ CleanSession
        /\ Kept
        /\ RoomForRecords

----------------------------------------------------------------------------
(* IsPrefix, without SubSeq.                                               *)
LEMMA PrefixMeaning ==
    ASSUME NEW S, NEW s \in Seq(S), NEW t \in Seq(S)
    PROVE  IsPrefix(s, t) <=> Len(s) <= Len(t) /\ \A i \in 1..Len(s) : s[i] = t[i]
<1>1. SubSeq(s, 1, Len(s)) = s
  BY SubSeqFull
<1>2. ASSUME Len(s) <= Len(t)
      PROVE  /\ SubSeq(t, 1, Len(s)) \in Seq(S)
             /\ Len(SubSeq(t, 1, Len(s))) = Len(s)
             /\ \A i \in 1..Len(s) : SubSeq(t, 1, Len(s))[i] = t[i]
  <2>1. Len(s) \in Nat /\ Len(t) \in Nat
    BY LenProperties
  <2>2. \A i \in 1..Len(s) : t[i] \in S
    BY <1>2, <2>1, ElementOfSeq
  <2> QED
    BY <2>1, <2>2, SubSeqProperties
<1>3. ASSUME Len(s) <= Len(t), \A i \in 1..Len(s) : s[i] = t[i]
      PROVE  s = SubSeq(t, 1, Len(s))
  BY <1>2, <1>3, SeqEqual
<1>4. ASSUME Len(s) <= Len(t), s = SubSeq(t, 1, Len(s))
      PROVE  \A i \in 1..Len(s) : s[i] = t[i]
  BY <1>2, <1>4
<1> QED
  BY <1>1, <1>3, <1>4 DEF IsPrefix

LEMMA PrefixReflexive ==
    ASSUME NEW S, NEW s \in Seq(S)
    PROVE  IsPrefix(s, s)
BY PrefixMeaning, LenProperties

LEMMA EmptyPrefix ==
    ASSUME NEW S, NEW s \in Seq(S)
    PROVE  IsPrefix(<<>>, s)
<1>1. <<>> \in Seq(S) /\ Len(<<>>) = 0
  BY EmptySeq
<1>2. Len(s) \in Nat
  BY LenProperties
<1>3. Len(<<>>) <= Len(s) /\ \A i \in 1..Len(<<>>) : <<>>[i] = s[i]
  BY <1>1, <1>2
<1> QED
  BY <1>1, <1>3, PrefixMeaning

LEMMA PrefixOfLonger ==
    ASSUME NEW S, NEW s \in Seq(S), NEW t \in Seq(S), NEW e \in S, IsPrefix(s, t)
    PROVE  IsPrefix(s, Append(t, e))
<1>1. Len(s) \in Nat /\ Len(t) \in Nat
  BY LenProperties
<1>2. Len(s) <= Len(t) /\ \A i \in 1..Len(s) : s[i] = t[i]
  BY PrefixMeaning
<1>3. /\ Append(t, e) \in Seq(S)
      /\ Len(Append(t, e)) = Len(t) + 1
      /\ \A i \in 1..Len(t) : Append(t, e)[i] = t[i]
  BY AppendProperties
<1>4. Len(s) <= Len(Append(t, e)) /\ \A i \in 1..Len(s) : s[i] = Append(t, e)[i]
  BY <1>1, <1>2, <1>3
<1> QED
  BY <1>3, <1>4, PrefixMeaning

(* The datasets of this module are those vdb_write can be given.           *)
LEMMA IndexedIsWritable ==
    ASSUME NEW d \in Datasets(Texts), Indexed(d)
    PROVE  Writable(d)
<1>1. Len(d.texts) \in Nat /\ DOMAIN d.texts = 1..Len(d.texts)
  BY LenProperties DEF Datasets
<1>2. Len(d.vectors) = Len(d.texts)
  BY <1>1 DEF Indexed
<1>3. ASSUME d.texts = <<>> PROVE d.idf = NoIdf
  <2>1. Len(d.idf) <= 0
    BY <1>3, PrefixMeaning, EmptySeq DEF Indexed, Datasets
  <2> QED
    BY <2>1, LenProperties, EmptySeq DEF Datasets, NoIdf
<1> QED
  BY <1>2, <1>3 DEF Writable

LEMMA EmptyDataSound ==
    /\ EmptyData \in Datasets(Texts)
    /\ Indexed(EmptyData)
    /\ EmptyData.texts = <<>>
    /\ Len(EmptyData.texts) = 0
    /\ Parts(Header(EmptyData)) \in Nat
<1>1. EmptyData \in Datasets(Texts) /\ EmptyData.texts = <<>>
  BY EmptySeq DEF EmptyData, Datasets, NoIdf
<1>2. IsPrefix(<<>>, <<>>)
  BY EmptyPrefix, EmptySeq
<1>3. Indexed(EmptyData)
  BY <1>2 DEF EmptyData, Indexed, NoIdf
<1> QED
  BY <1>1, <1>3, PartsCount

(* vdb_data_add: the new record is plain TF, and behind all others.        *)
LEMMA AddedSound ==
    ASSUME NEW d \in Datasets(Texts), Indexed(d), NEW text \in Texts, NEW e,
           e = [d EXCEPT !.texts = Append(@, text), !.vectors = Append(@, EmbedTf(text))]
    PROVE  /\ e \in Datasets(Texts)
           /\ Indexed(e)
           /\ e.texts = Append(d.texts, text)
           /\ Len(e.texts) = Len(d.texts) + 1
<1>1. /\ e.texts = Append(d.texts, text)
      /\ e.vectors = Append(d.vectors, EmbedTf(text))
      /\ e.idf = d.idf
      /\ e = [texts |-> e.texts, vectors |-> e.vectors, idf |-> e.idf]
  BY DEF Datasets
<1>2. /\ d.texts \in Seq(Texts) /\ d.idf \in Seq(Texts)
      /\ d.vectors \in Seq([text : Texts, idf : Seq(Texts)])
      /\ EmbedTf(text) \in [text : Texts, idf : Seq(Texts)]
  BY EmptySeq DEF Datasets, EmbedTf, EmbedTfidf, NoIdf
<1>3. /\ e.texts \in Seq(Texts) /\ e.vectors \in Seq([text : Texts, idf : Seq(Texts)])
      /\ Len(e.texts) = Len(d.texts) + 1
      /\ \A i \in 1..Len(d.texts) : e.texts[i] = d.texts[i]
      /\ e.texts[Len(d.texts) + 1] = text
  BY <1>1, <1>2, AppendProperties
<1>4. e \in Datasets(Texts)
  BY <1>1, <1>2, <1>3 DEF Datasets
<1>5. PICK n \in Nat : /\ Len(d.texts) = n /\ Len(d.vectors) = n
                       /\ Len(e.texts) = n + 1
                       /\ DOMAIN d.texts = 1..n /\ DOMAIN e.texts = 1..(n + 1)
  BY <1>2, <1>3, LenProperties, IndexedIsWritable DEF Writable
<1>6. PICK l \in Nat : Len(d.idf) = l /\ l <= n
  <2>1. IsPrefix(d.idf, d.texts)
    BY DEF Indexed
  <2> QED
    <3>1. Len(d.idf) \in Nat
      BY <1>2, LenProperties
    <3>2. Len(d.idf) <= n
      BY <1>2, <1>5, <2>1, PrefixMeaning
    <3> QED
      BY <3>1, <3>2
<1>7. e.vectors = [i \in 1..(n + 1) |-> IF i <= l THEN EmbedTfidf(e.texts[i], e.idf)
                                                  ELSE EmbedTf(e.texts[i])]
  <2>1. \A i \in 1..n : d.vectors[i] = IF i <= l THEN EmbedTfidf(d.texts[i], d.idf)
                                                 ELSE EmbedTf(d.texts[i])
    BY <1>5, <1>6 DEF Indexed
  <2>2. /\ DOMAIN e.vectors = 1..(n + 1)
        /\ e.vectors = [i \in 1..(n + 1) |-> e.vectors[i]]
        /\ \A i \in 1..n : e.vectors[i] = d.vectors[i]
        /\ e.vectors[n + 1] = EmbedTf(text)
    <3>1. Len(e.vectors) = n + 1
      BY <1>1, <1>2, <1>5, AppendProperties
    <3> QED
      BY <1>1, <1>2, <1>3, <1>5, <3>1, AppendProperties, LenProperties
  <2>3. ASSUME NEW i \in 1..(n + 1)
        PROVE  e.vectors[i] = IF i <= l THEN EmbedTfidf(e.texts[i], e.idf)
                                        ELSE EmbedTf(e.texts[i])
    <3>1. CASE i \in 1..n
      BY <1>1, <1>3, <1>5, <2>1, <2>2, <3>1
    <3>2. CASE i = n + 1
      <4>1. e.texts[i] = text /\ e.vectors[i] = EmbedTf(text)
        BY <1>3, <1>5, <2>2, <3>2
      <4>2. ~(i <= l)
        BY <1>6, <3>2
      <4> QED
        BY <4>1, <4>2
    <3>3. i \in 1..n \/ i = n + 1
      OBVIOUS
    <3> QED
      BY <3>1, <3>2, <3>3
  <2> QED
    BY <2>2, <2>3
<1>8. IsPrefix(e.idf, e.texts)
  BY <1>1, <1>2, PrefixOfLonger DEF Indexed
<1>9. Indexed(e)
  BY <1>1, <1>5, <1>6, <1>7, <1>8 DEF Indexed
<1> QED
  BY <1>1, <1>3, <1>4, <1>9

(* vdb_build_index: every vector has the weights of the whole corpus.      *)
LEMMA ReindexedSound ==
    ASSUME NEW d \in Datasets(Texts), NEW e,
           e = [d EXCEPT !.vectors = Reembedded(d.texts, d.vectors), !.idf = d.texts]
    PROVE  /\ e \in Datasets(Texts)
           /\ Indexed(e)
           /\ e.texts = d.texts
<1>1. /\ e.texts = d.texts
      /\ e.vectors = Reembedded(d.texts, d.vectors)
      /\ e.idf = d.texts
      /\ e = [texts |-> e.texts, vectors |-> e.vectors, idf |-> e.idf]
  BY DEF Datasets
<1>2. d.texts \in Seq(Texts)
  BY DEF Datasets
<1>3. PICK n \in Nat : /\ Len(d.texts) = n
                       /\ DOMAIN d.texts = 1..n
                       /\ \A i \in 1..n : d.texts[i] \in Texts
  BY <1>2, LenProperties, ElementOfSeq
<1>4. e.vectors = [i \in 1..n |-> EmbedTfidf(d.texts[i], d.texts)]
  BY <1>1, <1>3 DEF Reembedded
<1>5. e.vectors \in Seq([text : Texts, idf : Seq(Texts)])
  <2>1. \A i \in 1..n : EmbedTfidf(d.texts[i], d.texts) \in [text : Texts, idf : Seq(Texts)]
    BY <1>2, <1>3 DEF EmbedTfidf
  <2>2. e.vectors \in [1..n -> [text : Texts, idf : Seq(Texts)]]
    BY <1>4, <2>1
  <2>3. e.vectors \in UNION {[1..m -> [text : Texts, idf : Seq(Texts)]] : m \in Nat}
    BY <2>2
  <2> QED
    BY <2>3, SeqDef
<1>6. e \in Datasets(Texts)
  BY <1>1, <1>2, <1>5 DEF Datasets
<1>7. IsPrefix(e.idf, e.texts)
  BY <1>1, <1>2, PrefixReflexive
<1>8. Indexed(e)
  BY <1>1, <1>3, <1>4, <1>7 DEF Indexed
<1> QED
  BY <1>1, <1>6, <1>8

(* What a file that was begun for a dataset loads as.                      *)
LEMMA BegunLoads ==
    ASSUME NEW d \in Datasets(Texts), Indexed(d), NEW f,
           Len(f) \in 0..Parts(Header(d)), f = Begun(d, Len(f))
    PROVE  /\ Loads(f) <=> Len(f) = Parts(Header(d))
           /\ Loads(f) => Loaded(f) = d /\ StoredTexts(f) = d.texts
<1>1. Writable(d)
  BY IndexedIsWritable
<1>2. Loads(f) <=> Len(f) = Parts(Header(d))
  BY <1>1, OnlyTheWholeLoads
<1>3. ASSUME Loads(f) PROVE Loaded(f) = d
  BY <1>1, <1>2, <1>3, LoadedIsWritten
<1> QED
  BY <1>2, <1>3 DEF StoredTexts

LEMMA FileLoads ==
    ASSUME IInv
    PROVE  /\ Loads(file) <=> Len(file) = Parts(Header(last))
           /\ Loads(file) => Loaded(file) = last /\ StoredTexts(file) = last.texts
BY BegunLoads DEF IInv, TypeOK, FileBegun, IndexSound

----------------------------------------------------------------------------
LEMMA InitIInv == Init => IInv
<1> SUFFICES ASSUME Init PROVE IInv
  OBVIOUS
<1>1. TypeOK
  <2>1. data \in Datasets(Texts) /\ last \in Datasets(Texts) /\ stored \in Seq(Texts)
    BY EmptyDataSound, EmptySeq DEF Init
  <2>2. acked \in 0..Len(data.texts) /\ k \in 0..(KValues - 1) /\ faults \in 0..MaxFaults
    <3>1. Len(data.texts) = 0 /\ acked = 0
      BY EmptyDataSound DEF Init
    <3> QED
      BY <3>1, VecdbAssumption DEF Init
  <2> QED
    BY <2>1, <2>2 DEF Init, TypeOK
<1>2. FileBegun
  <2>1. Len(file) = 0 /\ file = Begun(last, 0)
    <3>1. Begun(last, 0) = <<>>
      BY DEF Begun
    <3> QED
      BY <3>1 DEF Init
  <2>2. 0 \in 0..Parts(Header(last))
    <3>1. Parts(Header(EmptyData)) \in Nat
      BY EmptyDataSound
    <3>2. 0 \in 0..Parts(Header(EmptyData))
      BY <3>1
    <3> QED
      BY <3>2 DEF Init
  <2> QED
    BY <2>1, <2>2 DEF Init, FileBegun
<1>3. IndexSound
  BY EmptyDataSound DEF Init, IndexSound
<1>4. Kept
  <2>1. stored = last.texts /\ command \notin Commands
    BY EmptyDataSound DEF Init, Commands
  <2> QED
    BY <2>1 DEF Kept
<1>5. Places /\ TornKnown /\ CleanSession /\ RoomForRecords
  BY EmptyDataSound DEF Init, Places, TornKnown, CleanSession, RoomForRecords
<1> QED
  BY <1>1, <1>2, <1>3, <1>4, <1>5 DEF IInv

----------------------------------------------------------------------------
(* The process ends, whatever for, and leaves the file as it is.           *)
LEMMA NoProcessStep ==
    ASSUME IInv, NoProcess, UNCHANGED <<file, last, stored>>,
           faults' \in 0..MaxFaults,
           report' \in {"none", "ok", "failed", "killed", "absent"},
           report' \in {"none", "ok"} => Loads(file)
    PROVE  IInv'
<1>1. TypeOK'
  <2>1. data' \in Datasets(Texts) /\ acked' \in 0..Len(data'.texts)
    <3>1. Len(data'.texts) = 0 /\ acked' = 0
      BY EmptyDataSound DEF NoProcess
    <3> QED
      BY <3>1, EmptyDataSound DEF NoProcess
  <2>2. k' \in 0..(KValues - 1)
    BY VecdbAssumption DEF NoProcess
  <2> QED
    BY <2>1, <2>2 DEF IInv, TypeOK, NoProcess
<1>2. IndexSound'
  BY EmptyDataSound DEF IInv, IndexSound, NoProcess
<1>3. FileBegun'
  BY DEF IInv, FileBegun, NoProcess
<1>4. Kept'
  <2>1. command' \notin Commands /\ UNCHANGED <<file, last, stored>>
    BY DEF NoProcess, Commands
  <2> QED
    BY <2>1 DEF IInv, Kept
<1>5. Places' /\ TornKnown' /\ CleanSession' /\ RoomForRecords'
  BY EmptyDataSound DEF IInv, Places, TornKnown, CleanSession, RoomForRecords, NoProcess
<1> QED
  BY <1>1, <1>2, <1>3, <1>4, <1>5 DEF IInv

LEMMA CreateStep ==
    ASSUME IInv, Create
    PROVE  IInv'
<1>1. TypeOK'
  BY DEF IInv, TypeOK, Create, memory, session
<1>2. Places'
  BY DEF IInv, Places, Create, session
<1>3. FileBegun' /\ IndexSound'
  BY DEF IInv, FileBegun, IndexSound, Create, memory
<1>4. TornKnown' /\ CleanSession' /\ RoomForRecords'
  BY DEF IInv, TornKnown, CleanSession, RoomForRecords, Create, memory
<1>5. Kept'
  BY DEF IInv, Kept, Create, Commands
<1> QED
  BY <1>1, <1>2, <1>3, <1>4, <1>5 DEF IInv

(* vdb_load: the dataset in memory is the one that was last written.       *)
LEMMA LoadStep ==
    ASSUME IInv, NEW c \in Commands, Load(c)
    PROVE  IInv'
<1>1. /\ Loads(file) /\ Loaded(file) = last /\ StoredTexts(file) = last.texts
      /\ command = "none" /\ pc = "none"
  BY FileLoads DEF IInv, Load, Places
<1>2. /\ command' = c /\ pc' = (IF c = "repl" THEN "prompt" ELSE "adding")
      /\ data' = last /\ cap' = Len(last.texts) /\ acked' = Len(last.texts)
      /\ room' = [vectors |-> Len(last.texts), payloads |-> Len(last.texts)]
      /\ report' = "none"
      /\ UNCHANGED <<file, written, dirty, k, quitting, faults, last, stored>>
  BY <1>1 DEF Load, Dataset
<1>3. last \in Datasets(Texts) /\ last.texts \in Seq(Texts) /\ Len(last.texts) \in Nat
  BY LenProperties DEF IInv, TypeOK, Datasets
<1>4. TypeOK'
  <2>1. acked' \in 0..Len(data'.texts) /\ cap' \in Nat /\ room' \in [vectors : Nat, payloads : Nat]
    BY <1>2, <1>3
  <2>2. command' \in {"none", "create", "add", "addfile", "repl"} /\ pc' \in {"prompt", "adding"}
    BY <1>2 DEF Commands
  <2> QED
    BY <1>2, <1>3, <2>1, <2>2 DEF IInv, TypeOK
<1>5. Places'
  BY <1>1, <1>2 DEF IInv, Places, Commands
<1>6. FileBegun' /\ IndexSound'
  BY <1>1, <1>2 DEF IInv, FileBegun, IndexSound
<1>7. TornKnown' /\ CleanSession' /\ RoomForRecords'
  BY <1>1, <1>2, <1>3 DEF IInv, TornKnown, CleanSession, RoomForRecords
<1>8. Kept'
  BY <1>1, <1>2, <1>3, PrefixReflexive DEF IInv, Kept
<1> QED
  BY <1>4, <1>5, <1>6, <1>7, <1>8 DEF IInv

(* vdb_data_add: a record more in memory, nothing new in the file.         *)
LEMMA AddStep ==
    ASSUME IInv, NEW text \in Texts, Add(text)
    PROVE  IInv'
<1>1. /\ pc = "prompt" \/ pc = "adding"
      /\ command \in Commands
      /\ UNCHANGED <<file, command, written, dirty, k, quitting, acked, faults,
                     report, last, stored>>
      /\ pc' \in {"adding", "indexing"}
      /\ pc' = "adding" => command = "addfile"
      /\ ~quitting
  BY DEF Add, TakesText, IInv, Places, Commands, session, history
<1>2. /\ data' \in Datasets(Texts)
      /\ Indexed(data)'
      /\ data'.texts = Append(data.texts, text)
      /\ Len(data'.texts) = Len(data.texts) + 1
  BY AddedSound DEF Add, IInv, TypeOK, IndexSound
<1>3. data.texts \in Seq(Texts) /\ last.texts \in Seq(Texts)
      /\ Len(data.texts) \in Nat /\ Len(last.texts) \in Nat
  BY LenProperties DEF IInv, TypeOK, Datasets
<1>4. \A i \in 1..Len(data.texts) : data'.texts[i] = data.texts[i]
  BY <1>2, <1>3, AppendProperties
<1>5. NewCap \in Nat /\ (Full => NewCap > Len(data.texts))
  BY <1>3, VecdbAssumption DEF NewCap, Full, IInv, TypeOK
<1>6. /\ cap' \in Nat /\ room' \in [vectors : Nat, payloads : Nat]
      /\ RoomForRecords'
  <2>1. CASE Full
    <3>1. cap' = NewCap /\ room' = [vectors |-> NewCap, payloads |-> NewCap]
      BY <2>1 DEF Add
    <3> QED
      BY <1>2, <1>3, <1>5, <2>1, <3>1 DEF RoomForRecords
  <2>2. CASE ~Full
    <3>1. cap' = cap /\ room' = room
      BY <2>2 DEF Add
    <3>2. Len(data.texts) + 1 <= cap
      BY <1>3, <2>2 DEF Full, IInv, TypeOK, RoomForRecords
    <3> QED
      BY <1>2, <3>1, <3>2 DEF IInv, TypeOK, RoomForRecords
  <2> QED
    BY <2>1, <2>2
<1>7. TypeOK'
  <2>1. acked' \in 0..Len(data'.texts)
    BY <1>1, <1>2, <1>3 DEF IInv, TypeOK
  <2> QED
    BY <1>1, <1>2, <1>6, <2>1 DEF IInv, TypeOK
<1>8. Places'
  BY <1>1 DEF IInv, Places, Commands
<1>9. FileBegun' /\ IndexSound'
  BY <1>1, <1>2 DEF IInv, FileBegun, IndexSound
<1>10. TornKnown'
  BY <1>1 DEF IInv, TornKnown
<1>11. CleanSession'
  BY <1>1, <1>3, <1>4 DEF IInv, TypeOK, CleanSession
<1>12. Kept'
  BY <1>1, <1>2, <1>3, PrefixOfLonger DEF IInv, TypeOK, Kept
<1> QED
  BY <1>6, <1>7, <1>8, <1>9, <1>10, <1>11, <1>12 DEF IInv

(* One array may have grown, and the capacity not.                         *)
LEMMA AddNoMemoryStep ==
    ASSUME IInv, AddNoMemory
    PROVE  IInv'
<1>1. /\ UNCHANGED <<file, report, last, stored>>
      /\ faults' \in 0..MaxFaults
      /\ pc \in {"prompt", "adding"} /\ command \in Commands
  BY VecdbAssumption DEF AddNoMemory, TakesText, Fault, IInv, TypeOK, Places, Commands, history
<1>2. CASE ~InSession
  <2>1. NoProcess
    BY <1>2 DEF AddNoMemory
  <2>2. report' \in {"none", "ok"} => Loads(file)
    BY <1>1 DEF IInv, TornKnown, Commands
  <2> QED
    BY <1>1, <2>1, <2>2, NoProcessStep DEF IInv, TypeOK
<1>3. CASE InSession
  <2>1. /\ pc' = "prompt"
        /\ UNCHANGED <<command, written, data, dirty, k, quitting, acked>>
        /\ command = "repl" /\ ~quitting
    BY <1>3 DEF AddNoMemory, Prompt, InSession, session
  <2>2. Len(data.texts) \in Nat
    BY LenProperties DEF IInv, TypeOK, Datasets
  <2>3. NewCap \in Nat /\ (Full => NewCap > Len(data.texts) /\ NewCap >= cap)
    BY <2>2, VecdbAssumption DEF NewCap, Full, IInv, TypeOK
  <2>4. /\ cap' \in Nat /\ room' \in [vectors : Nat, payloads : Nat]
        /\ RoomForRecords'
    <3>1. CASE UNCHANGED <<cap, room>>
      BY <2>1, <3>1 DEF IInv, TypeOK, RoomForRecords
    <3>2. CASE Full /\ room' = [room EXCEPT !.vectors = NewCap] /\ cap' = cap
      BY <2>1, <2>2, <2>3, <3>2 DEF IInv, TypeOK, RoomForRecords
    <3>3. CASE Full /\ room' = [vectors |-> NewCap, payloads |-> NewCap] /\ cap' = NewCap
      BY <2>1, <2>2, <2>3, <3>3 DEF IInv, TypeOK, RoomForRecords
    <3> QED
      BY <1>3, <3>1, <3>2, <3>3 DEF AddNoMemory, CapUngrown
  <2>5. TypeOK'
    BY <1>1, <2>1, <2>4 DEF IInv, TypeOK
  <2>6. Places'
    BY <1>1, <2>1 DEF IInv, Places
  <2>7. FileBegun' /\ IndexSound' /\ Kept'
    BY <1>1, <2>1 DEF IInv, FileBegun, IndexSound, Kept
  <2>8. TornKnown' /\ CleanSession'
    BY <1>1, <2>1 DEF IInv, TornKnown, CleanSession
  <2> QED
    BY <2>4, <2>5, <2>6, <2>7, <2>8 DEF IInv
<1> QED
  BY <1>2, <1>3

LEMMA EndOfTextStep ==
    ASSUME IInv, EndOfText
    PROVE  IInv'
<1>1. UNCHANGED <<file, faults, report, last, stored>> /\ command = "addfile" /\ pc = "adding"
  BY DEF EndOfText, history
<1>2. CASE Added > 0
  <2>1. pc' = "indexing" /\ UNCHANGED <<command, data, cap, room, written, dirty, k, quitting, acked>>
    BY <1>2 DEF EndOfText, memory, session
  <2>2. TypeOK' /\ Places'
    BY <1>1, <2>1 DEF IInv, TypeOK, Places
  <2>3. FileBegun' /\ IndexSound' /\ Kept'
    BY <1>1, <2>1 DEF IInv, FileBegun, IndexSound, Kept
  <2>4. TornKnown' /\ CleanSession' /\ RoomForRecords'
    BY <1>1, <2>1 DEF IInv, TornKnown, CleanSession, RoomForRecords
  <2> QED
    BY <2>2, <2>3, <2>4 DEF IInv
<1>3. CASE ~(Added > 0)
  <2>1. NoProcess
    BY <1>3 DEF EndOfText
  <2>2. report' \in {"none", "ok"} => Loads(file)
    BY <1>1 DEF IInv, TornKnown
  <2> QED
    BY <1>1, <2>1, <2>2, NoProcessStep DEF IInv, TypeOK
<1> QED
  BY <1>2, <1>3

(* vdb_build_index: a session says that its record was added.              *)
LEMMA BuildIndexStep ==
    ASSUME IInv, BuildIndex
    PROVE  IInv'
<1>1. /\ pc = "indexing"
      /\ UNCHANGED <<file, cap, room, k, quitting, faults, report, last, stored>>
      /\ ~quitting
  BY DEF BuildIndex, history, IInv, Places
<1>2. /\ data' \in Datasets(Texts)
      /\ Indexed(data)'
      /\ data'.texts = data.texts
  BY ReindexedSound DEF BuildIndex, IInv, TypeOK
<1>3. Len(data.texts) \in Nat
  BY LenProperties DEF IInv, TypeOK, Datasets
<1>4. command' = command /\ written' = written
  BY DEF BuildIndex, Prompt
<1>5. \/ /\ command = "repl" /\ pc' = "prompt"
         /\ dirty' = TRUE /\ acked' = Len(data.texts)
      \/ /\ command # "repl" /\ pc' = "opening"
         /\ dirty' = dirty /\ acked' = acked
  BY <1>1 DEF BuildIndex, InSession, Prompt
<1>6. TypeOK'
  <2>1. acked' \in 0..Len(data'.texts)
    BY <1>2, <1>3, <1>5 DEF IInv, TypeOK
  <2> QED
    BY <1>1, <1>2, <1>4, <1>5, <2>1 DEF IInv, TypeOK
<1>7. Places'
  BY <1>1, <1>4, <1>5 DEF IInv, Places
<1>8. FileBegun' /\ IndexSound'
  BY <1>1, <1>2, <1>5 DEF IInv, FileBegun, IndexSound
<1>9. TornKnown' /\ CleanSession' /\ RoomForRecords'
  BY <1>1, <1>2, <1>4, <1>5 DEF IInv, TornKnown, CleanSession, RoomForRecords
<1>10. Kept'
  BY <1>1, <1>2, <1>4 DEF IInv, Kept
<1> QED
  BY <1>6, <1>7, <1>8, <1>9, <1>10 DEF IInv

(* A session goes back to its prompt with all it had; any other command    *)
(* ends.                                                                   *)
LEMMA BuildIndexNoMemoryStep ==
    ASSUME IInv, BuildIndexNoMemory
    PROVE  IInv'
<1>1. /\ pc = "indexing" /\ command # "create"
      /\ UNCHANGED <<file, report, last, stored>>
      /\ faults' \in 0..MaxFaults
  BY VecdbAssumption DEF BuildIndexNoMemory, Fault, IInv, TypeOK, Places, history
<1>2. CASE InSession
  <2>1. /\ pc' = "prompt" /\ command = "repl" /\ ~quitting
        /\ UNCHANGED <<command, written, data, cap, room, dirty, k, quitting, acked>>
    BY <1>2 DEF BuildIndexNoMemory, Prompt, InSession, memory, session
  <2>2. TypeOK' /\ Places'
    BY <1>1, <2>1 DEF IInv, TypeOK, Places
  <2>3. FileBegun' /\ IndexSound' /\ Kept'
    BY <1>1, <2>1 DEF IInv, FileBegun, IndexSound, Kept
  <2>4. TornKnown' /\ CleanSession' /\ RoomForRecords'
    BY <1>1, <2>1 DEF IInv, TornKnown, CleanSession, RoomForRecords
  <2> QED
    BY <2>2, <2>3, <2>4 DEF IInv
<1>3. CASE ~InSession
  <2>1. NoProcess
    BY <1>3 DEF BuildIndexNoMemory
  <2>2. report' \in {"none", "ok"} => Loads(file)
    BY <1>1 DEF IInv, TornKnown
  <2> QED
    BY <1>1, <2>1, <2>2, NoProcessStep DEF IInv, TypeOK
<1> QED
  BY <1>2, <1>3

----------------------------------------------------------------------------
LEMMA SaveStep ==
    ASSUME IInv, Save
    PROVE  IInv'
<1>1. /\ pc = "prompt" /\ dirty /\ pc' = "opening" /\ command = "repl"
      /\ UNCHANGED <<file, command, data, cap, room, written, dirty, k, quitting,
                     acked, faults, report, last, stored>>
  BY DEF Save, memory, session, history, IInv, Places
<1>2. TypeOK' /\ Places'
  BY <1>1 DEF IInv, TypeOK, Places
<1>3. FileBegun' /\ IndexSound' /\ Kept'
  BY <1>1 DEF IInv, FileBegun, IndexSound, Kept
<1>4. TornKnown' /\ CleanSession' /\ RoomForRecords'
  BY <1>1 DEF IInv, TornKnown, CleanSession, RoomForRecords
<1> QED
  BY <1>2, <1>3, <1>4 DEF IInv

LEMMA QuitStep ==
    ASSUME IInv, Quit
    PROVE  IInv'
<1>1. /\ pc = "prompt" /\ command = "repl"
      /\ UNCHANGED <<file, faults, report, last, stored>>
  BY DEF Quit, history, IInv, Places
<1>2. CASE dirty
  <2>1. /\ quitting' = TRUE /\ pc' = "opening"
        /\ UNCHANGED <<command, data, cap, room, written, dirty, k, acked>>
    BY <1>2 DEF Quit, memory
  <2>2. TypeOK' /\ Places'
    BY <1>1, <2>1 DEF IInv, TypeOK, Places
  <2>3. FileBegun' /\ IndexSound' /\ Kept'
    BY <1>1, <2>1 DEF IInv, FileBegun, IndexSound, Kept
  <2>4. TornKnown' /\ CleanSession' /\ RoomForRecords'
    BY <1>1, <1>2, <2>1 DEF IInv, TornKnown, CleanSession, RoomForRecords
  <2> QED
    BY <2>2, <2>3, <2>4 DEF IInv
<1>3. CASE ~dirty
  <2>1. NoProcess
    BY <1>3 DEF Quit
  <2>2. Loads(file)
    BY <1>1, <1>3 DEF IInv, CleanSession
  <2> QED
    BY <1>1, <2>1, <2>2, NoProcessStep DEF IInv, TypeOK
<1> QED
  BY <1>2, <1>3 DEF IInv, TypeOK

----------------------------------------------------------------------------
(* fopen: nothing is left, and nothing is begun yet.                       *)
LEMMA OpenForWritingStep ==
    ASSUME IInv, OpenForWriting
    PROVE  IInv'
<1>1. /\ pc = "opening" /\ pc' = "writing"
      /\ file' = <<>> /\ written' = 0 /\ last' = data /\ report' = "none"
      /\ UNCHANGED <<command, data, cap, room, dirty, k, quitting, acked, faults, stored>>
  BY DEF OpenForWriting, memory, session
<1>2. TypeOK' /\ Places' /\ IndexSound'
  BY <1>1 DEF IInv, TypeOK, Places, IndexSound
<1>3. FileBegun'
  <2>1. Len(file') = 0 /\ file' = Begun(last', 0)
    <3>1. Begun(data, 0) = <<>>
      BY DEF Begun
    <3> QED
      BY <1>1, <3>1
  <2>2. 0 \in 0..Parts(Header(last'))
    BY <1>1, PartsCount DEF IInv, TypeOK
  <2> QED
    BY <1>1, <2>1, <2>2 DEF FileBegun
<1>4. ~Loads(file')
  BY <1>1 DEF Loads
<1>5. Kept'
  BY <1>1, <1>4 DEF IInv, Kept
<1>6. CleanSession'
  BY <1>1 DEF IInv, CleanSession
<1>7. TornKnown' /\ RoomForRecords'
  BY <1>1 DEF IInv, TornKnown, RoomForRecords
<1> QED
  BY <1>2, <1>3, <1>5, <1>6, <1>7 DEF IInv

(* One more part in the file; the last one makes it whole.                 *)
LEMMA WritePartStep ==
    ASSUME IInv, WritePart
    PROVE  /\ IInv'
           /\ stored' = stored \/ stored' = data.texts
<1>1. /\ pc = "writing" /\ last = data /\ written = Len(file) /\ report = "none"
      /\ written < Len(Stream(data))
      /\ written' = written + 1
      /\ file' = Append(file, Stream(data)[written + 1])
      /\ stored' = IF Loads(file') THEN StoredTexts(file') ELSE stored
      /\ UNCHANGED <<command, pc, data, cap, room, dirty, k, quitting, acked, faults,
                     report, last>>
  BY DEF WritePart, memory, session, IInv, FileBegun
<1>2. data \in Datasets(Texts) /\ Indexed(data)
  BY DEF IInv, TypeOK, IndexSound
<1>3. /\ Len(Stream(data)) = Parts(Header(data))
      /\ Parts(Header(data)) \in Nat
  BY <1>2, StreamShape
<1>4. /\ written \in Nat /\ written \in 0..(Parts(Header(data)) - 1)
      /\ written + 1 \in 0..Parts(Header(data))
  BY <1>1, <1>3 DEF IInv, TypeOK
<1>5. file' = Begun(data, written + 1)
  <2>1. file = Begun(data, written)
    BY <1>1 DEF IInv, FileBegun
  <2> QED
    BY <1>1, <1>2, <1>4, <2>1, BegunGrows
<1>6. Len(file') = written + 1
  BY <1>2, <1>4, <1>5, BegunShape
<1>7. FileBegun'
  BY <1>1, <1>3, <1>4, <1>5, <1>6 DEF FileBegun
<1>8. Loads(file') => StoredTexts(file') = data.texts
  BY <1>2, <1>4, <1>5, <1>6, BegunLoads
<1>9. stored' \in Seq(Texts) /\ (stored' = stored \/ stored' = data.texts)
  BY <1>1, <1>2, <1>8 DEF IInv, TypeOK, Datasets
<1>10. TypeOK' /\ Places' /\ IndexSound'
  BY <1>1, <1>4, <1>9 DEF IInv, TypeOK, Places, IndexSound
<1>11. Kept'
  <2>1. Loads(file') => stored' = last'.texts
    BY <1>1, <1>8
  <2>2. command' \in Commands => IsPrefix(stored', data'.texts)
    <3>1. data.texts \in Seq(Texts)
      BY <1>2 DEF Datasets
    <3> QED
      BY <1>1, <1>9, <3>1, PrefixReflexive DEF IInv, Kept
  <2> QED
    BY <2>1, <2>2 DEF Kept
<1>12. CleanSession'
  BY <1>1 DEF IInv, CleanSession
<1>13. TornKnown' /\ RoomForRecords'
  BY <1>1 DEF IInv, TornKnown, RoomForRecords
<1> QED
  BY <1>7, <1>9, <1>10, <1>11, <1>12, <1>13 DEF IInv

(* fclose: what was written is the whole dataset, so a session is clean.   *)
LEMMA WriteDoneStep ==
    ASSUME IInv, WriteDone
    PROVE  IInv'
<1>1. /\ pc = "writing" /\ last = data /\ Len(file) = Len(Stream(data))
      /\ report' = "ok"
      /\ UNCHANGED <<file, faults, last, stored>>
  BY DEF WriteDone, IInv, FileBegun
<1>2. Loads(file)
  <2>1. Len(Stream(data)) = Parts(Header(data))
    BY StreamShape DEF IInv, TypeOK
  <2> QED
    BY <1>1, <2>1, FileLoads
<1>3. CASE InSession
  <2>1. /\ dirty' = FALSE /\ pc' = "prompt" /\ written' = 0
        /\ command = "repl" /\ ~quitting
        /\ UNCHANGED <<command, data, cap, room, k, quitting, acked>>
    BY <1>3 DEF WriteDone, InSession, memory
  <2>2. TypeOK' /\ Places' /\ IndexSound' /\ Kept'
    BY <1>1, <2>1 DEF IInv, TypeOK, Places, IndexSound, Kept
  <2>3. FileBegun'
    BY <1>1, <1>2, <2>1 DEF IInv, FileBegun
  <2>4. CleanSession'
    <3>1. acked \in 0..Len(last.texts)
      BY <1>1 DEF IInv, TypeOK
    <3> QED
      BY <1>1, <1>2, <2>1, <3>1 DEF CleanSession
  <2>5. TornKnown' /\ RoomForRecords'
    BY <1>1, <1>2, <2>1 DEF IInv, TornKnown, RoomForRecords
  <2> QED
    BY <2>2, <2>3, <2>4, <2>5 DEF IInv
<1>4. CASE ~InSession
  <2>1. NoProcess
    BY <1>4 DEF WriteDone
  <2> QED
    BY <1>1, <1>2, <2>1, NoProcessStep DEF IInv, TypeOK
<1> QED
  BY <1>3, <1>4

(* A write fails at any part: the session is told, and stays dirty.        *)
LEMMA WriteFailsStep ==
    ASSUME IInv, WriteFails
    PROVE  IInv'
<1>1. /\ pc \in {"opening", "writing"}
      /\ report' = "failed"
      /\ faults' \in 0..MaxFaults
      /\ UNCHANGED <<file, last, stored>>
  BY VecdbAssumption DEF WriteFails, Fault, IInv, TypeOK
<1>2. CASE InSession
  <2>1. /\ dirty' = dirty /\ pc' = "prompt" /\ written' = 0
        /\ command = "repl" /\ ~quitting
        /\ UNCHANGED <<command, data, cap, room, k, quitting, acked>>
    BY <1>2 DEF WriteFails, DirtyAfterFailure, InSession, memory
  <2>2. TypeOK' /\ Places' /\ IndexSound' /\ Kept'
    BY <1>1, <2>1 DEF IInv, TypeOK, Places, IndexSound, Kept
  <2>3. FileBegun' /\ CleanSession'
    BY <1>1, <2>1 DEF IInv, FileBegun, CleanSession
  <2>4. TornKnown' /\ RoomForRecords'
    BY <1>1, <2>1 DEF IInv, TornKnown, RoomForRecords
  <2> QED
    BY <2>2, <2>3, <2>4 DEF IInv
<1>3. CASE ~InSession
  <2>1. NoProcess
    BY <1>3 DEF WriteFails
  <2> QED
    BY <1>1, <2>1, NoProcessStep
<1> QED
  BY <1>2, <1>3

----------------------------------------------------------------------------
LEMMA SetKStep ==
    ASSUME IInv, NEW v \in KInputs, SetK(v)
    PROVE  IInv'
<1>1. /\ k' = v % KValues
      /\ UNCHANGED <<file, command, pc, data, cap, room, written, dirty, quitting, acked,
                     faults, report, last, stored>>
  BY DEF SetK, memory, history
<1>2. k' \in 0..(KValues - 1)
  BY <1>1, VecdbAssumption
<1>3. TypeOK' /\ Places' /\ FileBegun' /\ IndexSound'
  BY <1>1, <1>2 DEF IInv, TypeOK, Places, FileBegun, IndexSound
<1>4. TornKnown' /\ CleanSession' /\ RoomForRecords' /\ Kept'
  BY <1>1 DEF IInv, TornKnown, CleanSession, RoomForRecords, Kept
<1> QED
  BY <1>3, <1>4 DEF IInv

LEMMA CtrlCStep ==
    ASSUME IInv, CtrlC
    PROVE  IInv'
<1>1. UNCHANGED vars
  BY DEF CtrlC, InReadline, vars, memory, session, history
<1> QED
  BY <1>1 DEF vars, memory, session, history, IInv, TypeOK, Places, FileBegun, IndexSound,
     TornKnown, CleanSession, RoomForRecords, Kept

LEMMA KillStep ==
    ASSUME IInv, Kill
    PROVE  IInv'
<1>1. /\ NoProcess /\ report' = "killed"
      /\ faults' \in 0..MaxFaults
      /\ UNCHANGED <<file, last, stored>>
  BY VecdbAssumption DEF Kill, Fault, IInv, TypeOK
<1> QED
  BY <1>1, NoProcessStep

----------------------------------------------------------------------------
(* IInv is inductive: every command, session, failure and kill keeps it.   *)
THEOREM Inductive == Spec => []IInv
<1>1. IInv /\ [Next]_vars => IInv'
  <2> SUFFICES ASSUME IInv, [Next]_vars PROVE IInv'
    OBVIOUS
  <2>1. CASE Create
    BY <2>1, CreateStep
  <2>2. CASE \E c \in Commands : Load(c)
    BY <2>2, LoadStep
  <2>3. CASE \E text \in Texts : Add(text)
    BY <2>3, AddStep
  <2>4. CASE AddNoMemory \/ EndOfText
    BY <2>4, AddNoMemoryStep, EndOfTextStep
  <2>5. CASE BuildIndex \/ BuildIndexNoMemory
    BY <2>5, BuildIndexStep, BuildIndexNoMemoryStep
  <2>6. CASE Save \/ Quit
    BY <2>6, SaveStep, QuitStep
  <2>7. CASE OpenForWriting \/ WritePart \/ WriteDone \/ WriteFails
    BY <2>7, OpenForWritingStep, WritePartStep, WriteDoneStep, WriteFailsStep
  <2>8. CASE \E v \in KInputs : SetK(v)
    BY <2>8, SetKStep
  <2>9. CASE CtrlC \/ Kill
    BY <2>9, CtrlCStep, KillStep
  <2>10. CASE UNCHANGED vars
    BY <2>10 DEF vars, memory, session, history, IInv, TypeOK, Places, FileBegun,
       IndexSound, TornKnown, CleanSession, RoomForRecords, Kept
  <2> QED
    BY <2>1, <2>2, <2>3, <2>4, <2>5, <2>6, <2>7, <2>8, <2>9, <2>10 DEF Next
<1> QED
  BY <1>1, InitIInv, PTL DEF Spec

(* Counters, positions and datasets are of their types in every state.     *)
THEOREM TypeCorrect == Spec => []TypeOK
<1>1. IInv => TypeOK
  BY DEF IInv
<1> QED
  BY <1>1, Inductive, PTL

(* store.h:95: wherever a kill or a failed write cut it, the file is       *)
(* refused or it is the whole dataset that was being written.              *)
THEOREM LoadAllOrNothingCorrect == Spec => []LoadAllOrNothing
<1>1. IInv => LoadAllOrNothing
  BY FileLoads DEF IInv, FileBegun, LoadAllOrNothing
<1> QED
  BY <1>1, Inductive, PTL

(* repl.c:169-175: a session that has nothing to save has its records in   *)
(* the file.                                                               *)
THEOREM CleanMeansStoredCorrect == Spec => []CleanMeansStored
<1>1. ASSUME IInv, pc = "prompt", ~dirty
      PROVE  Loads(file) /\ IsPrefix(SubSeq(data.texts, 1, acked), StoredTexts(file))
  <2>1. /\ Loads(file) /\ acked <= Len(last.texts)
        /\ \A i \in 1..acked : data.texts[i] = last.texts[i]
    BY <1>1 DEF IInv, Places, CleanSession
  <2>2. StoredTexts(file) = last.texts
    BY <1>1, <2>1, FileLoads
  <2>3. /\ data.texts \in Seq(Texts) /\ last.texts \in Seq(Texts)
        /\ acked \in 0..Len(data.texts)
        /\ Len(data.texts) \in Nat
    BY <1>1, LenProperties DEF IInv, TypeOK, Datasets
  <2>4. /\ SubSeq(data.texts, 1, acked) \in Seq(Texts)
        /\ Len(SubSeq(data.texts, 1, acked)) = acked
        /\ \A i \in 1..acked : SubSeq(data.texts, 1, acked)[i] = data.texts[i]
    <3>1. \A i \in 1..acked : data.texts[i] \in Texts
      BY <2>3, ElementOfSeq
    <3>2. acked \in Int /\ acked >= 0
      BY <2>3
    <3> QED
      BY <3>1, <3>2, SubSeqProperties
  <2>5. /\ Len(SubSeq(data.texts, 1, acked)) <= Len(last.texts)
        /\ \A i \in 1..Len(SubSeq(data.texts, 1, acked)) :
              SubSeq(data.texts, 1, acked)[i] = last.texts[i]
    BY <2>1, <2>4
  <2>6. IsPrefix(SubSeq(data.texts, 1, acked), last.texts)
    BY <2>3, <2>4, <2>5, PrefixMeaning
  <2> QED
    BY <2>1, <2>2, <2>6
<1>2. IInv => CleanMeansStored
  BY <1>1 DEF CleanMeansStored
<1> QED
  BY <1>2, Inductive, PTL

(* A store that cannot be opened any more was reported, or its process was *)
(* killed.                                                                 *)
THEOREM TornFileReportedCorrect == Spec => []TornFileReported
<1>1. IInv => TornFileReported
  BY DEF IInv, TypeOK, Places, TornKnown, TornFileReported
<1> QED
  BY <1>1, Inductive, PTL

(* The weights are those of a first part of the corpus, in memory and in   *)
(* the file.                                                               *)
THEOREM IndexOfPrefixCorrect == Spec => []IndexOfPrefix
<1>1. IInv => IndexOfPrefix
  BY FileLoads DEF IInv, IndexSound, IndexOfPrefix
<1> QED
  BY <1>1, Inductive, PTL

(* No record is put beyond the end of either array, however often a growth *)
(* fails half way.                                                         *)
THEOREM RoomForRecordsCorrect == Spec => []RoomForRecords
<1>1. IInv => RoomForRecords
  BY DEF IInv
<1> QED
  BY <1>1, Inductive, PTL

(* Only create empties a store: every other step leaves the last complete  *)
(* file, or replaces it by one that starts with the same records.          *)
THEOREM StoredOnlyGrowsCorrect == Spec => StoredOnlyGrows
<1>1. ASSUME IInv, [Next]_vars, command # "create"
      PROVE  IsPrefix(stored, stored')
  <2>1. IsPrefix(stored, stored)
    BY <1>1, PrefixReflexive DEF IInv, TypeOK
  <2>2. CASE WritePart
    <3>1. stored' = stored \/ stored' = data.texts
      BY <1>1, <2>2, WritePartStep
    <3>2. IsPrefix(stored, data.texts)
      BY <1>1, <2>2 DEF WritePart, IInv, TypeOK, Places, Kept, Commands
    <3> QED
      BY <2>1, <3>1, <3>2
  <2>3. CASE ~WritePart
    <3>1. stored' = stored
      BY <1>1, <2>3 DEF Next, vars, history, Create, Load, Add, AddNoMemory, EndOfText,
         BuildIndex, BuildIndexNoMemory, Save, Quit, OpenForWriting, WriteDone, WriteFails,
         SetK, CtrlC, Kill
    <3> QED
      BY <2>1, <3>1
  <2> QED
    BY <2>2, <2>3
<1>2. IInv /\ [Next]_vars => [command # "create" => IsPrefix(stored, stored')]_vars
  BY <1>1
<1> QED
  BY <1>2, Inductive, PTL DEF Spec, StoredOnlyGrows
=============================================================================
