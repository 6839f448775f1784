---------------------------- MODULE SharedStore ----------------------------
(***************************************************************************)
(* Several vecdb add commands (cmd_add in vecdb/src/main.c) on one store   *)
(* at a time.  Nothing locks the file: each process loads the store part   *)
(* by part, adds its record to the dataset in its memory, and rewrites the *)
(* whole file (vdb_load, vdb_write in vecdb/src/store.c).  Each has a file *)
(* position of its own, so what one writes after another has emptied the   *)
(* file lands behind a hole.  Failures and kills are in Vecdb.             *)
(*                                                                         *)
(* The parts of the file (VdbFile) have one size here, as they have where  *)
(* a text and its length take as many bytes as a vector of the store.      *)
(***************************************************************************)
EXTENDS VdbFile, SequencesExt

CONSTANT Procs             \* the processes; each adds itself as its text

VARIABLES
    file,      \* the parts of the .vdb file
    pc,        \* where each process is
    got,       \* the parts it has read
    data,      \* the dataset in its memory
    pos,       \* parts it has written, its position in the file
    met,       \* history: pairs that were at work on the store at a time
    clashed,   \* history: pairs that had it open for writing at a time
    caught,    \* history: processes that were reading it when it was emptied
    last       \* history: the dataset of the last process to close the file

history == <<met, clashed, caught, last>>
vars == <<file, pc, got, data, pos, history>>

Hole    == [kind |-> "hole"]
Garbage == "garbage"       \* a text made of what is not one

Init == /\ file = Stream(EmptyData)
        /\ pc = [p \in Procs |-> "ready"]
        /\ got = [p \in Procs |-> <<>>]
        /\ data = [p \in Procs |-> EmptyData]
        /\ pos = [p \in Procs |-> 0]
        /\ met = {}
        /\ clashed = {}
        /\ caught = {}
        /\ last = EmptyData

At(places) == {q \in Procs : pc[q] \in places}
PairsWith(p, qs) == {{p, q} : q \in qs \ {p}}

----------------------------------------------------------------------------
(* vdb_load.  A file that others write meanwhile may have parts where its  *)
(* header does not announce them.                                          *)
HeaderRead(p) == got[p][1]
IsRead(p) ==
    got[p] # <<>> /\ (HeaderRead(p).count = 0 \/ Len(got[p]) = Parts(HeaderRead(p)))

ReadPart(p) ==
    LET i == Len(got[p]) + 1
    IN  /\ pc[p] \in {"ready", "reading"}
        /\ ~IsRead(p)
        /\ i <= Len(file)
        /\ i = 1 => file[1].kind = "header"
        /\ got' = [got EXCEPT ![p] = Append(@, file[i])]
        /\ pc' = [pc EXCEPT ![p] = "reading"]
        /\ met' = met \cup IF i = 1 THEN PairsWith(p, At({"reading", "writing"})) ELSE {}
        /\ UNCHANGED <<file, data, pos, clashed, caught, last>>

(* From the first payload on that is not where it should be, lengths are   *)
(* read from other bytes: the texts are garbage, or too long for the file. *)
TextAt(p, i) ==
    LET first == 2 + HeaderRead(p).count
    IN  IF \A j \in first..(first + i - 1) : got[p][j].kind = "payload"
        THEN got[p][first + i - 1].text
        ELSE Garbage
TextsButLast(p) == [i \in 1..(HeaderRead(p).count - 1) |-> TextAt(p, i)]
TextsRead(p) == [i \in 1..HeaderRead(p).count |-> TextAt(p, i)]

LoadRefused(p) ==
    /\ pc[p] \in {"ready", "reading"}
    /\ \/ ~IsRead(p) /\ Len(file) <= Len(got[p])
       \/ pc[p] = "ready" /\ Len(file) >= 1 /\ file[1].kind # "header"
       \/ IsRead(p) /\ Garbage \in ToSet(TextsRead(p))
    /\ pc' = [pc EXCEPT ![p] = "refused"]
    /\ UNCHANGED <<file, got, data, pos, history>>

----------------------------------------------------------------------------
(* The record is added, and every vector embedded with the new weights:    *)
(* vdb_data_add and vdb_build_index touch the memory of the process only,  *)
(* and happen here when fopen(path, "wb") empties the file.                *)
Indexed(texts) ==
    [texts |-> texts, vectors |-> [i \in DOMAIN texts |-> EmbedTfidf(texts[i], texts)], idf |-> texts]

NotTruncated == file
Truncated == <<>>

AddAndOpen(p) ==
    /\ pc[p] = "reading" /\ IsRead(p)
    /\ data' = [data EXCEPT ![p] = Indexed(Append(TextsRead(p), p))]
    /\ file' = Truncated
    /\ pc' = [pc EXCEPT ![p] = "writing"]
    /\ clashed' = clashed \cup PairsWith(p, At({"writing"}))
    /\ caught' = caught \cup {q \in At({"reading"}) : ~IsRead(q)}
    /\ UNCHANGED <<got, pos, met, last>>

(* The next part reaches the file, at the position of the process.         *)
Put(f, i, part) ==
    [j \in 1..(IF i > Len(f) THEN i ELSE Len(f)) |->
        IF j = i THEN part ELSE IF j <= Len(f) THEN f[j] ELSE Hole]

WritePart(p) ==
    LET i == pos[p] + 1
    IN  /\ pc[p] = "writing"
        /\ i <= Len(Stream(data[p]))
        /\ file' = Put(file, i, Stream(data[p])[i])
        /\ pos' = [pos EXCEPT ![p] = i]
        /\ UNCHANGED <<pc, got, data, history>>

Close(p) ==
    /\ pc[p] = "writing"
    /\ pos[p] = Len(Stream(data[p]))
    /\ pc' = [pc EXCEPT ![p] = "done"]
    /\ last' = data[p]
    /\ UNCHANGED <<file, got, data, pos, met, clashed, caught>>

AllOver == At({"done", "refused"}) = Procs /\ UNCHANGED vars

Next == \/ \E p \in Procs : \/ ReadPart(p) \/ LoadRefused(p)
                            \/ AddAndOpen(p) \/ WritePart(p) \/ Close(p)
        \/ AllOver

Spec == Init /\ [][Next]_vars

----------------------------------------------------------------------------
(* What several processes may rely on.                                     *)

Quiet == At({"writing"}) = {}

(* As long as no two processes rewrite the file at a time, it is the whole *)
(* dataset of the one that closed it last, however their loads interleave: *)
(* a process that loaded an older, smaller store leaves nothing of a       *)
(* larger one behind.                                                      *)
WritesApartLeaveAWhole == clashed = {} /\ Quiet => file = Stream(last)

(* If besides no process went on with a store that was emptied while it    *)
(* read it, each process that says it has added its record has it in the   *)
(* file, and once, unless one that was at work with it at the same time    *)
(* wrote its own older dataset.  So it is never undone by a process that   *)
(* started after it was done, not even by one that loads what a third is   *)
(* still writing: that load is whole or refused.                           *)
LostOnlyToALaterWrite ==
    clashed = {} /\ Quiet /\ caught \cap At({"done"}) = {} =>
        \A p \in At({"done"}) :
            LET texts == StoredTexts(file)
                found == {i \in DOMAIN texts : texts[i] = p}
            IN  \/ \E i \in DOMAIN texts : found = {i}
                \/ /\ found = {}
                   /\ \E q \in At({"done"}) : {p, q} \in met /\ p \notin ToSet(data[q].texts)
=============================================================================
