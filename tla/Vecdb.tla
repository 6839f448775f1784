------------------------------- MODULE Vecdb -------------------------------
(***************************************************************************)
(* The commands of vecdb that change a store: create, add, addfile         *)
(* (vecdb/src/main.c) and the interactive session (vecdb/src/repl.c), with *)
(* the dataset they keep in memory, its index (vecdb/src/index.c) and the  *)
(* file they rewrite (vecdb/src/store.c).  One process at a time works on  *)
(* the file; it may be killed at any moment, and any allocation, open or   *)
(* write may fail.  What was written reaches the file part by part, at any *)
(* time between the fwrite and the end of fclose.                          *)
(***************************************************************************)
EXTENDS VdbFile, SequencesExt

CONSTANTS
    Texts,                 \* the texts that are added
    MaxRecords,            \* records of the largest dataset
    MaxFaults,             \* failures and kills
    FirstCap,              \* capacity of the first growth: 16 in the code
    KInputs,               \* numbers given to the k command
    KValues,               \* how many values a uint32_t has
    DefaultK               \* 5 in the code

ASSUME VecdbAssumption == /\ MaxRecords \in Nat /\ MaxFaults \in Nat
                          /\ FirstCap \in Nat \ {0}
                          /\ KInputs \subseteq Int
                          /\ DefaultK \in Nat \ {0} /\ KValues \in Nat /\ DefaultK < KValues

VARIABLES
    file,      \* the parts of the .vdb file
    command,   \* the command that runs
    pc,        \* where it is
    data,      \* texts, vectors and idf of its VdbData
    cap,       \* data->cap
    room,      \* records the two arrays were really allocated for
    written,   \* parts of the current vdb_write that have reached the file
    dirty,     \* repl_run's dirty
    k,         \* repl_run's k
    quitting,  \* the session has left its loop
    faults,    \* failures and kills so far
    report,    \* history: how the last process ended, or its last write
    last,      \* history: the dataset vdb_write was last called with
    stored,    \* history: the texts of the last file that was complete
    acked      \* history: records the session was told are in its dataset

memory  == <<data, cap, room>>
session == <<dirty, k, quitting, acked>>
history == <<report, last, stored>>
vars == <<file, command, pc, memory, written, session, faults, history>>

NoProcess == /\ command' = "none"
             /\ pc' = "none"
             /\ data' = EmptyData
             /\ cap' = 0
             /\ room' = [vectors |-> 0, payloads |-> 0]
             /\ written' = 0
             /\ dirty' = FALSE
             /\ k' = DefaultK
             /\ quitting' = FALSE
             /\ acked' = 0

Init == /\ file = <<>>
        /\ command = "none"
        /\ pc = "none"
        /\ data = EmptyData
        /\ cap = 0
        /\ room = [vectors |-> 0, payloads |-> 0]
        /\ written = 0
        /\ dirty = FALSE
        /\ k = DefaultK
        /\ quitting = FALSE
        /\ faults = 0
        /\ report = "absent"
        /\ last = EmptyData
        /\ stored = <<>>
        /\ acked = 0

Fault == faults < MaxFaults /\ faults' = faults + 1

(* A command other than the session ends when something fails; the session *)
(* prints a message and prompts again.                                     *)
InSession == command = "repl" /\ ~quitting
Prompt == pc' = "prompt" /\ UNCHANGED <<command, written>>

----------------------------------------------------------------------------
(* A command starts.                                                       *)

Create ==
    /\ command = "none"
    /\ command' = "create"
    /\ pc' = "opening"
    /\ report' = "none"
    /\ UNCHANGED <<file, memory, written, session, faults, last, stored>>

(* vdb_load; a file it refuses ends the command at once.                   *)
DatasetUncounted == EmptyData
Dataset == Loaded(file)

Load(c) ==
    /\ command = "none"
    /\ Loads(file)
    /\ c = "add" => Len(StoredTexts(file)) < MaxRecords
    /\ command' = c
    /\ pc' = IF c = "repl" THEN "prompt" ELSE "adding"
    /\ data' = Dataset
    /\ cap' = Len(StoredTexts(file))
    /\ room' = [vectors |-> cap', payloads |-> cap']
    /\ acked' = Len(StoredTexts(file))
    /\ report' = "none"
    /\ UNCHANGED <<file, written, dirty, k, quitting, faults, last, stored>>

----------------------------------------------------------------------------
(* Adding a record, and the index.                                         *)

Added == Len(data.texts) - Len(StoredTexts(file))

(* The session takes a line; add takes its one text, addfile the next      *)
(* paragraph.                                                              *)
TakesText == \/ pc = "prompt"
             \/ pc = "adding" /\ (command = "add" => Added = 0)

Full == Len(data.texts) = cap
NewCap == IF cap = 0 THEN FirstCap ELSE 2 * cap

(* vdb_data_add.                                                           *)
Add(text) ==
    /\ TakesText
    /\ Len(data.texts) < MaxRecords
    /\ data' = [data EXCEPT !.texts = Append(@, text),
                            !.vectors = Append(@, EmbedTf(text))]
    /\ cap' = IF Full THEN NewCap ELSE cap
    /\ room' = IF Full THEN [vectors |-> NewCap, payloads |-> NewCap] ELSE room
    /\ pc' = IF command = "addfile" THEN "adding" ELSE "indexing"
    /\ UNCHANGED <<file, command, written, session, faults, history>>

(* data->cap after the vectors were grown and the payloads were not.       *)
CapOfVectors == NewCap
CapUngrown == cap

(* It runs out of memory before growing, between the two arrays, or after. *)
AddNoMemory ==
    /\ TakesText
    /\ Fault
    /\ IF InSession THEN
          /\ Prompt
          /\ UNCHANGED <<data, session>>
          /\ \/ UNCHANGED <<cap, room>>
             \/ Full /\ room' = [room EXCEPT !.vectors = NewCap] /\ cap' = CapUngrown
             \/ Full /\ room' = [vectors |-> NewCap, payloads |-> NewCap] /\ cap' = NewCap
       ELSE NoProcess
    /\ UNCHANGED <<file, history>>

(* The paragraphs are read.                                                *)
EndOfText ==
    /\ command = "addfile" /\ pc = "adding"
    /\ IF Added > 0
       THEN pc' = "indexing" /\ UNCHANGED <<command, memory, written, session>>
       ELSE NoProcess
    /\ UNCHANGED <<file, faults, history>>

(* vdb_build_index: the weights of the whole corpus, and every vector      *)
(* embedded with them.                                                     *)
LastReembedded(texts, vectors) ==
    [i \in DOMAIN texts |-> IF i = Len(texts) THEN EmbedTfidf(texts[i], texts) ELSE vectors[i]]
Reembedded(texts, vectors) == [i \in DOMAIN texts |-> EmbedTfidf(texts[i], texts)]

BuildIndex ==
    /\ pc = "indexing"
    /\ data' = [data EXCEPT !.vectors = Reembedded(data.texts, data.vectors),
                            !.idf = data.texts]
    /\ IF InSession
       THEN dirty' = TRUE /\ acked' = Len(data.texts) /\ Prompt
       ELSE pc' = "opening" /\ UNCHANGED <<command, written, dirty, acked>>
    /\ UNCHANGED <<file, cap, room, k, quitting, faults, history>>

(* Out of memory: the session keeps the record it has just added.          *)
BuildIndexNoMemory ==
    /\ pc = "indexing"
    /\ Fault
    /\ IF InSession THEN Prompt /\ UNCHANGED <<memory, session>> ELSE NoProcess
    /\ UNCHANGED <<file, history>>

----------------------------------------------------------------------------
(* vdb_write.                                                              *)

(* The session's save command, and the autosave after quit or Ctrl-D.      *)
Save ==
    /\ pc = "prompt"
    /\ dirty
    /\ pc' = "opening"
    /\ UNCHANGED <<file, command, memory, written, session, faults, history>>

Quit ==
    /\ pc = "prompt"
    /\ IF dirty
       THEN /\ quitting' = TRUE
            /\ pc' = "opening"
            /\ UNCHANGED <<command, memory, written, dirty, k, acked>>
       ELSE NoProcess
    /\ UNCHANGED <<file, faults, history>>

(* fopen(path, "wb") empties the file.                                     *)
OpenForWriting ==
    /\ pc = "opening"
    /\ file' = <<>>
    /\ written' = 0
    /\ last' = data
    /\ report' = "none"
    /\ pc' = "writing"
    /\ UNCHANGED <<command, memory, session, faults, stored>>

(* One more part reaches the file.                                         *)
WritePart ==
    /\ pc = "writing"
    /\ written < Len(Stream(data))
    /\ written' = written + 1
    /\ file' = Append(file, Stream(data)[written'])
    /\ stored' = IF Loads(file') THEN StoredTexts(file') ELSE stored
    /\ UNCHANGED <<command, pc, memory, session, faults, report, last>>

(* fclose has succeeded.                                                   *)
WriteDone ==
    /\ pc = "writing"
    /\ written = Len(Stream(data))
    /\ report' = "ok"
    /\ IF InSession
       THEN /\ dirty' = FALSE
            /\ pc' = "prompt"
            /\ written' = 0
            /\ UNCHANGED <<command, memory, k, quitting, acked>>
       ELSE NoProcess
    /\ UNCHANGED <<file, faults, last, stored>>

(* fopen, an fwrite or fclose fails.  A session stays dirty.               *)
CleanAfterFailure == FALSE
DirtyAfterFailure == dirty

WriteFails ==
    /\ pc \in {"opening", "writing"}
    /\ Fault
    /\ report' = "failed"
    /\ IF InSession
       THEN /\ dirty' = DirtyAfterFailure
            /\ pc' = "prompt"
            /\ written' = 0
            /\ UNCHANGED <<command, memory, k, quitting, acked>>
       ELSE NoProcess
    /\ UNCHANGED <<file, last, stored>>

----------------------------------------------------------------------------
(* The other commands of the session, and signals.                         *)

(* k <n>: strtol, a test, and a conversion to uint32_t.                    *)
SetK(v) ==
    /\ pc = "prompt"
    /\ v > 0
    /\ k' = v % KValues
    /\ UNCHANGED <<file, command, pc, memory, written, dirty, quitting, acked, faults, history>>

(* in_readline: on_sigint jumps to the prompt, or does nothing.            *)
AlwaysInReadline == command = "repl"
InReadline == pc = "prompt"

CtrlC ==
    /\ InReadline
    /\ pc' = "prompt"
    /\ UNCHANGED <<file, command, memory, written, session, faults, history>>

(* The process is killed.                                                  *)
Kill ==
    /\ command # "none"
    /\ Fault
    /\ NoProcess
    /\ report' = "killed"
    /\ UNCHANGED <<file, last, stored>>

----------------------------------------------------------------------------
Commands == {"add", "addfile", "repl"}

Next == \/ Create
        \/ \E c \in Commands : Load(c)
        \/ \E text \in Texts : Add(text)
        \/ AddNoMemory \/ EndOfText
        \/ BuildIndex \/ BuildIndexNoMemory
        \/ Save \/ Quit
        \/ OpenForWriting \/ WritePart \/ WriteDone \/ WriteFails
        \/ \E v \in KInputs : SetK(v)
        \/ CtrlC \/ Kill

Spec == Init /\ [][Next]_vars

----------------------------------------------------------------------------
(* What must hold of a store.                                              *)

(* store.h:95: vdb_write writes an entire dataset, vdb_load loads an       *)
(* entire dataset.  Wherever a kill or a failed write cut the file, it is  *)
(* refused or it is the dataset that was being written; after a write that *)
(* succeeded it is not refused.                                            *)
LoadAllOrNothing == /\ Loads(file) => Loaded(file) = last
                    /\ report = "ok" => Loads(file)

(* repl.c:169-175 "No changes to save": while dirty is 0 at the prompt the *)
(* file holds every record the session said it has added.                  *)
CleanMeansStored ==
    pc = "prompt" /\ ~dirty =>
        /\ Loads(file)
        /\ IsPrefix(SubSeq(data.texts, 1, acked), StoredTexts(file))

(* A store that cannot be opened any more was reported: a save or a        *)
(* command said that it failed, or the process was killed.  A Ctrl-C never *)
(* does it (repl.c:15-17).                                                 *)
TornFileReported ==
    (pc = "prompt" \/ command = "none") /\ ~Loads(file) =>
        report \in {"absent", "failed", "killed"}

Indexed(d) ==
    /\ IsPrefix(d.idf, d.texts)
    /\ d.vectors = [i \in DOMAIN d.texts |->
                      IF i <= Len(d.idf) THEN EmbedTfidf(d.texts[i], d.idf)
                                         ELSE EmbedTf(d.texts[i])]

(* The weights are those of a first part of the corpus, all its vectors    *)
(* are embedded with them, and those after it (a record whose index ran    *)
(* out of memory) are plain TF; in memory and in a file that loads.        *)
IndexOfPrefix == /\ Indexed(data)
                 /\ Loads(file) => Indexed(Loaded(file))

(* store.c:224: the arrays are never left smaller than the capacity says,  *)
(* so no record is put beyond the end of either.                           *)
RoomForRecords == /\ Len(data.texts) <= cap
                  /\ cap <= room.vectors
                  /\ cap <= room.payloads

(* Adding, saving, failing and being killed never lose a record of a file  *)
(* that was complete and still can be written again: the next complete     *)
(* file starts with the same records.  Only create empties a store.        *)
StoredOnlyGrows == [][command # "create" => IsPrefix(stored, stored')]_vars

(* README.md: "Ctrl-D (or quit) exits, auto-saving any unsaved additions". *)
(* A session that ends by itself, with no write that failed, leaves every  *)
(* record it had in the file.                                              *)
ExitSavesAdditions ==
    [][command = "repl" /\ command' = "none" /\ report' \in {"none", "ok"} =>
          IsPrefix(data.texts, StoredTexts(file'))]_vars
=============================================================================
