------------------------------ MODULE Diskput ------------------------------
(***************************************************************************)
(* diskput (p3/diskput.c): a file of the host is copied into an image that *)
(* later runs of diskput change again and diskget (SfsImage!Get) reads.    *)
(* One program at a time works on an image.  Between two decisions of the  *)
(* program its writes reach the image one by one in program order; it may  *)
(* be killed between any two, and a write may fail.  A search through a    *)
(* directory may fail to read blocks of it, or find no memory to read them *)
(* into, and then passes over what is there.                               *)
(***************************************************************************)
EXTENDS SfsImage

CONSTANTS
    Names,                 \* path components
    FileIds, FileSizes,    \* the files of the host, and their sizes
    MaxDepth,              \* components of the longest path
    MaxKills,
    MaxFailures            \* writes, searches and allocations that fail

ASSUME DiskputAssumption == /\ MaxDepth \in Nat \ {0}
                            /\ MaxKills \in Nat /\ MaxFailures \in Nat
                            /\ FileSizes \subseteq Nat

(* split_path finds no component that is empty.                            *)
ASSUME NamesAssumption == <<>> \notin Names

(* The files of the host: byte i of a file is told from any other byte.    *)
Contents == {[i \in 1..n |-> <<id, n, i>>] : id \in FileIds, n \in FileSizes}

Paths == UNION {[1..n -> Names] : n \in 1..MaxDepth}

VARIABLES
    fat,       \* the FAT in the image
    block,     \* the blocks of the image
    pc,        \* where diskput is
    mem,       \* its copy of the FAT
    path,      \* the components of its third argument
    data,      \* the file it copies
    comp,      \* resolve_or_create_dir's i
    dir,       \* and its current
    todo,      \* the writes it makes before it decides again
    after,     \* and what it does then
    files,     \* history: what diskget finds at each path
    rc,        \* history: how the last diskput ended
    failedOnce, \* history: some diskput failed or was killed
    lost,      \* history: a write failed and nobody noticed
    skipped,   \* history: a free entry was passed over
    torn,      \* history: how the first diskput ended that left the image torn,
               \* and what diskget found then: a sequence of at most one
    kills,     \* history: how many were killed
    failures   \* history: how many writes, searches and allocations failed

image   == <<fat, block, files>>
program == <<pc, mem, path, data, comp, dir, todo, after>>
history == <<rc, failedOnce, lost, skipped, torn, kills, failures>>
vars == <<image, program, history>>

(* A formatted image: nothing but an empty root directory.  The superblock, *)
(* the FAT and the blocks that are free hold bytes of nobody's.            *)
Unwritten(b) == [i \in 1..BlockSize |-> <<b, i, 0>>]

Init == /\ fat = [b \in Blocks |-> IF b < Root THEN RESERVED
                                   ELSE IF b = Root THEN EOF ELSE FREE]
        /\ block = [b \in Blocks |-> IF b = Root THEN EmptyDir ELSE Unwritten(b)]
        /\ files = [p \in Paths |-> {}]
        /\ pc = "none"
        /\ mem = [b \in Blocks |-> FREE]
        /\ path = <<>>
        /\ data = <<>>
        /\ comp = 0
        /\ dir = EOF
        /\ todo = <<>>
        /\ after = [do |-> "nothing"]
        /\ rc = "none"
        /\ failedOnce = FALSE
        /\ lost = FALSE
        /\ skipped = FALSE
        /\ torn = <<>>
        /\ kills = 0
        /\ failures = 0

(* A write: what, where, and whether the program looks at its result.      *)
FatWrite(b, value, checked) == [op |-> "fat", at |-> b, value |-> value, checked |-> checked]
BlockWrite(b, bytes, checked) == [op |-> "block", at |-> b, bytes |-> bytes, checked |-> checked]
EntryWrite(place, entry) == [op |-> "entry", at |-> place, entry |-> entry, checked |-> TRUE]

----------------------------------------------------------------------------
(* What the program decides.  f is its FAT in memory, which each decision  *)
(* updates before the image is written.                                    *)

(* The blocks of the current directory that a search could not read: none, *)
(* all of them, or all but the one it finds something in, for whether it   *)
(* reads those after that one makes no difference.                         *)
Unread(f) ==
    LET chain == ToSet(FollowChain(f, dir))
    IN  {{}} \cup IF failures < MaxFailures THEN {chain} \cup {chain \ {b} : b \in chain} ELSE {}

Here  == Named(mem, block, dir, path[comp])
Found == {NamedReading(mem, block, dir, path[comp], unread) : unread \in Unread(mem)}

Fails(seen, there) == IF seen = there THEN 0 ELSE 1
Spend(n) == failures + n <= MaxFailures /\ failures' = failures + n

(* dir_get_slot: a free entry, in a new block at the end of the directory  *)
(* if none is found in it; the results of its writes are not looked at.  A *)
(* chain that has no end is followed for ever.                             *)
NewBlockUnended(f, last, new) == [f EXCEPT ![last] = new, ![new] = FREE]
NewBlockEnded(f, last, new) == [f EXCEPT ![last] = new, ![new] = EOF]

SlotPlan(f, contents, unread) ==
    LET free == FreeSlot(f, contents, dir, unread)
        new  == FreeBlocks(f)
        last == Last(FollowChain(f, dir))
    IN  CASE free # <<>> -> [ok |-> TRUE, at |-> free[1], fat |-> f, writes |-> <<>>]
          [] free = <<>> /\ new # <<>> /\ f[last] # EOF ->
                [ok |-> FALSE, do |-> "loop", fat |-> f, writes |-> <<>>]
          [] free = <<>> /\ new # <<>> /\ f[last] = EOF ->
                LET g == NewBlockEnded(f, last, new[1])
                IN  [ok     |-> TRUE,
                     at     |-> [block |-> new[1], index |-> 0],
                     fat    |-> g,
                     writes |-> <<FatWrite(last, g[last], FALSE),
                                  FatWrite(new[1], g[new[1]], FALSE),
                                  BlockWrite(new[1], EmptyDir, FALSE)>>]
          [] OTHER -> [ok |-> FALSE, do |-> "fail", fat |-> f, writes |-> <<>>]

(* The blocks when the writes are made.                                    *)
Written(writes) ==
    [b \in Blocks |->
        LET own == {k \in DOMAIN writes : writes[k].op = "block" /\ writes[k].at = b}
        IN  IF own = {} THEN block[b] ELSE writes[CHOOSE k \in own : TRUE].bytes]

AllRead(f, writes)   == SlotPlan(f, Written(writes), {})
SlotPlans(f, writes) == {SlotPlan(f, Written(writes), unread) : unread \in Unread(f)}

(* The entry is written when what it leads to has been.                    *)
EntryFirst(writes, entry) == entry \o writes
InOrder(writes, entry) == writes \o entry

(* The writes so far, then the entry e in the current directory, and what  *)
(* comes next; or a failure when the directory cannot take it.             *)
Link(f, slot, writes, e, next) ==
    /\ pc' = "writing"
    /\ mem' = slot.fat
    /\ todo' = IF slot.ok
               THEN InOrder(writes \o slot.writes, <<EntryWrite(slot.at, e)>>)
               ELSE writes
    /\ after' = IF slot.ok THEN next ELSE [do |-> slot.do]
    /\ skipped' = (skipped \/ slot # AllRead(f, writes))

(* create_dir(name) in the current directory.                              *)
TakenLater(b) == mem
Taken(b) == [mem EXCEPT ![b] = EOF]

CreateDir(name, failed) ==
    LET b == FreeBlocks(mem)[1]
        f == Taken(b)
        writes == <<BlockWrite(b, EmptyDir, TRUE), FatWrite(b, EOF, TRUE)>>
    IN  /\ FreeBlocks(mem) # <<>>
        /\ \E slot \in SlotPlans(f, writes) :
              /\ Spend(failed + Fails(slot, AllRead(f, writes)))
              /\ Link(f, slot, writes,
                      DirectoryEntry(name, b), [do |-> "descend", start |-> b])

(* put_file(name): the blocks are chained, then filled, then linked.       *)
Needed == IF data = <<>> THEN 1 ELSE (Len(data) + BlockSize - 1) \div BlockSize
Chunk(k) ==
    SubSeq(data, (k - 1) * BlockSize + 1, IF k = Needed THEN Len(data) ELSE k * BlockSize)

NextOfNone(blocks, k) == EOF
NextOf(blocks, k) == IF k < Len(blocks) THEN blocks[k + 1] ELSE EOF

FileBlocks == SubSeq(FreeBlocks(mem), 1, Needed)
Chained(blocks) ==
    LET own(b) == CHOOSE k \in 1..Needed : blocks[k] = b
    IN  [b \in Blocks |-> IF b \in ToSet(blocks) THEN NextOf(blocks, own(b)) ELSE mem[b]]
ChainWrites(blocks) ==
    [k \in 1..Needed |-> FatWrite(blocks[k], Chained(blocks)[blocks[k]], FALSE)]

PutFile(name) ==
    LET f == Chained(FileBlocks)
        writes == ChainWrites(FileBlocks) \o
                  [k \in 1..Needed |-> BlockWrite(FileBlocks[k], Chunk(k), TRUE)]
    IN  /\ Len(FreeBlocks(mem)) >= Needed
        /\ \E slot \in SlotPlans(f, writes) :
              /\ Spend(Fails(slot, AllRead(f, writes)))
              /\ Link(f, slot, writes,
                      FileEntry(name, FileBlocks[1], Needed, Len(data)), [do |-> "succeed"])

----------------------------------------------------------------------------
(* The reachable part of the image, as the FAT on disk has it.             *)

EntriesOf(start) ==
    LET places == Places(fat, start)
    IN  {places[j] : j \in {i \in DOMAIN places : EntryAt(block, places[i]).inUse}}

DirsAt[depth \in 0..(MaxDepth - 1)] ==
    IF depth = 0 THEN {Root}
    ELSE {EntryAt(block, p).start :
             p \in {q \in UNION {EntriesOf(d) : d \in DirsAt[depth - 1]} : EntryAt(block, q).dir}}

Linked == UNION {EntriesOf(d) : d \in UNION {DirsAt[n] : n \in 0..(MaxDepth - 1)}}

ChainOf(place) == FollowChain(fat, EntryAt(block, place).start)
RootChain == FollowChain(fat, Root)

(* A chain runs on into a block that is not in use.                        *)
RunsOn(chain) == \E i \in DOMAIN chain : fat[chain[i]] \in {FREE, RESERVED}
Torn == RunsOn(RootChain) \/ \E p \in Linked : RunsOn(ChainOf(p))

----------------------------------------------------------------------------
(* A diskput.                                                              *)

NoDiskput == /\ pc' = "none"
             /\ mem' = [b \in Blocks |-> FREE]
             /\ path' = <<>>
             /\ data' = <<>>
             /\ comp' = 0
             /\ dir' = EOF
             /\ todo' = <<>>
             /\ after' = [do |-> "nothing"]

Ended(how) == /\ rc' = how
              /\ failedOnce' = (failedOnce \/ how # "ok")
              /\ torn' = IF torn = <<>> /\ Torn
                         THEN <<[how |-> how, files |-> files]>> ELSE torn
              /\ NoDiskput

(* fs_open reads the FAT, and looks no closer at the image.                *)
Start(p, content) ==
    /\ pc = "none"
    /\ pc' = "deciding"
    /\ mem' = fat
    /\ path' = p
    /\ data' = content
    /\ comp' = 1
    /\ dir' = Root
    /\ rc' = "none"
    /\ UNCHANGED <<image, todo, after, failedOnce, lost, skipped, torn, kills, failures>>

AtFile == comp = Len(path)

(* resolve_or_create_dir finds the next component ...                      *)
Descend ==
    /\ pc = "deciding" /\ ~AtFile
    /\ \E e \in Found :
          /\ e.inUse /\ e.dir
          /\ Spend(Fails(e, Here))
          /\ dir' = e.start
    /\ comp' = comp + 1
    /\ UNCHANGED <<image, pc, mem, path, data, todo, after, rc, failedOnce, lost, skipped, torn, kills>>

(* ... or makes it when it does not, for whatever reason, ...              *)
MakeDir ==
    /\ pc = "deciding" /\ ~AtFile
    /\ NoEntry \in Found
    /\ CreateDir(path[comp], Fails(NoEntry, Here))
    /\ UNCHANGED <<image, path, data, comp, dir, rc, failedOnce, lost, torn, kills>>

(* ... and then the file is put there.                                     *)
PutThere ==
    /\ pc = "deciding" /\ AtFile
    /\ PutFile(path[comp])
    /\ UNCHANGED <<image, path, data, comp, dir, rc, failedOnce, lost, torn, kills>>

(* A component is a file, or there are not enough free blocks, or no memory *)
(* for put_file to list them in.                                           *)
Refused ==
    /\ pc = "deciding"
    /\ \/ \E e \in Found :
             /\ ~AtFile
             /\ IF e.inUse THEN ~e.dir ELSE FreeBlocks(mem) = <<>>
             /\ Spend(Fails(e, Here))
       \/ AtFile /\ IF Len(FreeBlocks(mem)) < Needed THEN Spend(0) ELSE Spend(1)
    /\ Ended("failed")
    /\ UNCHANGED <<image, lost, skipped, kills>>

(* The buffer for the blocks cannot be allocated: put_file has its chain   *)
(* written before it looks.  (create_dir looks first, and fails as it does *)
(* when the write of the new directory's block fails.)                     *)
NoBuffer ==
    /\ pc = "deciding" /\ AtFile
    /\ Len(FreeBlocks(mem)) >= Needed
    /\ Spend(1)
    /\ pc' = "writing"
    /\ mem' = Chained(FileBlocks)
    /\ todo' = ChainWrites(FileBlocks)
    /\ after' = [do |-> "fail"]
    /\ UNCHANGED <<image, path, data, comp, dir, rc, failedOnce, lost, skipped, torn, kills>>

(* The next write reaches the image.                                       *)
FatAfter(w) == IF w.op = "fat" THEN [fat EXCEPT ![w.at] = w.value] ELSE fat
BlockAfter(w) ==
    CASE w.op = "fat"   -> block
      [] w.op = "block" -> [block EXCEPT ![w.at] = w.bytes]
      [] w.op = "entry" ->
            [block EXCEPT ![w.at.block] = WithEntry(@, w.at.index, w.entry)]

Write ==
    LET w == Head(todo)
    IN  /\ pc = "writing" /\ todo # <<>>
        /\ fat' = FatAfter(w)
        /\ block' = BlockAfter(w)
        /\ files' = [p \in Paths |-> Get(FatAfter(w), BlockAfter(w), p)]
        /\ todo' = Tail(todo)
        /\ UNCHANGED <<pc, mem, path, data, comp, dir, after, history>>

(* The writes of a decision are made.                                      *)
Proceed ==
    /\ pc = "writing" /\ todo = <<>> /\ after.do # "loop"
    /\ IF after.do = "descend"
       THEN /\ pc' = "deciding"
            /\ dir' = after.start
            /\ comp' = comp + 1
            /\ after' = [do |-> "nothing"]
            /\ UNCHANGED <<mem, path, data, todo, rc, failedOnce, torn>>
       ELSE Ended(IF after.do = "succeed" THEN "ok" ELSE "failed")
    /\ UNCHANGED <<image, lost, skipped, kills, failures>>

(* A write fails.  What the program has written goes out when it seeks for *)
(* its next write, and with it that one fails, too.  It looks, and ends ... *)
WriteFails ==
    /\ pc = "writing" /\ todo # <<>>
    /\ Head(todo).checked \/ (Len(todo) > 1 /\ todo[2].checked)
    /\ Spend(1)
    /\ Ended("failed")
    /\ UNCHANGED <<image, lost, skipped, kills>>

(* ... or it does not look, and goes on: when it looks at neither of the   *)
(* results, when a search of the directory is in between and meets the     *)
(* failure, or when it has nothing more to write, for main does not look   *)
(* at fclose's result.                                                     *)
Unnoticed(n) ==
    todo[n].checked =>
        n = 1 /\ (Len(todo) > 1 /\ todo[2].checked => todo[2].op = "entry")

WriteLost ==
    /\ pc = "writing"
    /\ \E n \in 1..2 :
          /\ n <= Len(todo)
          /\ Unnoticed(n)
          /\ todo' = SubSeq(todo, n + 1, Len(todo))
    /\ Spend(1)
    /\ lost' = TRUE
    /\ UNCHANGED <<image, pc, mem, path, data, comp, dir, after, rc, failedOnce, skipped, torn, kills>>

Kill ==
    /\ pc # "none"
    /\ kills < MaxKills
    /\ kills' = kills + 1
    /\ Ended("killed")
    /\ UNCHANGED <<image, lost, skipped, failures>>

(* Nothing is done with the image any more, or diskput follows a chain     *)
(* without an end.                                                         *)
LeftAlone == (pc = "none" \/ after.do = "loop") /\ UNCHANGED vars

Next == \/ \E p \in Paths, content \in Contents : Start(p, content)
        \/ Descend \/ MakeDir \/ PutThere \/ Refused \/ NoBuffer
        \/ Write \/ Proceed \/ WriteFails \/ WriteLost \/ Kill \/ LeftAlone

Spec == Init /\ [][Next]_vars

----------------------------------------------------------------------------
(* What must hold of an image.                                             *)

(* No block is in two places: the chains of the root, of every directory   *)
(* and of every file have no block twice and no block in common, and each  *)
(* is as long as its entry says; a directory's is at least that long.      *)
(* (Not so once a diskput has left the image torn: fs_open takes it as it  *)
(* is, and the next file gets the block that a directory runs into.)       *)
ChainsSound ==
    ~Torn /\ torn = <<>> =>
        /\ \A p \in Linked :
              /\ IsInjective(ChainOf(p))
              /\ IF EntryAt(block, p).dir
                 THEN Len(ChainOf(p)) >= EntryAt(block, p).blocks
                 ELSE Len(ChainOf(p)) = EntryAt(block, p).blocks
              /\ ToSet(ChainOf(p)) \cap ToSet(RootChain) = {}
        /\ \A p, q \in Linked : p # q => ToSet(ChainOf(p)) \cap ToSet(ChainOf(q)) = {}

(* No entry leads into a free block: a file is linked after its chain is   *)
(* complete.  Only a directory being extended runs on for a moment         *)
(* (sfs_common.c:466-467), and of all the ways in which a diskput may end  *)
(* only a kill just there leaves the image so, or a lost write.            *)
TornOnlyByKill ==
    /\ torn # <<>> => torn[1].how = "killed" \/ lost
    /\ Torn /\ torn = <<>> /\ ~lost =>
          /\ pc = "writing"
          /\ \A p \in Linked : RunsOn(ChainOf(p)) => EntryAt(block, p).dir

Reachable == ToSet(RootChain) \cup UNION {ToSet(ChainOf(p)) : p \in Linked}

(* A diskput that succeeds uses up no block that it does not link, unless  *)
(* a write of it was lost: the allocated blocks diskinfo counts are those  *)
(* of the root and of what is linked below it.                             *)
SuccessLeaksNothing ==
    CountFat(fat).allocated # Cardinality(Reachable) => pc = "writing" \/ failedOnce \/ lost

(* The promise about paths, with the image hidden behind diskget.          *)
Files == INSTANCE FileMap

(* The image, read by diskget, is a map from paths to files: a put shows   *)
(* all of its file at once, and nothing else changes, whatever is killed   *)
(* or fails, until a write is lost, a free entry is passed over, or a kill *)
(* leaves the image torn.                                                  *)
PutIsAtomic == Files!FMInit /\ [][Files!FMNext \/ lost \/ skipped \/ torn # <<>>]_files

(* A file that diskget finds is never changed and never lost by a later    *)
(* diskput, even one that is killed, loses a write, or does not find a     *)
(* directory that is there and makes it again.  On an image that was left  *)
(* torn this holds of the files that were there when it tore, but not of   *)
(* those put into it later.  (Where a search has passed over a free entry, *)
(* what is put there later comes before the others.)                       *)
KeptFrom(p) == torn = <<>> \/ (~lost /\ torn[1].files[p] # {})
FilesKept ==
    [][\A p \in Paths : files[p] # {} /\ KeptFrom(p) => files'[p] = files[p] \/ skipped]_files

(* The same of all that disklist shows of a directory, in its order:       *)
(* directories, and files that diskget does not find because an entry of   *)
(* that name comes first; on an image that a kill has left torn, too.      *)
(* (What an unwritten block of a directory shows is nobody's entry.)       *)
Directories == UNION {[1..n -> Names] : n \in 0..(MaxDepth - 1)}
Listing(f, contents, d) ==
    SelectSeq(ListDir(f, contents, d), LAMBDA line : line # PrintEntry(Foreign))

EntriesKept ==
    [][\/ UNCHANGED <<fat, block>>
       \/ skipped
       \/ torn # <<>> /\ lost
       \/ \A d \in Directories : IsPrefix(Listing(fat, block, d), Listing(fat', block', d))]_vars

(* p3/README.md: "copying them back out with diskget and checking the      *)
(* sha1sum matches the original".                                          *)
PutThenGet == [][pc # "none" /\ rc' = "ok" => files[path] = {data}]_vars

(* p3/README.md: "All programs return 0 on success and non-zero on         *)
(* failure": a diskput that returns 0 has written all it had to write.     *)
SuccessIsWritten == rc = "ok" => ~lost
=============================================================================
