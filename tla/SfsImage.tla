------------------------------ MODULE SfsImage ------------------------------
(***************************************************************************)
(* A disk image of p3 and how the four programs read it                    *)
(* (p3/sfs_common.c, p3/diskget.c): fat is the file allocation table, and  *)
(* block what each block holds -- the entries of a directory block, the    *)
(* bytes of a file block.  Blocks 0 and 1 are the superblock and the FAT.  *)
(***************************************************************************)
EXTENDS Integers, SequencesExt

CONSTANTS
    NBlocks,               \* sb->block_count
    BlockSize,             \* bytes of a block
    EntriesPerBlock,       \* directory entries of a block
    EntrySize,             \* DIR_ENTRY_SIZE
    InUseBytes             \* the bytes in which STATUS_IN_USE is set

ASSUME ImageAssumption == /\ NBlocks \in Nat /\ NBlocks > 2
                          /\ BlockSize \in Nat \ {0}
                          /\ EntriesPerBlock \in Nat \ {0}
                          /\ EntrySize \in Nat \ {0}
                          /\ EntriesPerBlock * EntrySize <= BlockSize
                          /\ <<>> \notin InUseBytes

Blocks   == 0..(NBlocks - 1)
Root     == 2              \* sb->root_start
FREE     == 0
RESERVED == 1
EOF      == -1

Slots    == 0..(EntriesPerBlock - 1)
NoEntry  == [inUse |-> FALSE]
EmptyDir == [s \in Slots |-> NoEntry]
FileEntry(name, start, n, size) ==
    [inUse |-> TRUE, dir |-> FALSE, name |-> name, start |-> start, blocks |-> n, size |-> size]
DirectoryEntry(name, start) ==
    [inUse |-> TRUE, dir |-> TRUE, name |-> name, start |-> start, blocks |-> 1, size |-> 0]

(* The free blocks in ascending order, of which find_free_blocks takes the *)
(* first ones: those below n.                                              *)
FreeBlocks(fat) ==
    LET below[n \in 0..NBlocks] ==
            IF n = 0 THEN <<>>
            ELSE below[n - 1] \o IF fat[n - 1] = FREE THEN <<n - 1>> ELSE <<>>
    IN  below[NBlocks]

(* follow_chain: as many blocks as there can be, up to the end mark.       *)
FollowChain(fat, start) ==
    LET from[cap \in 0..NBlocks] ==
            [b \in Blocks \cup {EOF} |->
                IF b = EOF \/ cap = 0 THEN <<>> ELSE <<b>> \o from[cap - 1][fat[b]]]
    IN  from[NBlocks][start]

(* The entries of a directory, in the order they are looked at.            *)
Places(fat, start) ==
    LET chain == FollowChain(fat, start)
    IN  [j \in 1..(Len(chain) * EntriesPerBlock) |->
            [block |-> chain[((j - 1) \div EntriesPerBlock) + 1],
             index |-> (j - 1) % EntriesPerBlock]]

(* A block holds either the entries of a directory or bytes.  Bytes read   *)
(* as a directory have an entry in use wherever the byte in the place of a *)
(* status has that bit set: nobody's entry, which no path names, or one    *)
(* that was written over the bytes.  What is not written of a block is     *)
(* zero.  Entries read as a file are bytes that no file has.               *)
HoldsEntries(contents) == DOMAIN contents = Slots
Foreign      == FileEntry(<<>>, EOF, 0, 0)
ForeignBytes == [i \in 1..BlockSize |-> <<>>]
Status(index) == index * EntrySize + 1

EntryIn(contents, index) ==
    IF HoldsEntries(contents) THEN contents[index]
    ELSE IF Status(index) \notin DOMAIN contents THEN NoEntry
    ELSE LET byte == contents[Status(index)]
         IN  IF Len(byte) = 1 THEN byte[1]
             ELSE IF byte \in InUseBytes THEN Foreign ELSE NoEntry

EntryAt(block, place) == EntryIn(block[place.block], place.index)
BytesOf(contents) == IF HoldsEntries(contents) THEN ForeignBytes ELSE contents

(* write_dir_entry: the bytes of the place give way to those of the entry. *)
WithEntry(contents, index, entry) ==
    IF HoldsEntries(contents) THEN [contents EXCEPT ![index] = entry]
    ELSE [i \in 1..BlockSize |->
             IF i = Status(index) THEN <<entry>>
             ELSE IF i \in Status(index)..(Status(index) + EntrySize - 1) THEN <<>>
             ELSE IF i \in DOMAIN contents THEN contents[i] ELSE <<>>]

(* A search through a directory stops at the first place it looks for, and *)
(* passes over the blocks it could not read: a sequence of at most one.    *)
FirstPlace(fat, start, unread, Wanted(_)) ==
    LET places == Places(fat, start)
        hits == {j \in DOMAIN places : places[j].block \notin unread /\ Wanted(places[j])}
    IN  IF hits = {} THEN <<>> ELSE <<places[Min(hits)]>>

(* dir_find: the first entry in use that has the name, if there is one.    *)
NamedReading(fat, block, start, name, unread) ==
    LET there(place) == LET e == EntryAt(block, place) IN e.inUse /\ e.name = name
        found == FirstPlace(fat, start, unread, there)
    IN  IF found = <<>> THEN NoEntry ELSE EntryAt(block, found[1])

Named(fat, block, start, name) == NamedReading(fat, block, start, name, {})

(* dir_find_free_slot: the first entry that is not in use, if there is one. *)
AnySlot(fat, block, start, unread) == FirstPlace(fat, start, unread, LAMBDA place : TRUE)
FreeSlot(fat, block, start, unread) ==
    FirstPlace(fat, start, unread, LAMBDA place : ~EntryAt(block, place).inUse)

(* resolve_dir: the start of the directory each component leads to, or EOF. *)
ResolveDir(fat, block, comps) ==
    LET current[i \in 0..Len(comps)] ==
            IF i = 0 THEN Root
            ELSE IF current[i - 1] = EOF THEN EOF
            ELSE LET e == Named(fat, block, current[i - 1], comps[i])
                 IN  IF e.inUse /\ e.dir THEN e.start ELSE EOF
    IN  current[Len(comps)]

(* extract_file: what is left of the size, block after block.              *)
Extract(fat, block, e) ==
    LET chain == FollowChain(fat, e.start)
        bytes == FlattenSeq([i \in DOMAIN chain |-> BytesOf(block[chain[i]])])
    IN  SubSeq(bytes, 1, IF e.size < Len(bytes) THEN e.size ELSE Len(bytes))

(* diskget: the file of a path, as a set of at most one.                   *)
Get(fat, block, path) ==
    LET dir == ResolveDir(fat, block, Front(path))
        e   == IF dir = EOF THEN NoEntry ELSE Named(fat, block, dir, Last(path))
    IN  IF e.inUse /\ ~e.dir THEN {Extract(fat, block, e)} ELSE {}

(* disklist: a line for each entry in use of a directory, if there is one. *)
PrintEntry(e) == [dir |-> e.dir, name |-> e.name, size |-> e.size]

ListDir(fat, block, path) ==
    LET start  == ResolveDir(fat, block, path)
        places == IF start = EOF THEN <<>> ELSE Places(fat, start)
        used   == SelectSeq(places, LAMBDA place : EntryAt(block, place).inUse)
    IN  [i \in DOMAIN used |-> PrintEntry(EntryAt(block, used[i]))]

(* diskinfo's counters.                                                    *)
CountFat(fat) ==
    LET counted(mark) == Cardinality({b \in Blocks : fat[b] = mark})
    IN  [free      |-> counted(FREE),
         reserved  |-> counted(RESERVED),
         allocated |-> NBlocks - counted(FREE) - counted(RESERVED)]
=============================================================================
