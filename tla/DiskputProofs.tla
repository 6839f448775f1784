--------------------------- MODULE DiskputProofs ---------------------------
(***************************************************************************)
(* What diskput (p3/diskput.c, p3/sfs_common.c) does to an image of any    *)
(* size, for any names, files and paths, over any number of runs, with     *)
(* kills and failing searches, allocations and writes between any two.     *)
(*                                                                         *)
(* The invariant is about the FAT in memory, mem, which a decision changes *)
(* before anything is written: with it the image is in good order (Sound)  *)
(* at every step, and the image's own FAT lags behind it by exactly the    *)
(* writes in todo (Ahead).  Those go to free blocks, but for the two that  *)
(* extend the current directory (Extending), and the entry comes last      *)
(* (Linking).  So what is on disk is in good order too, but between those  *)
(* two writes, where one directory runs on into a free block (Overrun).  A *)
(* kill just there leaves the image torn, and with that the invariant      *)
(* ends: the next diskput may take the free block for its file.            *)
(*                                                                         *)
(* A decision is a plan (OwnPlan): free blocks it takes, chained in mem,   *)
(* and the writes that put the chain and the bytes down.  SlotLinks shows  *)
(* once for create_dir and put_file what linking a plan does.              *)
(*                                                                         *)
(* That no block is lost to an image (Tidy) is about the same plans: the   *)
(* blocks marked as used are those of the chains, and those that the plan  *)
(* under way is about to link.                                             *)
(*                                                                         *)
(* What diskget finds (Shown) is about names: no directory has an entry    *)
(* behind a free place, the way to the current directory has the names of  *)
(* the path, and the entry that goes into the first free place, as the     *)
(* last write, leads to a chain that holds all of the file.  The FAT on    *)
(* disk and that in memory show the same (DiskShows), so that only this    *)
(* write changes what is found, and only at the path.                      *)
(*                                                                         *)
(* All is as long as no kill has left the image torn (torn) and no write   *)
(* fails unnoticed (lost), and the last as long as no search passes over a *)
(* free entry (skipped).                                                   *)
(***************************************************************************)
EXTENDS Diskput, TLAPS, SequenceTheorems, FiniteSetTheorems, WellFoundedInduction

----------------------------------------------------------------------------
(* Chains.                                                                 *)
Fats == [Blocks -> Blocks \cup {EOF}]

LEMMA Numbers ==
    /\ NBlocks \in Nat /\ NBlocks > 2 /\ Blocks = 0..(NBlocks - 1)
    /\ EOF \notin Blocks /\ Root \in Blocks /\ FREE \in Blocks /\ RESERVED \in Blocks
    /\ FREE = 0 /\ RESERVED = 1 /\ Root = 2 /\ EOF = -1
BY ImageAssumption DEF Blocks, EOF, Root, FREE, RESERVED

LEMMA Least ==
    ASSUME NEW S \in SUBSET Nat, S # {}
    PROVE  \E m \in S : \A n \in S : m <= n
<1> DEFINE R == {ss \in Nat \X Nat : ss[1] < ss[2]}
<1>1. IsWellFoundedOn(R, Nat)
  BY NatLessThanWellFounded DEF OpToRel
<1>2. PICK m \in S : \A n \in S : ~ (<<n, m>> \in R)
  BY <1>1, WFMin
<1>3. \A n \in S : <<n, m>> \in Nat \X Nat /\ <<n, m>>[1] = n /\ <<n, m>>[2] = m
  OBVIOUS
<1>4. \A n \in S : ~(n < m)
  BY <1>2, <1>3
<1> QED
  BY <1>4

(* The function of follow_chain, up to n blocks.                           *)
IsFollow(g, f, n) ==
    g = [cap \in 0..n |->
            [b \in Blocks \cup {EOF} |->
                IF b = EOF \/ cap = 0 THEN <<>> ELSE <<b>> \o g[cap - 1][f[b]]]]

LEMMA FollowExists ==
    ASSUME NEW f, NEW N \in Nat
    PROVE  \E g : IsFollow(g, f, N)
<1> DEFINE Bad == {n \in 0..N : ~ \E g : IsFollow(g, f, n)}
<1> SUFFICES ASSUME Bad # {} PROVE FALSE
  OBVIOUS
<1>1. PICK n \in Bad : \A m \in Bad : n <= m
  <2>1. Bad \in SUBSET Nat
    OBVIOUS
  <2> HIDE DEF Bad
  <2> QED
    BY <2>1, Least
<1>2. CASE n = 0
  <2> DEFINE g == [cap \in 0..0 |-> [b \in Blocks \cup {EOF} |-> <<>>]]
  <2>1. \A cap \in 0..0 : cap = 0
    OBVIOUS
  <2>2. g = [cap \in 0..0 |->
            [b \in Blocks \cup {EOF} |->
                IF b = EOF \/ cap = 0 THEN <<>> ELSE <<b>> \o g[cap - 1][f[b]]]]
    BY <2>1
  <2>3. IsFollow(g, f, 0)
    BY <2>2 DEF IsFollow
  <2> QED
    BY <1>2, <2>3
<1>3. CASE n # 0
  <2>1. n \in 1..N /\ n - 1 \in 0..N /\ ~(n <= n - 1)
    BY <1>3
  <2>2. PICK g : IsFollow(g, f, n - 1)
    <3>1. n - 1 \notin Bad
      BY <1>1, <2>1
    <3> QED
      BY <2>1, <3>1
  <2> DEFINE top == [b \in Blocks \cup {EOF} |-> IF b = EOF THEN <<>> ELSE <<b>> \o g[n - 1][f[b]]]
             h == [cap \in 0..n |-> IF cap = n THEN top ELSE g[cap]]
             Row(k, cap) == [b \in Blocks \cup {EOF} |->
                               IF b = EOF \/ cap = 0 THEN <<>> ELSE <<b>> \o k[cap - 1][f[b]]]
  <2>3. \A cap \in 0..(n - 1) : g[cap] = Row(g, cap)
    BY <2>2 DEF IsFollow
  <2>4. ASSUME NEW cap \in 0..n PROVE h[cap] = Row(h, cap)
    <3>1. CASE cap = n
      <4>1. h[n] = top /\ h[n - 1] = g[n - 1]
        BY <2>1
      <4> HIDE DEF h
      <4> QED
        BY <1>3, <3>1, <4>1
    <3>2. CASE cap # n
      <4>1. cap \in 0..(n - 1) /\ h[cap] = g[cap]
        BY <2>1, <3>2
      <4>2. cap # 0 => h[cap - 1] = g[cap - 1]
        BY <2>1, <3>2
      <4>3. g[cap] = Row(g, cap)
        BY <2>3, <4>1
      <4> HIDE DEF h
      <4>4. Row(h, cap) = Row(g, cap)
        BY <4>2
      <4> QED
        BY <4>1, <4>3, <4>4
    <3> QED
      BY <3>1, <3>2
  <2>5. h = [cap \in 0..n |-> Row(h, cap)]
    BY <2>4
  <2>6. IsFollow(h, f, n)
    BY <2>5 DEF IsFollow
  <2> QED
    BY <2>6
<1> QED
  BY <1>2, <1>3

(* One block at a time.                                                    *)
Walks(g, f) ==
    /\ \A b \in Blocks \cup {EOF} : g[0][b] = <<>>
    /\ \A c \in 0..NBlocks : g[c][EOF] = <<>>
    /\ \A c \in 1..NBlocks : \A b \in Blocks : g[c][b] = <<b>> \o g[c - 1][f[b]]

LEMMA FollowWalks ==
    ASSUME NEW f
    PROVE  \E g : Walks(g, f) /\ \A b : FollowChain(f, b) = g[NBlocks][b]
<1> DEFINE g == CHOOSE g : IsFollow(g, f, NBlocks)
<1>1. IsFollow(g, f, NBlocks)
  BY FollowExists, Numbers
<1>2. \A b : FollowChain(f, b) = g[NBlocks][b]
  BY DEF FollowChain, IsFollow
<1> HIDE DEF g
<1>3. ASSUME NEW c \in 0..NBlocks
      PROVE  g[c] = [b \in Blocks \cup {EOF} |->
                        IF b = EOF \/ c = 0 THEN <<>> ELSE <<b>> \o g[c - 1][f[b]]]
  BY <1>1 DEF IsFollow
<1>4. 0 \in 0..NBlocks /\ \A c \in 1..NBlocks : c \in 0..NBlocks /\ c # 0
  BY Numbers
<1>5. ASSUME NEW b \in Blocks \cup {EOF} PROVE g[0][b] = <<>>
  BY <1>3, <1>4
<1>6. ASSUME NEW c \in 0..NBlocks PROVE g[c][EOF] = <<>>
  BY <1>3
<1>7. ASSUME NEW c \in 1..NBlocks, NEW b \in Blocks PROVE g[c][b] = <<b>> \o g[c - 1][f[b]]
  <2>1. b # EOF /\ b \in Blocks \cup {EOF}
    BY Numbers
  <2>2. g[c] = [bb \in Blocks \cup {EOF} |->
                   IF bb = EOF \/ c = 0 THEN <<>> ELSE <<bb>> \o g[c - 1][f[bb]]]
    BY <1>3, <1>4
  <2>3. c # 0
    OBVIOUS
  <2> QED
    BY <2>1, <2>2, <2>3
<1>8. Walks(g, f)
  BY <1>5, <1>6, <1>7 DEF Walks
<1> QED
  BY <1>2, <1>8

LEMMA ConsSeq ==
    ASSUME NEW S, NEW b \in S, NEW t \in Seq(S), NEW n \in Nat, Len(t) = n
    PROVE  /\ <<b>> \o t \in Seq(S) /\ Len(<<b>> \o t) = n + 1
           /\ (<<b>> \o t)[1] = b
           /\ \A i \in 1..n : (<<b>> \o t)[i + 1] = t[i]
OBVIOUS

LEMMA FollowTyped ==
    ASSUME NEW f \in Fats, NEW g, Walks(g, f)
    PROVE  \A c \in 0..NBlocks : \A b \in Blocks \cup {EOF} : g[c][b] \in Seq(Blocks)
<1> DEFINE Bad == {c \in 0..NBlocks : ~ \A b \in Blocks \cup {EOF} : g[c][b] \in Seq(Blocks)}
<1> SUFFICES ASSUME Bad # {} PROVE FALSE
  OBVIOUS
<1>1. PICK c \in Bad : \A m \in Bad : c <= m
  <2>1. Bad \in SUBSET Nat
    OBVIOUS
  <2> HIDE DEF Bad
  <2> QED
    BY <2>1, Least
<1>2. PICK b \in Blocks \cup {EOF} : g[c][b] \notin Seq(Blocks)
  OBVIOUS
<1>3. <<>> \in Seq(Blocks)
  OBVIOUS
<1>4. c # 0 /\ b # EOF
  BY <1>2, <1>3 DEF Walks
<1>5. c \in 1..NBlocks /\ c - 1 \in 0..NBlocks /\ ~(c <= c - 1) /\ b \in Blocks
  BY <1>4, Numbers
<1>6. c - 1 \notin Bad
  BY <1>1, <1>5
<1>7. f[b] \in Blocks \cup {EOF}
  BY <1>5 DEF Fats
<1>8. PICK t \in Seq(Blocks) : t = g[c - 1][f[b]]
  BY <1>5, <1>6, <1>7
<1>9. g[c][b] = <<b>> \o t
  BY <1>5, <1>8 DEF Walks
<1>10. PICK n \in Nat : Len(t) = n
  BY LenProperties
<1>11. <<b>> \o t \in Seq(Blocks)
  BY <1>5, <1>10, ConsSeq
<1> QED
  BY <1>2, <1>9, <1>11

LEMMA ChainTyped ==
    ASSUME NEW f \in Fats, NEW b \in Blocks \cup {EOF}
    PROVE  FollowChain(f, b) \in Seq(Blocks)
<1>1. PICK g : Walks(g, f) /\ \A d : FollowChain(f, d) = g[NBlocks][d]
  BY FollowWalks
<1>2. NBlocks \in 0..NBlocks
  BY Numbers
<1> QED
  BY <1>1, <1>2, FollowTyped

(* Each block of s leads to the next.                                      *)
IsPath(f, s, n) ==
    /\ s \in Seq(Blocks) /\ Len(s) = n
    /\ \A i \in 1..(n - 1) : f[s[i]] = s[i + 1]

(* The last k blocks of s, as the walk finds them with c blocks to go.     *)
FoundFrom(g, f, s, n, k, c) ==
    \E t \in Seq(Blocks) :
        /\ t = g[c][s[n - k + 1]]
        /\ Len(t) >= k
        /\ \A i \in 1..k : t[i] = s[n - k + i]
        /\ f[s[n]] = EOF => Len(t) = k

LEMMA FoundAll ==
    ASSUME NEW f \in Fats, NEW g, Walks(g, f),
           NEW n \in 1..NBlocks, NEW s, IsPath(f, s, n)
    PROVE  \A k \in 1..n : \A c \in k..NBlocks : FoundFrom(g, f, s, n, k, c)
<1> DEFINE Bad == {k \in 1..n : ~ \A c \in k..NBlocks : FoundFrom(g, f, s, n, k, c)}
<1> SUFFICES ASSUME Bad # {} PROVE FALSE
  OBVIOUS
<1>1. PICK k \in Bad : \A m \in Bad : k <= m
  <2>1. Bad \in SUBSET Nat
    OBVIOUS
  <2> HIDE DEF Bad
  <2> QED
    BY <2>1, Least
<1>2. PICK c \in k..NBlocks : ~FoundFrom(g, f, s, n, k, c)
  OBVIOUS
<1>3. k \in 1..n /\ c \in 1..NBlocks /\ c - 1 \in 0..NBlocks
  BY Numbers
<1>4. PICK i \in 1..n : i = n - k + 1
  BY <1>3
<1>5. s[i] \in Blocks /\ f[s[i]] \in Blocks \cup {EOF}
  <2>1. s[i] \in Blocks
    BY <1>4, ElementOfSeq DEF IsPath
  <2> QED
    BY <2>1 DEF Fats
<1>6. PICK u \in Seq(Blocks) : u = g[c - 1][f[s[i]]]
  BY <1>3, <1>5, FollowTyped
<1>7. PICK m \in Nat : Len(u) = m
  BY LenProperties
<1>8. PICK t \in Seq(Blocks) : t = g[c][s[i]] /\ t = <<s[i]>> \o u
  <2>1. g[c][s[i]] = <<s[i]>> \o u
    BY <1>3, <1>5, <1>6 DEF Walks
  <2>2. <<s[i]>> \o u \in Seq(Blocks)
    BY <1>5, <1>7, ConsSeq
  <2> QED
    BY <2>1, <2>2
<1>9. Len(t) = m + 1 /\ t[1] = s[i] /\ \A j \in 1..m : t[j + 1] = u[j]
  BY <1>5, <1>7, <1>8, ConsSeq
<1>10. CASE k = 1
  <2>1. i = n
    BY <1>4, <1>10
  <2>2. ASSUME NEW j \in 1..k PROVE t[j] = s[n - k + j]
    <3>1. j = 1
      BY <1>10
    <3> QED
      BY <1>4, <1>9, <3>1
  <2>3. f[s[n]] = EOF => m = 0
    <3> SUFFICES ASSUME f[s[n]] = EOF PROVE m = 0
      OBVIOUS
    <3>1. f[s[i]] = EOF /\ g[c - 1][EOF] = <<>>
      BY <1>3, <2>1 DEF Walks
    <3>2. u = <<>>
      BY <1>6, <3>1
    <3>3. Len(u) = 0
      BY <3>2
    <3> QED
      BY <1>7, <3>3
  <2>4. t = g[c][s[n - k + 1]]
    BY <1>4, <1>8
  <2>5. FoundFrom(g, f, s, n, k, c)
    <3>1. Len(t) >= k /\ (f[s[n]] = EOF => Len(t) = k)
      BY <1>9, <1>10, <2>3
    <3> QED
      BY <2>2, <2>4, <3>1 DEF FoundFrom
  <2> QED
    BY <1>2, <2>5
<1>11. CASE k # 1
  <2>1. PICK l \in 1..n : l = k - 1 /\ ~(k <= l) /\ c - 1 \in l..NBlocks
    BY <1>3, <1>11
  <2>2. FoundFrom(g, f, s, n, l, c - 1)
    <3>1. l \notin Bad
      BY <1>1, <2>1
    <3> QED
      BY <2>1, <3>1
  <2>3. n - l + 1 = i + 1 /\ i \in 1..(n - 1) /\ \A j \in 1..l : n - l + j = i + j
    BY <1>4, <2>1
  <2>4. f[s[i]] = s[i + 1]
    BY <2>3 DEF IsPath
  <2>5. m >= l /\ (\A j \in 1..l : u[j] = s[i + j]) /\ (f[s[n]] = EOF => m = l)
    BY <1>6, <1>7, <2>2, <2>3, <2>4 DEF FoundFrom
  <2>6. ASSUME NEW j \in 1..k PROVE t[j] = s[n - k + j]
    <3>1. CASE j = 1
      BY <1>4, <1>9, <3>1
    <3>2. CASE j # 1
      <4>1. PICK h \in 1..l : h = j - 1
        BY <2>1, <3>2
      <4>2. h \in 1..m /\ h + 1 = j /\ i + h = n - k + j
        BY <1>4, <2>5, <4>1
      <4> QED
        BY <1>9, <2>5, <4>2
    <3> QED
      BY <3>1, <3>2
  <2>7. Len(t) >= k /\ (f[s[n]] = EOF => Len(t) = k) /\ t = g[c][s[n - k + 1]]
    BY <1>3, <1>4, <1>8, <1>9, <2>1, <2>5
  <2>8. FoundFrom(g, f, s, n, k, c)
    BY <2>6, <2>7 DEF FoundFrom
  <2> QED
    BY <1>2, <2>8
<1> QED
  BY <1>10, <1>11

(* What follow_chain returns for a path that does not end, or ends.        *)
LEMMA FollowsPath ==
    ASSUME NEW f \in Fats, NEW n \in 1..NBlocks, NEW s, IsPath(f, s, n)
    PROVE  /\ FollowChain(f, s[1]) \in Seq(Blocks)
           /\ Len(FollowChain(f, s[1])) >= n
           /\ \A i \in 1..n : FollowChain(f, s[1])[i] = s[i]
           /\ f[s[n]] = EOF => FollowChain(f, s[1]) = s
<1>1. PICK g : Walks(g, f) /\ \A d : FollowChain(f, d) = g[NBlocks][d]
  BY FollowWalks
<1>2. NBlocks \in n..NBlocks /\ n \in 1..n
  BY Numbers
<1>3. FoundFrom(g, f, s, n, n, NBlocks)
  BY <1>1, <1>2, FoundAll
<1>4. n - n + 1 = 1 /\ \A i \in 1..n : n - n + i = i
  OBVIOUS
<1>5. PICK t \in Seq(Blocks) : /\ t = FollowChain(f, s[1]) /\ Len(t) >= n
                               /\ \A i \in 1..n : t[i] = s[i]
                               /\ f[s[n]] = EOF => Len(t) = n
  BY <1>1, <1>3, <1>4 DEF FoundFrom
<1>6. ASSUME f[s[n]] = EOF PROVE t = s
  BY <1>5, <1>6, SeqEqual DEF IsPath
<1> QED
  BY <1>5, <1>6

----------------------------------------------------------------------------
(* An image in good order.                                                 *)
IsChain(f, s) ==
    /\ IsPath(f, s, Len(s)) /\ Len(s) > 0 /\ f[s[Len(s)]] = EOF
    /\ \A i \in 1..Len(s) : s[i] \notin {FREE, RESERVED}
    /\ \A i, j \in 1..Len(s) : i # j => s[i] # s[j]

(* The entries in use, and the superblock's for the root.                  *)
RootPlace   == [block |-> EOF, index |-> 0]
InUse(blk)  == {p \in [block : Blocks, index : Slots] :
                   EntryAt(blk, p).inUse /\ EntryAt(blk, p) # Foreign}
Owners(blk) == InUse(blk) \cup {RootPlace}

StartOf(blk, p) == IF p = RootPlace THEN Root ELSE EntryAt(blk, p).start
IsDir(blk, p)   == p = RootPlace \/ EntryAt(blk, p).dir
Owned(f, blk, p) == FollowChain(f, StartOf(blk, p))

Fits(e, s) == IF e.dir THEN e.blocks = 1 ELSE e.blocks = Len(s)

Sound(f, blk) ==
    /\ \A p \in Owners(blk) : IsChain(f, Owned(f, blk, p))
    /\ \A p \in InUse(blk) : Fits(EntryAt(blk, p), Owned(f, blk, p))
    /\ \A p, q \in Owners(blk) :
           p # q => ToSet(Owned(f, blk, p)) \cap ToSet(Owned(f, blk, q)) = {}

Used(f, blk) == UNION {ToSet(Owned(f, blk, p)) : p \in Owners(blk)}

(* A directory linked in another, and a way down to one.                   *)
Sub(f, blk, d, e) ==
    \E p \in InUse(blk) : /\ p.block \in ToSet(FollowChain(f, d))
                          /\ EntryAt(blk, p).dir
                          /\ EntryAt(blk, p).start = e

WayTo(f, blk, d, n) ==
    \E r \in [1..n -> Blocks] : /\ r[1] = Root /\ r[n] = d
                                /\ \A i \in 1..(n - 1) : Sub(f, blk, r[i], r[i + 1])

(* The image of a diskput that was killed between the two writes to the    *)
(* FAT that extend a directory: that one runs on into a free block.        *)
Overruns(f, s) == \E i \in DOMAIN s : f[s[i]] \in {FREE, RESERVED}

Reached(f, blk, d) ==
    \/ d = RootPlace
    \/ \E n \in 1..MaxDepth, c \in Blocks :
           WayTo(f, blk, c, n) /\ d.block \in ToSet(FollowChain(f, c))

Overrun(f, blk) ==
    /\ \E d \in Owners(blk) : IsDir(blk, d) /\ Reached(f, blk, d) /\ Overruns(f, Owned(f, blk, d))
    /\ \A p \in InUse(blk) : ~IsDir(blk, p) => ~Overruns(f, Owned(f, blk, p))

----------------------------------------------------------------------------
(* The invariant.                                                          *)
EntrySet == [inUse : {TRUE}, dir : BOOLEAN, name : Names, start : Blocks, blocks : Nat, size : Nat]

AllPlaces == [block : Blocks, index : Slots]

(* Of such a block no entry is anybody's.                                  *)
Plain(contents) == \A i \in Slots : EntryIn(contents, i) \in {NoEntry, Foreign}

IsWrite(w) ==
    \/ w.op = "fat" /\ w.at \in Blocks /\ w.value \in Blocks \cup {EOF}
    \/ w.op = "block" /\ w.at \in Blocks /\ Plain(w.bytes)
    \/ w.op = "entry" /\ w.at \in AllPlaces /\ w.entry \in EntrySet

TypeOK ==
    /\ fat \in Fats /\ mem \in Fats /\ DOMAIN block = Blocks
    /\ \A p \in InUse(block) : EntryAt(block, p) \in EntrySet
    /\ pc \in {"none", "deciding", "writing"}
    /\ todo \in Seq(ToSet(todo)) /\ \A i \in DOMAIN todo : IsWrite(todo[i])
    /\ pc # "none" => /\ path \in Paths /\ comp \in 1..Len(path)
                      /\ dir \in Blocks /\ data \in Seq(ToSet(data)) /\ data \in Contents
    /\ pc # "writing" => todo = <<>>
    /\ pc = "writing" => after.do \in {"descend", "succeed", "fail"}

(* Blocks 0 and 1 are reserved, and a free block holds no entries.         *)
Base == /\ fat[FREE] = RESERVED /\ fat[RESERVED] = RESERVED
        /\ \A p \in InUse(block) : fat[p.block] # FREE

IsFat(i)   == i \in DOMAIN todo /\ todo[i].op = "fat"
IsBlock(i) == i \in DOMAIN todo /\ todo[i].op = "block"
IsEntry(i) == i \in DOMAIN todo /\ todo[i].op = "entry"

Here0 == FollowChain(mem, dir)

(* The FAT in memory is that of the image with all of todo written.        *)
Pending(b) == \E i \in DOMAIN todo : IsFat(i) /\ todo[i].at = b

Ahead == /\ \A i, j \in DOMAIN todo : IsFat(i) /\ IsFat(j) /\ i # j => todo[i].at # todo[j].at
         /\ \A i \in DOMAIN todo : IsFat(i) => /\ todo[i].value = mem[todo[i].at]
                                               /\ todo[i].value \notin {FREE, RESERVED}
                                               /\ todo[i].at \notin {FREE, RESERVED}
         /\ \A b \in Blocks : ~Pending(b) => fat[b] = mem[b]

(* Of the blocks in use only the last two of the directory are written:    *)
(* its old last block, then the new one.                                   *)
OldLast(i) == /\ Len(Here0) > 1 /\ todo[i].at = Here0[Len(Here0) - 1]
              /\ fat[todo[i].at] = EOF
              /\ IsFat(i + 1) /\ todo[i + 1].at = Here0[Len(Here0)]
NewLast(i) == /\ Len(Here0) > 1 /\ todo[i].at = Here0[Len(Here0)]
              /\ fat[todo[i].at] = FREE
              /\ i # 1 => IsFat(i - 1) /\ todo[i - 1].at = Here0[Len(Here0) - 1]
              /\ i + 1 \in DOMAIN todo => ~todo[i + 1].checked
Extending == \A i \in DOMAIN todo :
                 IsFat(i) /\ todo[i].at \in Used(mem, block) =>
                     ~todo[i].checked /\ (OldLast(i) \/ NewLast(i))

Filling == \A i \in DOMAIN todo : IsBlock(i) => \A p \in InUse(block) : p.block # todo[i].at

(* The entry comes last, into a free place of the directory, and leads to  *)
(* a chain of its own.                                                     *)
EntryReady(w) ==
    LET own == FollowChain(mem, w.entry.start)
    IN  /\ w.at.block \in ToSet(Here0) /\ w.at \notin InUse(block)
        /\ \A i \in DOMAIN todo : IsBlock(i) /\ todo[i].at = w.at.block => todo[i].bytes = EmptyDir
        /\ IsChain(mem, own) /\ Fits(w.entry, own) /\ ToSet(own) \cap Used(mem, block) = {}
        /\ after.do = "descend" => w.entry.dir /\ w.entry.start = after.start

Linking ==
    /\ \A i \in DOMAIN todo : IsEntry(i) => i = Len(todo) /\ after.do # "fail"
    /\ after.do # "fail" /\ todo # <<>> => IsEntry(Len(todo)) /\ EntryReady(todo[Len(todo)])
    /\ after.do = "descend" => comp # Len(path)
    /\ after.do = "descend" /\ todo = <<>> => Sub(mem, block, dir, after.start) /\ after.start \in Blocks

Working == /\ Sound(mem, block)
           /\ WayTo(mem, block, dir, comp)
           /\ pc = "deciding" => mem = fat
           /\ pc = "writing" => Ahead /\ Extending /\ Filling /\ Linking

IInv == /\ TypeOK
        /\ Base
        /\ pc = "none" => Sound(fat, block)
        /\ pc # "none" => Working

(* A diskput was killed between the two writes that extend a directory.    *)
TornByKill == torn # <<>> /\ torn[1].how = "killed" /\ failedOnce

Inv == lost \/ TornByKill \/ (torn = <<>> /\ IInv)

----------------------------------------------------------------------------
(* Chains under changes of the FAT.                                        *)
LEMMA ToSetMeaning ==
    ASSUME NEW S, NEW s \in Seq(S)
    PROVE  /\ ToSet(s) = {s[i] : i \in 1..Len(s)}
           /\ ToSet(s) \subseteq S
           /\ Len(s) \in Nat
<1>1. DOMAIN s = 1..Len(s) /\ Len(s) \in Nat
  BY LenProperties
<1>2. \A i \in 1..Len(s) : s[i] \in S
  BY <1>1, ElementOfSeq
<1> QED
  BY <1>1, <1>2 DEF ToSet

LEMMA ChainLength ==
    ASSUME NEW f, NEW s, IsChain(f, s)
    PROVE  Len(s) \in 1..NBlocks
<1>1. s \in Seq(Blocks) /\ Len(s) \in Nat /\ Len(s) > 0
  BY LenProperties DEF IsChain, IsPath
<1>2. PICK n \in Nat : n = Len(s)
  BY <1>1
<1>3. s \in [1..n -> Blocks]
  BY <1>1, <1>2, LenProperties
<1>4. IsFiniteSet(Blocks) /\ Cardinality(Blocks) = NBlocks
  <2>1. 0 \in Int /\ NBlocks - 1 \in Int /\ ~(0 > NBlocks - 1) /\ (NBlocks - 1) - 0 + 1 = NBlocks
    BY Numbers
  <2> QED
    BY <2>1, FS_Interval, Numbers
<1>5. IsFiniteSet(1..n) /\ Cardinality(1..n) = n
  <2>1. 1 \in Int /\ n \in Int /\ (1 > n => n = 0) /\ n - 1 + 1 = n
    OBVIOUS
  <2> QED
    BY <2>1, FS_Interval
<1>6. ASSUME n > NBlocks PROVE FALSE
  <2>1. Cardinality(Blocks) < Cardinality(1..n)
    BY <1>4, <1>5, <1>6, Numbers
  <2>2. \E i, j \in 1..n : i # j /\ s[i] = s[j]
    BY <1>3, <1>4, <1>5, <2>1, FS_PigeonHole
  <2> QED
    BY <1>2, <2>2 DEF IsChain
<1> QED
  BY <1>1, <1>2, <1>6, Numbers

LEMMA ChainFollowed ==
    ASSUME NEW f \in Fats, NEW s, IsChain(f, s)
    PROVE  FollowChain(f, s[1]) = s /\ s[1] \in Blocks /\ s \in Seq(Blocks) /\ Len(s) \in 1..NBlocks
<1>1. PICK n \in 1..NBlocks : n = Len(s)
  BY ChainLength
<1>2. IsPath(f, s, n) /\ f[s[n]] = EOF
  BY <1>1 DEF IsChain
<1>3. s \in Seq(Blocks) /\ 1 \in 1..Len(s)
  BY <1>1, Numbers DEF IsChain, IsPath
<1>4. s[1] \in Blocks
  BY <1>3, ElementOfSeq
<1> QED
  BY <1>1, <1>2, <1>3, <1>4, FollowsPath

LEMMA ChainStarts ==
    ASSUME NEW f \in Fats, NEW b \in Blocks
    PROVE  /\ FollowChain(f, b) \in Seq(Blocks)
           /\ Len(FollowChain(f, b)) >= 1 /\ FollowChain(f, b)[1] = b
           /\ b \in ToSet(FollowChain(f, b))
<1>1. PICK s : s = <<b>>
  OBVIOUS
<1>2. IsPath(f, s, 1) /\ s[1] = b /\ 1 \in 1..NBlocks
  BY <1>1, Numbers DEF IsPath
<1>3. PICK t : t = FollowChain(f, b)
  OBVIOUS
<1>4. t \in Seq(Blocks) /\ Len(t) >= 1 /\ t[1] = b
  BY <1>2, <1>3, FollowsPath
<1>5. Len(t) \in Nat
  BY <1>4, LenProperties
<1>6. 1 \in 1..Len(t)
  BY <1>4, <1>5
<1>7. b \in ToSet(t)
  BY <1>4, <1>6, ToSetMeaning
<1> QED
  BY <1>3, <1>4, <1>7

(* A FAT that is the same at the blocks of a chain has that chain.         *)
LEMMA SameChain ==
    ASSUME NEW f \in Fats, NEW g \in Fats, NEW b \in Blocks,
           IsChain(f, FollowChain(f, b)),
           \A x \in ToSet(FollowChain(f, b)) : g[x] = f[x]
    PROVE  FollowChain(g, b) = FollowChain(f, b) /\ IsChain(g, FollowChain(f, b))
<1>1. PICK s : s = FollowChain(f, b)
  OBVIOUS
<1>2. PICK n \in 1..NBlocks : n = Len(s) /\ s \in Seq(Blocks)
  BY <1>1, ChainFollowed
<1>3. s[1] = b
  BY <1>1, ChainStarts
<1>4. \A i \in 1..n : g[s[i]] = f[s[i]]
  BY <1>1, <1>2, ToSetMeaning
<1>5. n \in 1..n /\ \A i \in 1..(n - 1) : i \in 1..n
  BY Numbers
<1>6. IsChain(f, s)
  BY <1>1
<1>7. IsChain(g, s)
  BY <1>2, <1>4, <1>5, <1>6 DEF IsChain, IsPath
<1>8. FollowChain(g, s[1]) = s
  BY <1>7, ChainFollowed
<1> QED
  BY <1>1, <1>3, <1>7, <1>8

(* A FAT where the last block but one is the last.                         *)
LEMMA ShorterChain ==
    ASSUME NEW f \in Fats, NEW g \in Fats, NEW b \in Blocks, NEW s, NEW n,
           s = FollowChain(f, b), IsChain(f, s), n = Len(s), n > 1,
           g[s[n - 1]] = EOF,
           \A i \in 1..(n - 2) : g[s[i]] = f[s[i]]
    PROVE  /\ IsChain(g, FollowChain(g, b)) /\ ToSet(FollowChain(g, b)) \subseteq ToSet(s)
           /\ Len(FollowChain(g, b)) = n - 1
           /\ \A i \in 1..(n - 1) : FollowChain(g, b)[i] = s[i]
<1>1. n \in 1..NBlocks /\ s \in Seq(Blocks) /\ s[1] = b
  BY ChainFollowed, ChainStarts
<1>2. PICK m \in 1..NBlocks : m = n - 1 /\ m \in 1..n
  BY <1>1, Numbers
<1>3. PICK t : t = SubSeq(s, 1, m)
  OBVIOUS
<1>4. t \in Seq(Blocks) /\ Len(t) = m /\ \A i \in 1..m : t[i] = s[i]
  <2>1. \A i \in 1..m : s[i] \in Blocks
    BY <1>1, <1>2, ElementOfSeq
  <2>2. m \in Nat /\ 1 \in Nat
    BY <1>2, Numbers
  <2> QED
    BY <1>2, <1>3, <2>1, <2>2, SubSeqProperties
<1>5. \A i \in 1..(m - 1) : g[s[i]] = s[i + 1]
  BY <1>1, <1>2, Numbers DEF IsChain, IsPath
<1>6. \A i \in 1..(m - 1) : i \in 1..m /\ i + 1 \in 1..m
  BY <1>2, Numbers
<1>7. IsPath(g, t, m)
  BY <1>4, <1>5, <1>6 DEF IsPath
<1>8. m > 0 /\ g[t[m]] = EOF /\ \A i \in 1..m : i \in 1..n
  <2>1. m \in 1..m /\ m > 0 /\ \A i \in 1..m : i \in 1..n
    BY <1>1, <1>2, Numbers
  <2>2. g[s[m]] = EOF
    BY <1>2
  <2> QED
    BY <1>4, <2>1, <2>2
<1>9. IsChain(g, t)
  BY <1>4, <1>7, <1>8 DEF IsChain
<1>10. t[1] = b
  BY <1>1, <1>2, <1>4, Numbers
<1>11. FollowChain(g, b) = t
  BY <1>9, <1>10, ChainFollowed
<1>12. ToSet(t) \subseteq ToSet(s)
  BY <1>1, <1>4, <1>8, ToSetMeaning
<1> QED
  BY <1>2, <1>4, <1>9, <1>11, <1>12

(* A FAT with a block more at the end.                                     *)
Grown(f, g, b, s, n, new) ==
    /\ s = FollowChain(f, b) /\ IsChain(f, s) /\ n = Len(s)
    /\ new \notin ToSet(s) /\ new \notin {FREE, RESERVED}
    /\ g[s[n]] = new /\ g[new] = EOF
    /\ \A i \in 1..(n - 1) : g[s[i]] = f[s[i]]

Longer(s, n, new, t) == /\ ToSet(t) = ToSet(s) \cup {new}
                        /\ Len(t) = n + 1
                        /\ t[n + 1] = new /\ t[n] = s[n]
                        /\ \A i \in 1..n : t[i] = s[i]

LEMMA LongerChain ==
    ASSUME NEW f \in Fats, NEW g \in Fats, NEW b \in Blocks, NEW s, NEW n, NEW new \in Blocks,
           Grown(f, g, b, s, n, new)
    PROVE  IsChain(g, FollowChain(g, b)) /\ Longer(s, n, new, FollowChain(g, b))
<1> USE DEF Grown
<1>1. n \in 1..NBlocks /\ s \in Seq(Blocks) /\ s[1] = b
  BY ChainFollowed, ChainStarts
<1>2. PICK t : t = Append(s, new)
  OBVIOUS
<1>3. /\ t \in Seq(Blocks) /\ Len(t) = n + 1 /\ t[n + 1] = new
      /\ \A i \in 1..n : t[i] = s[i]
  BY <1>1, <1>2, AppendProperties
<1>4. \A i \in 1..((n + 1) - 1) : g[t[i]] = t[i + 1]
  <2> SUFFICES ASSUME NEW i \in 1..n PROVE g[t[i]] = t[i + 1]
    BY <1>1, Numbers
  <2>1. CASE i = n
    BY <1>3, <2>1
  <2>2. CASE i # n
    <3>1. i \in 1..(n - 1) /\ i + 1 \in 1..n
      BY <1>1, <2>2, Numbers
    <3>2. f[s[i]] = s[i + 1]
      BY <3>1 DEF IsChain, IsPath
    <3> QED
      BY <1>3, <3>1, <3>2
  <2> QED
    BY <2>1, <2>2
<1>5. \A i \in 1..(n + 1) : i \in 1..n \/ i = n + 1
  BY <1>1, Numbers
<1>6. ToSet(s) = {s[i] : i \in 1..n} /\ ToSet(t) = {t[i] : i \in 1..(n + 1)}
  BY <1>1, <1>3, ToSetMeaning
<1>7. n + 1 \in 1..(n + 1) /\ \A i \in 1..n : i \in 1..(n + 1)
  BY <1>1, Numbers
<1>8. ToSet(t) = ToSet(s) \cup {new}
  BY <1>3, <1>5, <1>6, <1>7
<1>9. \A i \in 1..(n + 1) : t[i] \notin {FREE, RESERVED}
  BY <1>3, <1>5 DEF IsChain
<1>10. \A i, j \in 1..(n + 1) : i # j => t[i] # t[j]
  <2>1. \A i \in 1..n : s[i] # new
    BY <1>6
  <2>2. \A i, j \in 1..n : i # j => s[i] # s[j]
    BY DEF IsChain
  <2> QED
    BY <1>3, <1>5, <2>1, <2>2
<1>11. IsPath(g, t, n + 1) /\ n + 1 > 0 /\ g[t[n + 1]] = EOF
  BY <1>1, <1>3, <1>4, Numbers DEF IsPath
<1>12. IsChain(g, t)
  BY <1>3, <1>9, <1>10, <1>11 DEF IsChain
<1>13. t[1] = b /\ t[n] = s[n]
  BY <1>1, <1>3, Numbers
<1>14. FollowChain(g, b) = t
  BY <1>12, <1>13, ChainFollowed
<1> QED
  BY <1>3, <1>8, <1>12, <1>13, <1>14 DEF Longer

----------------------------------------------------------------------------
(* Images in good order under changes of the FAT and of the entries.       *)
Typed(blk) == \A p \in InUse(blk) : EntryAt(blk, p) \in EntrySet

LEMMA OwnersTyped ==
    ASSUME NEW blk, Typed(blk)
    PROVE  /\ \A p \in Owners(blk) : StartOf(blk, p) \in Blocks
           /\ RootPlace \notin InUse(blk) /\ RootPlace \in Owners(blk)
           /\ \A p \in InUse(blk) : p.block \in Blocks /\ p.index \in Slots /\ p \in Owners(blk)
           /\ \A p \in InUse(blk) : StartOf(blk, p) = EntryAt(blk, p).start
<1>1. \A p \in InUse(blk) : p.block \in Blocks /\ p.index \in Slots
  BY DEF InUse
<1>2. RootPlace \notin InUse(blk)
  <2>1. RootPlace.block = EOF
    BY DEF RootPlace
  <2> QED
    BY <1>1, <2>1, Numbers
<1>3. \A p \in InUse(blk) : EntryAt(blk, p).start \in Blocks
  BY DEF Typed, EntrySet
<1> QED
  BY <1>1, <1>2, <1>3, Numbers DEF Owners, StartOf

LEMMA SoundSame ==
    ASSUME NEW f \in Fats, NEW g \in Fats, NEW blk, Typed(blk), Sound(f, blk),
           \A x \in Used(f, blk) : g[x] = f[x]
    PROVE  Sound(g, blk) /\ \A p \in Owners(blk) : Owned(g, blk, p) = Owned(f, blk, p)
<1>1. ASSUME NEW p \in Owners(blk)
      PROVE  Owned(g, blk, p) = Owned(f, blk, p) /\ IsChain(g, Owned(g, blk, p))
  <2>1. PICK b \in Blocks : b = StartOf(blk, p)
    BY OwnersTyped
  <2>2. IsChain(f, FollowChain(f, b))
    BY <2>1 DEF Sound, Owned
  <2>3. \A x \in ToSet(FollowChain(f, b)) : g[x] = f[x]
    BY <2>1 DEF Used, Owned
  <2> QED
    BY <2>1, <2>2, <2>3, SameChain DEF Owned
<1>2. \A p \in InUse(blk) : p \in Owners(blk)
  BY DEF Owners
<1> QED
  BY <1>1, <1>2 DEF Sound

LEMMA SoundSmaller ==
    ASSUME NEW f, NEW g, NEW blk, Sound(f, blk),
           \A p \in Owners(blk) : /\ IsChain(g, Owned(g, blk, p))
                                  /\ ToSet(Owned(g, blk, p)) \subseteq ToSet(Owned(f, blk, p)),
           \A p \in InUse(blk) : Fits(EntryAt(blk, p), Owned(g, blk, p))
    PROVE  Sound(g, blk)
BY DEF Sound

(* A directory gets one block more.                                        *)
Lengthens(f, g, blk, d, s, n, new) ==
    /\ s = Owned(f, blk, d) /\ n = Len(s) /\ IsDir(blk, d)
    /\ new \notin {FREE, RESERVED} /\ new \notin Used(f, blk)
    /\ g = [f EXCEPT ![s[n]] = new, ![new] = EOF]

LEMMA SoundLonger ==
    ASSUME NEW f \in Fats, NEW g \in Fats, NEW blk, Typed(blk), Sound(f, blk),
           NEW d \in Owners(blk), NEW s, NEW n, NEW new \in Blocks,
           Lengthens(f, g, blk, d, s, n, new)
    PROVE  /\ Sound(g, blk)
           /\ Longer(s, n, new, Owned(g, blk, d))
           /\ \A p \in Owners(blk) : p # d => Owned(g, blk, p) = Owned(f, blk, p)
           /\ Used(g, blk) = Used(f, blk) \cup {new}
<1> USE DEF Lengthens
<1>1. PICK b \in Blocks : b = StartOf(blk, d)
  BY OwnersTyped
<1>2. s = FollowChain(f, b) /\ IsChain(f, s)
  BY <1>1 DEF Sound, Owned
<1>3. n \in 1..NBlocks /\ s \in Seq(Blocks) /\ ToSet(s) = {s[i] : i \in 1..n}
  BY <1>2, ChainFollowed, ToSetMeaning
<1>4. n \in 1..n /\ \A i \in 1..(n - 1) : i \in 1..n /\ i # n
  BY <1>3, Numbers
<1>5. s[n] \in Blocks /\ s[n] \in ToSet(s) /\ \A i \in 1..(n - 1) : s[i] \in Blocks /\ s[i] # s[n]
  BY <1>2, <1>3, <1>4, ElementOfSeq DEF IsChain
<1>6. new \notin ToSet(s)
  BY DEF Used
<1>7. g[s[n]] = new /\ g[new] = EOF /\ \A x \in Blocks \ {s[n], new} : g[x] = f[x]
  <2>1. PICK l \in Blocks : l = s[n]
    BY <1>5
  <2>2. l # new
    BY <1>5, <1>6, <2>1
  <2>3. g = [f EXCEPT ![l] = new, ![new] = EOF] /\ DOMAIN f = Blocks
    BY <2>1 DEF Fats
  <2>4. g[l] = new
    BY <2>2, <2>3
  <2>5. g[new] = EOF
    BY <2>2, <2>3
  <2>6. \A x \in Blocks \ {l, new} : g[x] = f[x]
    BY <2>2, <2>3
  <2> QED
    BY <2>1, <2>4, <2>5, <2>6
<1>8. ASSUME NEW i \in 1..(n - 1) PROVE g[s[i]] = f[s[i]]
  <2>1. i \in 1..n /\ s[i] \in Blocks /\ s[i] # s[n]
    BY <1>4, <1>5
  <2>2. s[i] # new
    BY <1>3, <1>6, <2>1
  <2> QED
    BY <1>7, <2>1, <2>2
<1>9. IsChain(g, FollowChain(g, b)) /\ Longer(s, n, new, FollowChain(g, b))
  <2>1. g[s[n]] = new /\ g[new] = EOF
    BY <1>7
  <2>2. \A i \in 1..(n - 1) : g[s[i]] = f[s[i]]
    BY <1>8
  <2>3. Grown(f, g, b, s, n, new)
    BY <1>2, <1>6, <2>1, <2>2 DEF Grown
  <2> QED
    BY <1>1, <2>3, LongerChain
<1>10. ASSUME NEW p \in Owners(blk), p # d
       PROVE  Owned(g, blk, p) = Owned(f, blk, p) /\ IsChain(g, Owned(f, blk, p))
  <2>1. PICK c \in Blocks : c = StartOf(blk, p)
    BY OwnersTyped
  <2>2. IsChain(f, FollowChain(f, c)) /\ ToSet(FollowChain(f, c)) \cap ToSet(s) = {}
    BY <1>10, <2>1 DEF Sound, Owned
  <2>3. FollowChain(f, c) \in Seq(Blocks)
    BY <2>2 DEF IsChain, IsPath
  <2>4. ToSet(FollowChain(f, c)) \subseteq Blocks /\ new \notin ToSet(FollowChain(f, c))
    BY <2>1, <2>3, ToSetMeaning DEF Used, Owned
  <2>5. \A x \in ToSet(FollowChain(f, c)) : g[x] = f[x]
    BY <1>5, <1>7, <2>2, <2>4
  <2> QED
    BY <2>1, <2>2, <2>5, SameChain DEF Owned
<1>11. /\ IsChain(g, Owned(g, blk, d)) /\ Longer(s, n, new, Owned(g, blk, d))
       /\ ToSet(Owned(g, blk, d)) = ToSet(s) \cup {new}
  BY <1>1, <1>9 DEF Owned, Longer
<1>12. \A p \in Owners(blk) : IsChain(g, Owned(g, blk, p))
  BY <1>10, <1>11
<1>13. \A p \in InUse(blk) : Fits(EntryAt(blk, p), Owned(g, blk, p))
  <2> SUFFICES ASSUME NEW p \in InUse(blk) PROVE Fits(EntryAt(blk, p), Owned(g, blk, p))
    OBVIOUS
  <2>1. p \in Owners(blk) /\ p # RootPlace /\ Fits(EntryAt(blk, p), Owned(f, blk, p))
    BY OwnersTyped DEF Sound
  <2> QED
    BY <1>10, <2>1 DEF Fits, IsDir
<1>14. \A p, q \in Owners(blk) : p # q => ToSet(Owned(g, blk, p)) \cap ToSet(Owned(g, blk, q)) = {}
  <2>1. \A p \in Owners(blk) : new \notin ToSet(Owned(f, blk, p))
    BY DEF Used
  <2>2. \A p, q \in Owners(blk) : p # q => ToSet(Owned(f, blk, p)) \cap ToSet(Owned(f, blk, q)) = {}
    BY DEF Sound
  <2>3. ToSet(Owned(g, blk, d)) = ToSet(Owned(f, blk, d)) \cup {new}
    BY <1>11
  <2>4. \A p \in Owners(blk) : p # d => ToSet(Owned(g, blk, p)) = ToSet(Owned(f, blk, p))
    BY <1>10
  <2>5. ASSUME NEW p \in Owners(blk), p # d
        PROVE  ToSet(Owned(g, blk, p)) \cap ToSet(Owned(g, blk, d)) = {}
    <3>1. new \notin ToSet(Owned(f, blk, p)) /\ ToSet(Owned(g, blk, p)) = ToSet(Owned(f, blk, p))
      BY <2>1, <2>4, <2>5
    <3>2. ToSet(Owned(f, blk, p)) \cap ToSet(Owned(f, blk, d)) = {}
      BY <2>2, <2>5
    <3> QED
      BY <2>3, <3>1, <3>2
  <2>6. ASSUME NEW p \in Owners(blk), NEW q \in Owners(blk), p # d, q # d, p # q
        PROVE  ToSet(Owned(g, blk, p)) \cap ToSet(Owned(g, blk, q)) = {}
    BY <2>2, <2>4, <2>6
  <2> SUFFICES ASSUME NEW p \in Owners(blk), NEW q \in Owners(blk), p # q
               PROVE  ToSet(Owned(g, blk, p)) \cap ToSet(Owned(g, blk, q)) = {}
    OBVIOUS
  <2>7. CASE p = d
    BY <2>5, <2>7
  <2>8. CASE q = d
    BY <2>5, <2>8
  <2> QED
    BY <2>6, <2>7, <2>8
<1>15. Used(g, blk) = Used(f, blk) \cup {new}
  BY <1>10, <1>11 DEF Used
<1> QED
  BY <1>10, <1>11, <1>12, <1>13, <1>14, <1>15 DEF Sound

(* The entries of two images are the same, but for one more at place at.   *)
OneMore(blk, new, at) ==
    /\ InUse(new) = InUse(blk) \cup {at}
    /\ \A p \in InUse(blk) : p # at => EntryAt(new, p) = EntryAt(blk, p)

LEMMA SoundAdded ==
    ASSUME NEW f, NEW blk, NEW new, Typed(blk), Typed(new), Sound(f, blk),
           NEW at, OneMore(blk, new, at), at \notin InUse(blk),
           NEW s, s = FollowChain(f, EntryAt(new, at).start),
           IsChain(f, s), Fits(EntryAt(new, at), s), ToSet(s) \cap Used(f, blk) = {}
    PROVE  Sound(f, new) /\ Used(f, new) = Used(f, blk) \cup ToSet(s)
<1>1. at \in InUse(new) /\ at # RootPlace /\ Owners(new) = Owners(blk) \cup {at}
  BY OwnersTyped DEF OneMore, Owners
<1>2. Owned(f, new, at) = s
  BY <1>1 DEF Owned, StartOf
<1>3. \A p \in Owners(blk) : Owned(f, new, p) = Owned(f, blk, p) /\ p # at
  BY <1>1 DEF Owned, StartOf, Owners, OneMore
<1>4. \A p \in Owners(blk) : ToSet(s) \cap ToSet(Owned(f, blk, p)) = {}
  BY DEF Used
<1>5. \A p \in InUse(new) : Fits(EntryAt(new, p), Owned(f, new, p))
  <2>1. \A p \in InUse(blk) : /\ EntryAt(new, p) = EntryAt(blk, p)
                              /\ Owned(f, new, p) = Owned(f, blk, p)
    BY <1>3 DEF OneMore, Owners
  <2> QED
    BY <1>2, <2>1 DEF Sound, OneMore
<1>6. \A p \in Owners(new) : IsChain(f, Owned(f, new, p))
  BY <1>1, <1>2, <1>3 DEF Sound
<1>7. \A p, q \in Owners(new) : p # q => ToSet(Owned(f, new, p)) \cap ToSet(Owned(f, new, q)) = {}
  BY <1>1, <1>2, <1>3, <1>4 DEF Sound
<1>8. Used(f, new) = Used(f, blk) \cup ToSet(s)
  BY <1>1, <1>2, <1>3 DEF Used
<1> QED
  BY <1>5, <1>6, <1>7, <1>8 DEF Sound

(* Nothing but entries in use counts.                                      *)
SameView(blk, new) ==
    /\ InUse(new) = InUse(blk)
    /\ \A p \in InUse(blk) : EntryAt(new, p) = EntryAt(blk, p)

LEMMA SoundViewed ==
    ASSUME NEW f, NEW blk, NEW new, SameView(blk, new), Typed(blk)
    PROVE  /\ Typed(new) /\ Owners(new) = Owners(blk)
           /\ \A p \in Owners(blk) : Owned(f, new, p) = Owned(f, blk, p)
           /\ Used(f, new) = Used(f, blk)
           /\ Sound(f, blk) => Sound(f, new)
<1>1. Typed(new) /\ Owners(new) = Owners(blk)
  BY DEF Typed, SameView, Owners
<1>2. \A p \in Owners(blk) : Owned(f, new, p) = Owned(f, blk, p)
  BY DEF Owned, StartOf, Owners, SameView
<1>3. Used(f, new) = Used(f, blk)
  BY <1>1, <1>2 DEF Used
<1>4. ASSUME Sound(f, blk) PROVE Sound(f, new)
  <2>1. \A p \in InUse(new) : Fits(EntryAt(new, p), Owned(f, new, p))
    BY <1>2, <1>4 DEF Sound, SameView, Owners
  <2> QED
    BY <1>1, <1>2, <1>4, <2>1 DEF Sound
<1> QED
  BY <1>1, <1>2, <1>3, <1>4

----------------------------------------------------------------------------
(* The free blocks.                                                        *)
IsBelow(g, f, n) ==
    g = [k \in 0..n |-> IF k = 0 THEN <<>>
                        ELSE g[k - 1] \o IF f[k - 1] = FREE THEN <<k - 1>> ELSE <<>>]

LEMMA BelowExists ==
    ASSUME NEW f, NEW N \in Nat
    PROVE  \E g : IsBelow(g, f, N)
<1> DEFINE Bad == {n \in 0..N : ~ \E g : IsBelow(g, f, n)}
<1> SUFFICES ASSUME Bad # {} PROVE FALSE
  OBVIOUS
<1>1. PICK n \in Bad : \A m \in Bad : n <= m
  <2>1. Bad \in SUBSET Nat
    OBVIOUS
  <2> HIDE DEF Bad
  <2> QED
    BY <2>1, Least
<1>2. CASE n = 0
  <2> DEFINE g == [k \in 0..0 |-> <<>>]
  <2>1. \A k \in 0..0 : k = 0
    OBVIOUS
  <2>2. g = [k \in 0..0 |-> IF k = 0 THEN <<>>
                            ELSE g[k - 1] \o IF f[k - 1] = FREE THEN <<k - 1>> ELSE <<>>]
    BY <2>1
  <2>3. IsBelow(g, f, 0)
    BY <2>2 DEF IsBelow
  <2> QED
    BY <1>2, <2>3
<1>3. CASE n # 0
  <2>1. n \in 1..N /\ n - 1 \in 0..N /\ ~(n <= n - 1)
    BY <1>3
  <2>2. PICK g : IsBelow(g, f, n - 1)
    <3>1. n - 1 \notin Bad
      BY <1>1, <2>1
    <3> QED
      BY <2>1, <3>1
  <2> DEFINE Row(h, k) == IF k = 0 THEN <<>>
                          ELSE h[k - 1] \o IF f[k - 1] = FREE THEN <<k - 1>> ELSE <<>>
             top == Row(g, n)
             h == [k \in 0..n |-> IF k = n THEN top ELSE g[k]]
  <2>3. \A k \in 0..(n - 1) : g[k] = Row(g, k)
    BY <2>2 DEF IsBelow
  <2>4. ASSUME NEW k \in 0..n PROVE h[k] = Row(h, k)
    <3>1. k # 0 => h[k - 1] = g[k - 1]
      BY <2>1
    <3>2. Row(h, k) = Row(g, k)
      <4> HIDE DEF h
      <4> QED
        BY <3>1
    <3>3. CASE k = n
      <4>1. h[k] = top
        BY <3>3
      <4> QED
        BY <3>2, <3>3, <4>1
    <3>4. CASE k # n
      <4>1. k \in 0..(n - 1) /\ h[k] = g[k]
        BY <2>1, <3>4
      <4> HIDE DEF h, Row
      <4> QED
        BY <2>3, <3>2, <4>1
    <3> QED
      BY <3>3, <3>4
  <2>5. h = [k \in 0..n |-> Row(h, k)]
    BY <2>4
  <2>6. IsBelow(h, f, n)
    BY <2>5 DEF IsBelow
  <2> QED
    BY <2>6
<1> QED
  BY <1>2, <1>3

(* What find_free_blocks finds are free blocks, and all different.         *)
AllFree(f, s) == /\ s \in Seq(Blocks)
                 /\ \A i \in 1..Len(s) : f[s[i]] = FREE
                 /\ \A i, j \in 1..Len(s) : i # j => s[i] # s[j]

LEMMA FreeBlocksFree ==
    ASSUME NEW f
    PROVE  AllFree(f, FreeBlocks(f))
<1> DEFINE g == CHOOSE g : IsBelow(g, f, NBlocks)
           Good(s, k) == /\ AllFree(f, s)
                         /\ \A i \in 1..Len(s) : s[i] < k
<1>1. IsBelow(g, f, NBlocks)
  BY BelowExists, Numbers
<1>2. FreeBlocks(f) = g[NBlocks]
  BY DEF FreeBlocks, IsBelow
<1> HIDE DEF g
<1> DEFINE Bad == {k \in 0..NBlocks : ~Good(g[k], k)}
<1> SUFFICES ASSUME Bad # {} PROVE FALSE
  <2>1. NBlocks \in 0..NBlocks
    BY Numbers
  <2> QED
    BY <1>2, <2>1
<1>3. PICK k \in Bad : \A m \in Bad : k <= m
  <2>1. Bad \in SUBSET Nat
    BY Numbers
  <2> HIDE DEF Bad
  <2> QED
    BY <2>1, Least
<1>4. g[k] = IF k = 0 THEN <<>> ELSE g[k - 1] \o IF f[k - 1] = FREE THEN <<k - 1>> ELSE <<>>
  BY <1>1 DEF IsBelow
<1>5. Good(<<>>, k)
  BY DEF AllFree
<1>6. k # 0
  BY <1>4, <1>5
<1>7. PICK l \in Blocks : l = k - 1 /\ l \in 0..NBlocks /\ ~(k <= l) /\ l < k
  BY <1>6, Numbers
<1>8. PICK s : s = g[l] /\ Good(s, l)
  BY <1>3, <1>7
<1>9. s \in Seq(Blocks) /\ \A i \in 1..Len(s) : s[i] \in Blocks /\ s[i] \in Int
  <2>1. s \in Seq(Blocks)
    BY <1>8 DEF AllFree
  <2>2. \A i \in 1..Len(s) : s[i] \in Blocks
    BY <2>1, ElementOfSeq
  <2>3. \A b \in Blocks : b \in Int
    BY Numbers
  <2> QED
    BY <2>1, <2>2, <2>3
<1>10. CASE f[l] # FREE
  <2>1. g[k] = s
    <3>1. g[k] = s \o <<>>
      BY <1>4, <1>6, <1>7, <1>8, <1>10
    <3> QED
      BY <1>9, <3>1, ConcatEmptySeq
  <2>2. Good(s, k)
    BY <1>7, <1>8, <1>9, Numbers
  <2> QED
    BY <2>1, <2>2
<1>11. CASE f[l] = FREE
  <2>1. g[k] = s \o <<l>>
    BY <1>4, <1>6, <1>7, <1>8, <1>11
  <2>2. PICK n \in Nat : n = Len(s)
    BY <1>9, LenProperties
  <2>3. PICK t : t = s \o <<l>>
    OBVIOUS
  <2>4. t \in Seq(Blocks) /\ Len(t) = n + 1 /\ (\A i \in 1..n : t[i] = s[i]) /\ t[n + 1] = l
    BY <1>7, <1>9, <2>2, <2>3
  <2>5. \A i \in 1..(n + 1) : i \in 1..n \/ i = n + 1
    BY <2>2
  <2>6. \A i \in 1..n : f[s[i]] = FREE /\ s[i] < l /\ s[i] # l
    BY <1>8, <1>9, <2>2, Numbers DEF AllFree
  <2>7. \A i \in 1..n : s[i] < k
    BY <1>7, <1>9, <2>2, <2>6, Numbers
  <2>8. \A i, j \in 1..n : i # j => s[i] # s[j]
    BY <1>8, <2>2 DEF AllFree
  <2>9. \A i \in 1..(n + 1) : f[t[i]] = FREE /\ t[i] < k
    BY <1>7, <1>11, <2>4, <2>5, <2>6, <2>7
  <2>10. \A i, j \in 1..(n + 1) : i # j => t[i] # t[j]
    BY <2>4, <2>5, <2>6, <2>8
  <2>11. Good(t, k)
    BY <2>4, <2>9, <2>10 DEF AllFree
  <2> QED
    BY <2>1, <2>3, <2>11
<1> QED
  BY <1>10, <1>11

LEMMA FirstFree ==
    ASSUME NEW f, FreeBlocks(f) # <<>>
    PROVE  FreeBlocks(f)[1] \in Blocks /\ f[FreeBlocks(f)[1]] = FREE
<1>1. PICK new : new = FreeBlocks(f) /\ new \in Seq(Blocks) /\ AllFree(f, new)
  BY FreeBlocksFree DEF AllFree
<1>2. Len(new) \in Nat /\ Len(new) # 0
  BY <1>1, EmptySeq, LenProperties
<1>3. 1 \in 1..Len(new)
  BY <1>2
<1> QED
  BY <1>1, <1>3, ElementOfSeq DEF AllFree

----------------------------------------------------------------------------
(* The entries of a directory.                                             *)
LEMMA Division ==
    ASSUME NEW n \in Nat \ {0}, NEW a \in Nat
    PROVE  /\ a \div n \in Nat /\ a % n \in 0..(n - 1)
           /\ a = n * (a \div n) + (a % n)
OBVIOUS

LEMMA Quotient ==
    ASSUME NEW n \in Nat \ {0}, NEW l \in Nat, NEW j \in 1..(l * n)
    PROVE  (j - 1) \div n + 1 \in 1..l /\ (j - 1) % n \in 0..(n - 1)
<1>1. PICK a \in Nat : a = j - 1 /\ a < l * n
  OBVIOUS
<1>2. PICK q \in Nat : q = a \div n
  BY Division
<1>3. PICK r \in 0..(n - 1) : r = a % n /\ a = n * q + r
  BY <1>2, Division
<1>4. ASSUME q >= l PROVE FALSE
  <2>1. n * q >= n * l
    BY <1>4
  <2>2. n * l = l * n
    OBVIOUS
  <2> QED
    BY <1>1, <1>3, <2>1, <2>2
<1>5. q + 1 \in 1..l
  BY <1>4
<1> QED
  BY <1>1, <1>2, <1>3, <1>5

Product(m, l, n) == n \in Nat \ {0} /\ l \in Nat /\ m \in Nat /\ m = l * n
Composes(j, n, i, r) == (j - 1) \div n + 1 = i /\ (j - 1) % n = r

LEMMA Composed ==
    ASSUME NEW m, NEW l, NEW n, Product(m, l, n), NEW i \in 1..l, NEW r \in 0..(n - 1)
    PROVE  \E j \in 1..m : Composes(j, n, i, r)
<1>. n \in Nat \ {0} /\ l \in Nat /\ m \in Nat /\ m = l * n
  BY DEF Product
<1>1. PICK q \in Nat : q = i - 1 /\ q + 1 <= l
  OBVIOUS
<1>2. PICK a \in Nat : a = n * q + r
  OBVIOUS
<1>3. a \div n = q /\ a % n = r
  BY <1>2
<1>4. a + 1 <= l * n
  <2>1. n * (q + 1) <= n * l
    BY <1>1
  <2>2. n * (q + 1) = n * q + n
    OBVIOUS
  <2>3. n * l = l * n
    OBVIOUS
  <2> QED
    BY <1>2, <2>1, <2>2, <2>3
<1>5. PICK j \in 1..m : j = a + 1 /\ j - 1 = a
  BY <1>4
<1>6. (j - 1) \div n + 1 = i /\ (j - 1) % n = r
  <2>1. (j - 1) \div n = q /\ (j - 1) % n = r
    BY <1>3, <1>5
  <2> QED
    BY <1>1, <2>1
<1> QED
  BY <1>5, <1>6 DEF Composes

LEMMA PlacesTyped ==
    ASSUME NEW f \in Fats, NEW b \in Blocks \cup {EOF}
    PROVE  /\ DOMAIN Places(f, b) \in SUBSET Nat
           /\ \A j \in DOMAIN Places(f, b) : /\ Places(f, b)[j] \in AllPlaces
                                             /\ Places(f, b)[j].block \in ToSet(FollowChain(f, b))
<1>1. PICK s \in Seq(Blocks) : s = FollowChain(f, b)
  BY ChainTyped
<1>2. PICK l \in Nat : l = Len(s)
  BY LenProperties
<1>3. PICK n \in Nat \ {0} : n = EntriesPerBlock
  BY ImageAssumption
<1>4. Places(f, b) = [j \in 1..(l * n) |-> [block |-> s[((j - 1) \div n) + 1], index |-> (j - 1) % n]]
  BY <1>1, <1>2, <1>3 DEF Places
<1>5. ASSUME NEW j \in 1..(l * n)
      PROVE  /\ Places(f, b)[j] \in AllPlaces
             /\ Places(f, b)[j].block \in ToSet(s)
  <2>1. PICK i \in 1..l : i = (j - 1) \div n + 1
    BY Quotient
  <2>2. PICK r \in Slots : r = (j - 1) % n
    BY <1>3, Quotient DEF Slots
  <2>3. Places(f, b)[j] = [block |-> s[i], index |-> r]
    BY <1>4, <2>1, <2>2
  <2>4. s[i] \in Blocks /\ s[i] \in ToSet(s)
    BY <1>2, <2>1, ElementOfSeq, ToSetMeaning
  <2> QED
    BY <2>2, <2>3, <2>4 DEF AllPlaces
<1>6. DOMAIN Places(f, b) = 1..(l * n) /\ 1..(l * n) \in SUBSET Nat
  BY <1>4
<1> QED
  BY <1>1, <1>5, <1>6

LEMMA PlacesAll ==
    ASSUME NEW f \in Fats, NEW b \in Blocks \cup {EOF}, NEW p \in AllPlaces,
           p.block \in ToSet(FollowChain(f, b))
    PROVE  \E j \in DOMAIN Places(f, b) : Places(f, b)[j] = p
<1>1. PICK s \in Seq(Blocks) : s = FollowChain(f, b)
  BY ChainTyped
<1>2. PICK l \in Nat : l = Len(s)
  BY LenProperties
<1>3. PICK n \in Nat \ {0} : n = EntriesPerBlock
  BY ImageAssumption
<1>4. Places(f, b) = [j \in 1..(l * n) |-> [block |-> s[((j - 1) \div n) + 1], index |-> (j - 1) % n]]
  BY <1>1, <1>2, <1>3 DEF Places
<1>5. PICK i \in 1..l : p.block = s[i]
  BY <1>1, <1>2, ToSetMeaning
<1>6. PICK r \in 0..(n - 1) : r = p.index
  BY <1>3 DEF AllPlaces, Slots
<1>7. PICK m : m = l * n /\ Product(m, l, n)
  BY DEF Product
<1>8. PICK j \in 1..m : Composes(j, n, i, r)
  BY <1>7, Composed
<1>9. Places(f, b)[j] = [block |-> s[i], index |-> r]
  <2>1. (j - 1) \div n + 1 = i /\ (j - 1) % n = r
    BY <1>8 DEF Composes
  <2> QED
    BY <1>4, <1>7, <2>1
<1>10. p = [block |-> p.block, index |-> p.index]
  BY DEF AllPlaces
<1> QED
  BY <1>4, <1>5, <1>6, <1>7, <1>9, <1>10

LEMMA SmallestHit ==
    ASSUME NEW S \in SUBSET Nat, S # {}
    PROVE  Min(S) \in S
BY Least DEF Min

----------------------------------------------------------------------------
(* The entries of a block, whatever it holds.                              *)
EntryPut(w) == [block EXCEPT ![w.at.block] = WithEntry(@, w.at.index, w.entry)]

(* The statuses of two entries are an entry apart.                         *)
LEMMA Multiples ==
    ASSUME NEW i \in Nat, NEW j \in Nat, NEW n \in Nat, i < j
    PROVE  i * n \in Nat /\ j * n \in Nat /\ i * n + n <= j * n
<1>1. PICK d \in Nat : j = i + 1 + d
  <2>1. j - i - 1 \in Nat /\ j = i + 1 + (j - i - 1)
    OBVIOUS
  <2> QED
    BY <2>1
<1>2. j * n = i * n + n + d * n /\ i * n \in Nat /\ j * n \in Nat /\ d * n \in Nat
  BY <1>1
<1> QED
  BY <1>2

LEMMA PlacesApart ==
    /\ \A i \in Slots : Status(i) \in 1..BlockSize
    /\ \A i, j \in Slots : i # j => Status(j) \notin Status(i)..(Status(i) + EntrySize - 1)
    /\ \A i \in Slots : Status(i) \in Status(i)..(Status(i) + EntrySize - 1)
    /\ 0 \in Slots /\ Slots # 1..BlockSize
<1>1. PICK n \in Nat \ {0}, k \in Nat \ {0}, l \in Nat : n = EntrySize /\ k = EntriesPerBlock /\ l = k * n
  BY ImageAssumption
<1>2. l \in Nat /\ l <= BlockSize /\ BlockSize \in Nat /\ Slots = 0..(k - 1)
  BY <1>1, ImageAssumption DEF Slots
<1>3. \A i \in Nat : Status(i) = i * n + 1
  BY <1>1 DEF Status
<1>4. ASSUME NEW i \in Slots PROVE Status(i) \in 1..BlockSize /\ Status(i) \in Status(i)..(Status(i) + n - 1)
  <2>1. PICK t : t = i * n /\ t \in Nat /\ t + n <= l
    BY <1>1, <1>2, Multiples
  <2>2. Status(i) = t + 1
    BY <1>2, <1>3, <2>1
  <2> QED
    BY <1>2, <2>1, <2>2
<1>5. ASSUME NEW i \in Slots, NEW j \in Slots, i # j
      PROVE  Status(j) \notin Status(i)..(Status(i) + n - 1)
  <2>1. PICK t, u : t = i * n /\ u = j * n
    OBVIOUS
  <2>2. i \in Nat /\ j \in Nat
    BY <1>2
  <2>3. t \in Nat /\ u \in Nat /\ (t + n <= u \/ u + n <= t)
    <3>1. CASE i < j
      BY <2>1, <2>2, <3>1, Multiples
    <3>2. CASE j < i
      BY <2>1, <2>2, <3>2, Multiples
    <3> QED
      BY <1>5, <2>2, <3>1, <3>2
  <2>4. Status(i) = t + 1 /\ Status(j) = u + 1
    BY <1>3, <2>1, <2>2
  <2> QED
    BY <2>3, <2>4
<1>6. 0 \in Slots /\ 0 \notin 1..BlockSize
  BY <1>2
<1> QED
  BY <1>1, <1>4, <1>5, <1>6

(* An entry that is written is there, and the others of the block stay.    *)
LEMMA EntryPutIn ==
    ASSUME NEW contents, NEW i \in Slots, NEW e
    PROVE  /\ EntryIn(WithEntry(contents, i, e), i) = e
           /\ \A j \in Slots : j # i => EntryIn(WithEntry(contents, i, e), j) = EntryIn(contents, j)
<1>1. CASE HoldsEntries(contents)
  <2>1. PICK row : row = WithEntry(contents, i, e) /\ row = [contents EXCEPT ![i] = e]
    BY <1>1 DEF WithEntry
  <2>2. HoldsEntries(row) /\ row[i] = e /\ \A j \in Slots : j # i => row[j] = contents[j]
    BY <1>1, <2>1 DEF HoldsEntries
  <2>3. \A j \in Slots : EntryIn(row, j) = row[j] /\ EntryIn(contents, j) = contents[j]
    BY <1>1, <2>2 DEF EntryIn
  <2> QED
    BY <1>1, <2>1, <2>2, <2>3
<1>2. CASE ~HoldsEntries(contents)
  <2> DEFINE At == Status(i)..(Status(i) + EntrySize - 1)
             zeroed(k) == IF k = Status(i) THEN <<e>>
                          ELSE IF k \in At THEN <<>>
                          ELSE IF k \in DOMAIN contents THEN contents[k] ELSE <<>>
  <2>1. PICK bytes : bytes = WithEntry(contents, i, e) /\ bytes = [k \in 1..BlockSize |-> zeroed(k)]
    BY <1>2 DEF WithEntry
  <2>2. DOMAIN bytes = 1..BlockSize /\ ~HoldsEntries(bytes)
    BY <2>1, PlacesApart DEF HoldsEntries
  <2>3. \A j \in Slots : Status(j) \in DOMAIN bytes /\ bytes[Status(j)] = zeroed(Status(j))
    BY <2>1, <2>2, PlacesApart
  <2>4. EntryIn(bytes, i) = e
    <3>1. bytes[Status(i)] = <<e>> /\ Len(<<e>>) = 1 /\ <<e>>[1] = e
      BY <2>3
    <3> QED
      BY <2>2, <2>3, <3>1 DEF EntryIn
  <2>5. ASSUME NEW j \in Slots, j # i PROVE EntryIn(bytes, j) = EntryIn(contents, j)
    <3>1. Status(j) # Status(i) /\ Status(j) \notin At
      BY <2>5, PlacesApart
    <3>2. CASE Status(j) \in DOMAIN contents
      <4>1. bytes[Status(j)] = contents[Status(j)]
        BY <2>3, <3>1, <3>2
      <4> QED
        BY <1>2, <2>2, <2>3, <3>2, <4>1 DEF EntryIn
    <3>3. CASE Status(j) \notin DOMAIN contents
      <4>1. bytes[Status(j)] = <<>> /\ Len(<<>>) = 0 /\ <<>> \notin InUseBytes
        BY <2>3, <3>1, <3>3, ImageAssumption
      <4>2. EntryIn(bytes, j) = NoEntry
        BY <2>2, <2>3, <4>1 DEF EntryIn
      <4> QED
        BY <1>2, <3>3, <4>2 DEF EntryIn
    <3> QED
      BY <3>2, <3>3
  <2> QED
    BY <1>2, <2>1, <2>2, <2>4, <2>5
<1> QED
  BY <1>1, <1>2

(* A new directory block and bytes have nobody's entries.                  *)
LEMMA EmptyPlain ==
    /\ HoldsEntries(EmptyDir) /\ Plain(EmptyDir)
    /\ \A i \in Slots : EntryIn(EmptyDir, i) = NoEntry
BY DEF HoldsEntries, EmptyDir, EntryIn, Plain

LEMMA BytesPlain ==
    ASSUME NEW contents, ~HoldsEntries(contents), \A k \in DOMAIN contents : Len(contents[k]) # 1
    PROVE  Plain(contents)
BY DEF Plain, EntryIn

LEMMA UnwrittenPlain ==
    ASSUME NEW b
    PROVE  Plain(Unwritten(b))
<1>1. PICK bytes : bytes = Unwritten(b) /\ bytes = [i \in 1..BlockSize |-> <<b, i, 0>>]
  BY DEF Unwritten
<1>2. ~HoldsEntries(bytes)
  BY <1>1, PlacesApart DEF HoldsEntries
<1>3. \A k \in DOMAIN bytes : Len(bytes[k]) # 1
  BY <1>1
<1> QED
  BY <1>1, <1>2, <1>3, BytesPlain

(* An entry in use is somebody's or that of bytes.                         *)
LEMMA EntryMeaning ==
    ASSUME NEW blk, NEW p \in AllPlaces
    PROVE  /\ EntryAt(blk, p).inUse => p \in InUse(blk) \/ EntryAt(blk, p) = Foreign
           /\ ~EntryAt(blk, p).inUse => p \notin InUse(blk)
           /\ Foreign.inUse /\ ~Foreign.dir /\ Foreign.start = EOF /\ Foreign.blocks = 0
BY DEF InUse, AllPlaces, Foreign, FileEntry

LEMMA NamedFound ==
    ASSUME NEW f \in Fats, NEW blk, NEW b \in Blocks, NEW name, NEW unread,
           NEW e, e = NamedReading(f, blk, b, name, unread), e.inUse, e.dir
    PROVE  \E p \in InUse(blk) : p.block \in ToSet(FollowChain(f, b)) /\ e = EntryAt(blk, p)
<1> DEFINE there(place) == EntryAt(blk, place).inUse /\ EntryAt(blk, place).name = name
           hits == {j \in DOMAIN Places(f, b) : Places(f, b)[j].block \notin unread /\ there(Places(f, b)[j])}
<1>1. e = IF hits = {} THEN NoEntry ELSE EntryAt(blk, Places(f, b)[Min(hits)])
  BY DEF NamedReading, FirstPlace
<1>2. hits # {}
  BY <1>1 DEF NoEntry
<1>3. hits \in SUBSET Nat
  BY PlacesTyped
<1>4. PICK j \in DOMAIN Places(f, b) : j \in hits /\ j = Min(hits)
  BY <1>2, <1>3, SmallestHit
<1>5. PICK p \in AllPlaces : p = Places(f, b)[j] /\ p.block \in ToSet(FollowChain(f, b))
  BY PlacesTyped
<1>6. e = EntryAt(blk, p)
  BY <1>1, <1>2, <1>4, <1>5
<1> QED
  BY <1>5, <1>6, EntryMeaning

LEMMA FreeSlotFound ==
    ASSUME NEW f \in Fats, NEW blk, NEW b \in Blocks, NEW unread,
           FreeSlot(f, blk, b, unread) # <<>>
    PROVE  /\ FreeSlot(f, blk, b, unread)[1] \in AllPlaces
           /\ FreeSlot(f, blk, b, unread)[1].block \in ToSet(FollowChain(f, b))
           /\ FreeSlot(f, blk, b, unread)[1] \notin InUse(blk)
           /\ ~EntryAt(blk, FreeSlot(f, blk, b, unread)[1]).inUse
<1> DEFINE free(place) == ~EntryAt(blk, place).inUse
           hits == {j \in DOMAIN Places(f, b) : Places(f, b)[j].block \notin unread /\ free(Places(f, b)[j])}
<1>1. FreeSlot(f, blk, b, unread) = IF hits = {} THEN <<>> ELSE <<Places(f, b)[Min(hits)]>>
  BY DEF FreeSlot, FirstPlace
<1>2. hits # {}
  BY <1>1
<1>3. hits \in SUBSET Nat
  BY PlacesTyped
<1>4. PICK j \in DOMAIN Places(f, b) : j \in hits /\ j = Min(hits)
  BY <1>2, <1>3, SmallestHit
<1>5. PICK p \in AllPlaces : p = Places(f, b)[j] /\ p.block \in ToSet(FollowChain(f, b))
  BY PlacesTyped
<1>6. FreeSlot(f, blk, b, unread)[1] = p
  BY <1>1, <1>2, <1>4, <1>5
<1>7. ~EntryAt(blk, p).inUse
  BY <1>4, <1>5
<1> QED
  BY <1>5, <1>6, <1>7, EntryMeaning

(* The blocks of a chain are marked as in use.                             *)
LEMMA ChainMarked ==
    ASSUME NEW f, NEW s, IsChain(f, s)
    PROVE  \A x \in ToSet(s) : x \in Blocks /\ x \notin {FREE, RESERVED} /\ f[x] \notin {FREE, RESERVED}
<1>1. s \in Seq(Blocks)
  BY DEF IsChain, IsPath
<1>2. PICK n \in Nat : n = Len(s)
  BY <1>1, LenProperties
<1> SUFFICES ASSUME NEW i \in 1..n
             PROVE  s[i] \in Blocks /\ s[i] \notin {FREE, RESERVED} /\ f[s[i]] \notin {FREE, RESERVED}
  BY <1>1, <1>2, ToSetMeaning
<1>3. s[i] \in Blocks /\ s[i] \notin {FREE, RESERVED}
  BY <1>1, <1>2, ElementOfSeq DEF IsChain
<1>4. CASE i = n
  BY <1>2, <1>3, <1>4, Numbers DEF IsChain
<1>5. CASE i # n
  <2>1. PICK j \in 1..n : j = i + 1 /\ i \in 1..(n - 1)
    BY <1>5
  <2>2. f[s[i]] = s[j]
    BY <1>2, <2>1 DEF IsChain, IsPath
  <2>3. s[j] \notin {FREE, RESERVED}
    BY <1>2 DEF IsChain
  <2> QED
    BY <1>3, <2>2, <2>3
<1> QED
  BY <1>4, <1>5

LEMMA UsedMarked ==
    ASSUME NEW f, NEW blk, Sound(f, blk)
    PROVE  \A x \in Used(f, blk) : x \in Blocks /\ x \notin {FREE, RESERVED} /\ f[x] \notin {FREE, RESERVED}
<1> SUFFICES ASSUME NEW p \in Owners(blk), NEW x \in ToSet(Owned(f, blk, p))
             PROVE  x \in Blocks /\ x \notin {FREE, RESERVED} /\ f[x] \notin {FREE, RESERVED}
  BY DEF Used
<1>1. IsChain(f, Owned(f, blk, p))
  BY DEF Sound
<1> QED
  BY <1>1, ChainMarked

(* A chain that runs on does not end.                                      *)
LEMMA ChainEnds ==
    ASSUME NEW f, NEW s, IsChain(f, s)
    PROVE  ~Overruns(f, s)
<1>1. s \in Seq(Blocks)
  BY DEF IsChain, IsPath
<1>2. \A i \in DOMAIN s : s[i] \in ToSet(s)
  BY DEF ToSet
<1> QED
  BY <1>1, <1>2, ChainMarked DEF Overruns

----------------------------------------------------------------------------
(* What is linked in the image.                                            *)
LEMMA EntriesMeaning ==
    ASSUME fat \in Fats, NEW b \in Blocks \cup {EOF}
    PROVE  EntriesOf(b) = {p \in AllPlaces : /\ p.block \in ToSet(FollowChain(fat, b))
                                             /\ EntryAt(block, p).inUse}
<1>1. \A p \in EntriesOf(b) : /\ p \in AllPlaces /\ p.block \in ToSet(FollowChain(fat, b))
                              /\ EntryAt(block, p).inUse
  BY PlacesTyped DEF EntriesOf
<1>2. ASSUME NEW p \in AllPlaces, p.block \in ToSet(FollowChain(fat, b)), EntryAt(block, p).inUse
      PROVE  p \in EntriesOf(b)
  <2>1. PICK j \in DOMAIN Places(fat, b) : Places(fat, b)[j] = p
    BY <1>2, PlacesAll
  <2> QED
    BY <1>2, <2>1 DEF EntriesOf
<1> QED
  BY <1>1, <1>2

DirsBelow(k, n) ==
    IF n = 0 THEN {Root}
    ELSE {EntryAt(block, p).start :
             p \in {q \in UNION {EntriesOf(d) : d \in k[n - 1]} : EntryAt(block, q).dir}}

IsDirs(g, n) == g = [k \in 0..n |-> DirsBelow(g, k)]

LEMMA DirsExist ==
    ASSUME NEW N \in Nat
    PROVE  \E g : IsDirs(g, N)
<1> DEFINE Bad == {n \in 0..N : ~ \E g : IsDirs(g, n)}
<1> SUFFICES ASSUME Bad # {} PROVE FALSE
  OBVIOUS
<1>1. PICK n \in Bad : \A m \in Bad : n <= m
  <2>1. Bad \in SUBSET Nat
    OBVIOUS
  <2> HIDE DEF Bad
  <2> QED
    BY <2>1, Least
<1>2. CASE n = 0
  <2> DEFINE g == [k \in 0..0 |-> {Root}]
  <2>1. \A k \in 0..0 : k = 0
    OBVIOUS
  <2>2. \A k \in 0..0 : DirsBelow(g, k) = {Root}
    BY <2>1 DEF DirsBelow
  <2>3. IsDirs(g, 0)
    BY <2>2 DEF IsDirs
  <2> QED
    BY <1>2, <2>3
<1>3. CASE n # 0
  <2>1. n \in 1..N /\ n - 1 \in 0..N /\ ~(n <= n - 1)
    BY <1>3
  <2>2. PICK g : IsDirs(g, n - 1)
    <3>1. n - 1 \notin Bad
      BY <1>1, <2>1
    <3> QED
      BY <2>1, <3>1
  <2> DEFINE top == DirsBelow(g, n)
             h == [k \in 0..n |-> IF k = n THEN top ELSE g[k]]
  <2>3. \A k \in 0..(n - 1) : g[k] = DirsBelow(g, k)
    BY <2>2 DEF IsDirs
  <2>4. ASSUME NEW k \in 0..n PROVE h[k] = DirsBelow(h, k)
    <3>1. k # 0 => h[k - 1] = g[k - 1]
      BY <2>1
    <3>2. DirsBelow(h, k) = DirsBelow(g, k)
      <4> HIDE DEF h
      <4> QED
        BY <3>1 DEF DirsBelow
    <3>3. CASE k = n
      <4>1. h[k] = top
        BY <3>3
      <4> QED
        BY <3>2, <3>3, <4>1
    <3>4. CASE k # n
      <4>1. k \in 0..(n - 1) /\ h[k] = g[k]
        BY <2>1, <3>4
      <4> HIDE DEF h
      <4> QED
        BY <2>3, <3>2, <4>1
    <3> QED
      BY <3>3, <3>4
  <2>5. h = [k \in 0..n |-> DirsBelow(h, k)]
    BY <2>4
  <2>6. IsDirs(h, n)
    BY <2>5 DEF IsDirs
  <2> QED
    BY <2>6
<1> QED
  BY <1>2, <1>3

LEMMA DirsUnfold ==
    \A n \in 0..(MaxDepth - 1) : DirsAt[n] = DirsBelow(DirsAt, n)
<1>1. PICK N \in Nat : N = MaxDepth - 1
  BY DiskputAssumption
<1>2. \E g : IsDirs(g, N)
  BY DirsExist
<1>3. IsDirs(DirsAt, N)
  BY <1>1, <1>2 DEF DirsAt, IsDirs, DirsBelow
<1> QED
  BY <1>1, <1>3 DEF IsDirs

LEMMA FollowEnd ==
    ASSUME NEW f
    PROVE  FollowChain(f, EOF) = <<>>
<1>1. PICK g : Walks(g, f) /\ \A d : FollowChain(f, d) = g[NBlocks][d]
  BY FollowWalks
<1>2. NBlocks \in 0..NBlocks
  BY Numbers
<1> QED
  BY <1>1, <1>2 DEF Walks

LEMMA DirsTyped ==
    ASSUME fat \in Fats, Typed(block)
    PROVE  \A n \in 0..(MaxDepth - 1) : DirsAt[n] \subseteq Blocks
<1> DEFINE Bad == {n \in 0..(MaxDepth - 1) : ~(DirsAt[n] \subseteq Blocks)}
<1> SUFFICES ASSUME Bad # {} PROVE FALSE
  OBVIOUS
<1>1. PICK n \in Bad : \A m \in Bad : n <= m
  <2>1. Bad \in SUBSET Nat
    BY DiskputAssumption
  <2> HIDE DEF Bad
  <2> QED
    BY <2>1, Least
<1>2. DirsAt[n] = DirsBelow(DirsAt, n)
  BY DirsUnfold
<1>3. CASE n = 0
  BY <1>2, <1>3, Numbers DEF DirsBelow
<1>4. CASE n # 0
  <2>1. n - 1 \in 0..(MaxDepth - 1) /\ ~(n <= n - 1)
    BY <1>4, DiskputAssumption
  <2>2. DirsAt[n - 1] \subseteq Blocks
    BY <1>1, <2>1
  <2>3. PICK p : /\ p \in UNION {EntriesOf(d) : d \in DirsAt[n - 1]}
                 /\ EntryAt(block, p).dir /\ EntryAt(block, p).start \notin Blocks
    BY <1>2, <1>4 DEF DirsBelow
  <2>4. PICK d \in Blocks : p \in EntriesOf(d)
    BY <2>2, <2>3
  <2>5. p \in AllPlaces /\ EntryAt(block, p).inUse
    BY <2>4, EntriesMeaning
  <2>6. p \in InUse(block)
    BY <2>3, <2>5, EntryMeaning
  <2>7. EntryAt(block, p).start \in Blocks
    BY <2>6 DEF Typed, EntrySet
  <2> QED
    BY <2>3, <2>7
<1> QED
  BY <1>3, <1>4

(* A linked entry is one in use, or nobody's: it has no chain.             *)
LEMMA LinkedMeaning ==
    ASSUME fat \in Fats, Typed(block), NEW p \in Linked
    PROVE  \/ /\ p \in InUse(block) /\ ChainOf(p) = Owned(fat, block, p)
           \/ ~EntryAt(block, p).dir /\ EntryAt(block, p).blocks = 0 /\ ChainOf(p) = <<>>
<1>1. PICK n \in 0..(MaxDepth - 1) : \E d \in DirsAt[n] : p \in EntriesOf(d)
  BY DEF Linked
<1>2. PICK d \in Blocks : p \in EntriesOf(d)
  BY <1>1, DirsTyped
<1>3. p \in AllPlaces /\ EntryAt(block, p).inUse
  BY <1>2, EntriesMeaning
<1>4. CASE p \in InUse(block)
  <2>1. StartOf(block, p) = EntryAt(block, p).start
    BY <1>4, OwnersTyped
  <2> QED
    BY <1>4, <2>1 DEF ChainOf, Owned
<1>5. CASE EntryAt(block, p) = Foreign
  <2>1. ~EntryAt(block, p).dir /\ EntryAt(block, p).blocks = 0 /\ EntryAt(block, p).start = EOF
    BY <1>3, <1>5, EntryMeaning
  <2> QED
    BY <2>1, FollowEnd DEF ChainOf
<1> QED
  BY <1>3, <1>4, <1>5, EntryMeaning

LEMMA RootOwned ==
    Owned(fat, block, RootPlace) = RootChain /\ RootPlace \in Owners(block) /\ IsDir(block, RootPlace)
BY DEF Owned, StartOf, RootChain, Owners, IsDir

LEMMA SoundNotTorn ==
    ASSUME fat \in Fats, Typed(block), Sound(fat, block)
    PROVE  ~Torn
<1>1. ~Overruns(fat, RootChain)
  BY RootOwned, ChainEnds DEF Sound
<1>2. ASSUME NEW p \in Linked PROVE ~Overruns(fat, ChainOf(p))
  <2>1. CASE p \in InUse(block) /\ ChainOf(p) = Owned(fat, block, p)
    BY <2>1, OwnersTyped, ChainEnds DEF Sound
  <2>2. CASE ChainOf(p) = <<>>
    BY <2>2 DEF Overruns
  <2> QED
    BY <2>1, <2>2, LinkedMeaning
<1>3. \A s : RunsOn(s) <=> Overruns(fat, s)
  BY DEF RunsOn, Overruns
<1> QED
  BY <1>1, <1>2, <1>3 DEF Torn

LEMMA SoundChains ==
    ASSUME fat \in Fats, Typed(block), Sound(fat, block)
    PROVE  ChainsSound
<1>1. ASSUME NEW p \in Linked
      PROVE  /\ IsInjective(ChainOf(p))
             /\ IF EntryAt(block, p).dir
                THEN Len(ChainOf(p)) >= EntryAt(block, p).blocks
                ELSE Len(ChainOf(p)) = EntryAt(block, p).blocks
             /\ ToSet(ChainOf(p)) \cap ToSet(RootChain) = {}
  <2>1. CASE p \in InUse(block) /\ ChainOf(p) = Owned(fat, block, p)
    <3>1. PICK s : s = ChainOf(p) /\ IsChain(fat, s) /\ Fits(EntryAt(block, p), s)
      BY <2>1, OwnersTyped DEF Sound
    <3>2. Len(s) \in 1..NBlocks /\ s \in Seq(Blocks)
      BY <3>1, ChainLength DEF IsChain, IsPath
    <3>3. DOMAIN s = 1..Len(s)
      BY <3>2, LenProperties
    <3>4. IsInjective(s)
      BY <3>1, <3>3 DEF IsChain, IsInjective
    <3>5. IF EntryAt(block, p).dir THEN Len(s) >= EntryAt(block, p).blocks
                                   ELSE Len(s) = EntryAt(block, p).blocks
      BY <3>1, <3>2, Numbers DEF Fits
    <3>6. ToSet(s) \cap ToSet(RootChain) = {}
      BY <2>1, <3>1, RootOwned, OwnersTyped DEF Sound
    <3> QED
      BY <3>1, <3>4, <3>5, <3>6
  <2>2. CASE ~EntryAt(block, p).dir /\ EntryAt(block, p).blocks = 0 /\ ChainOf(p) = <<>>
    <3>1. Len(<<>>) = 0 /\ ToSet(<<>>) = {} /\ IsInjective(<<>>)
      BY DEF ToSet, IsInjective
    <3> QED
      BY <2>2, <3>1
  <2> QED
    BY <2>1, <2>2, LinkedMeaning
<1>2. ASSUME NEW p \in Linked, NEW q \in Linked, p # q
      PROVE  ToSet(ChainOf(p)) \cap ToSet(ChainOf(q)) = {}
  <2>1. ToSet(<<>>) = {}
    BY DEF ToSet
  <2>2. CASE ChainOf(p) = <<>> \/ ChainOf(q) = <<>>
    BY <2>1, <2>2
  <2>3. CASE ChainOf(p) # <<>> /\ ChainOf(q) # <<>>
    <3>1. /\ p \in Owners(block) /\ ChainOf(p) = Owned(fat, block, p)
          /\ q \in Owners(block) /\ ChainOf(q) = Owned(fat, block, q)
      BY <2>3, LinkedMeaning, OwnersTyped
    <3> QED
      BY <1>2, <3>1 DEF Sound
  <2> QED
    BY <2>2, <2>3
<1> QED
  BY <1>1, <1>2 DEF ChainsSound

(* What can be walked down to is linked.                                   *)
LEMMA WayDown ==
    ASSUME fat \in Fats, Typed(block), NEW n \in 1..MaxDepth, NEW c, WayTo(fat, block, c, n)
    PROVE  c \in DirsAt[n - 1]
<1>1. PICK r \in [1..n -> Blocks] : /\ r[1] = Root /\ r[n] = c
                                    /\ \A i \in 1..(n - 1) : Sub(fat, block, r[i], r[i + 1])
  BY DEF WayTo
<1> DEFINE Bad == {i \in 1..n : r[i] \notin DirsAt[i - 1]}
<1>2. ASSUME Bad # {} PROVE FALSE
  <2>1. PICK i \in Bad : \A m \in Bad : i <= m
    <3>1. Bad \in SUBSET Nat
      OBVIOUS
    <3> HIDE DEF Bad
    <3> QED
      BY <1>2, <3>1, Least
  <2>2. PICK k \in 0..(MaxDepth - 1) : k = i - 1
    BY DiskputAssumption
  <2>3. DirsAt[k] = DirsBelow(DirsAt, k)
    BY DirsUnfold
  <2>4. CASE k = 0
    <3>1. r[i] = Root /\ r[i] \notin DirsAt[k]
      BY <1>1, <2>2, <2>4
    <3> QED
      BY <2>3, <2>4, <3>1 DEF DirsBelow
  <2>5. CASE k # 0
    <3>1. k \in 1..n /\ k \in 1..(n - 1) /\ ~(i <= k) /\ k + 1 = i
      BY <2>2, <2>5
    <3>2. r[k] \in DirsAt[k - 1] /\ r[k] \in Blocks
      BY <2>1, <3>1
    <3>3. Sub(fat, block, r[k], r[i])
      BY <1>1, <3>1
    <3>4. PICK p \in InUse(block) : /\ p.block \in ToSet(FollowChain(fat, r[k]))
                                    /\ EntryAt(block, p).dir
                                    /\ EntryAt(block, p).start = r[i]
      BY <3>3 DEF Sub
    <3>5. p \in AllPlaces /\ EntryAt(block, p).inUse
      BY DEF InUse, AllPlaces
    <3>6. p \in EntriesOf(r[k])
      BY <3>2, <3>4, <3>5, EntriesMeaning
    <3>7. r[i] \in DirsBelow(DirsAt, k)
      BY <2>5, <3>2, <3>4, <3>6 DEF DirsBelow
    <3> QED
      BY <2>2, <2>3, <3>7
  <2> QED
    BY <2>4, <2>5
<1>3. n \in 1..n
  OBVIOUS
<1> QED
  BY <1>1, <1>2, <1>3

LEMMA OverrunTorn ==
    ASSUME fat \in Fats, Typed(block), Overrun(fat, block)
    PROVE  /\ Torn
           /\ \A p \in Linked : RunsOn(ChainOf(p)) => EntryAt(block, p).dir
<1>1. \A s : RunsOn(s) <=> Overruns(fat, s)
  BY DEF RunsOn, Overruns
<1>2. PICK d \in Owners(block) : /\ IsDir(block, d) /\ Reached(fat, block, d)
                                 /\ Overruns(fat, Owned(fat, block, d))
  BY DEF Overrun
<1>3. ASSUME d = RootPlace PROVE Torn
  BY <1>1, <1>2, <1>3, RootOwned DEF Torn
<1>4. ASSUME d # RootPlace PROVE Torn
  <2>1. d \in InUse(block) /\ d \in AllPlaces /\ EntryAt(block, d).inUse
    BY <1>2, <1>4 DEF Owners, InUse, AllPlaces
  <2>2. PICK n \in 1..MaxDepth, c \in Blocks :
            WayTo(fat, block, c, n) /\ d.block \in ToSet(FollowChain(fat, c))
    BY <1>2, <1>4 DEF Reached
  <2>3. c \in DirsAt[n - 1] /\ n - 1 \in 0..(MaxDepth - 1)
    BY <2>2, WayDown, DiskputAssumption
  <2>4. d \in EntriesOf(c)
    BY <2>1, <2>2, EntriesMeaning
  <2>5. d \in Linked
    BY <2>3, <2>4 DEF Linked
  <2>6. ChainOf(d) = Owned(fat, block, d)
    BY <2>1, OwnersTyped DEF ChainOf, Owned
  <2> QED
    BY <1>1, <1>2, <2>5, <2>6 DEF Torn
<1>5. ASSUME NEW p \in Linked, RunsOn(ChainOf(p)) PROVE EntryAt(block, p).dir
  <2>1. CASE p \in InUse(block) /\ ChainOf(p) = Owned(fat, block, p)
    <3>1. IsDir(block, p)
      BY <1>1, <1>5, <2>1 DEF Overrun
    <3>2. p # RootPlace
      BY <2>1, OwnersTyped
    <3> QED
      BY <2>1, <3>1, <3>2 DEF IsDir
  <2>2. CASE ChainOf(p) = <<>>
    BY <1>5, <2>2 DEF RunsOn
  <2> QED
    BY <2>1, <2>2, LinkedMeaning
<1> QED
  BY <1>3, <1>4, <1>5

----------------------------------------------------------------------------
(* The way down to a directory.                                            *)
LEMMA WayRoot ==
    ASSUME NEW f, NEW blk
    PROVE  WayTo(f, blk, Root, 1)
<1>1. PICK r : r = [i \in 1..1 |-> Root]
  OBVIOUS
<1>2. r \in [1..1 -> Blocks] /\ r[1] = Root /\ \A i \in 1..(1 - 1) : Sub(f, blk, r[i], r[i + 1])
  BY <1>1, Numbers
<1> QED
  BY <1>2 DEF WayTo

LEMMA WayOn ==
    ASSUME NEW f, NEW blk, NEW d, NEW n \in Nat \ {0}, WayTo(f, blk, d, n),
           NEW e \in Blocks, Sub(f, blk, d, e)
    PROVE  WayTo(f, blk, e, n + 1)
<1>1. PICK r \in [1..n -> Blocks] : /\ r[1] = Root /\ r[n] = d
                                    /\ \A i \in 1..(n - 1) : Sub(f, blk, r[i], r[i + 1])
  BY DEF WayTo
<1>2. PICK m \in Nat : m = n + 1 /\ m # 1 /\ m - 1 = n /\ 1 \in 1..m /\ m \in 1..m
  OBVIOUS
<1>3. PICK t : t = [i \in 1..m |-> IF i = m THEN e ELSE r[i]]
  OBVIOUS
<1>4. \A i \in 1..m : i = m \/ i \in 1..n
  BY <1>2
<1>5. t \in [1..m -> Blocks] /\ t[1] = Root /\ t[m] = e
  BY <1>1, <1>2, <1>3, <1>4
<1>6. ASSUME NEW i \in 1..(m - 1) PROVE Sub(f, blk, t[i], t[i + 1])
  <2>1. i \in 1..m /\ i # m /\ i \in 1..n /\ i + 1 \in 1..m
    BY <1>2
  <2>2. CASE i = n
    <3>1. t[i] = d /\ t[i + 1] = e
      BY <1>1, <1>2, <1>3, <2>1, <2>2
    <3> QED
      BY <3>1
  <2>3. CASE i # n
    <3>1. i \in 1..(n - 1) /\ i + 1 # m
      BY <1>2, <2>3
    <3>2. t[i] = r[i] /\ t[i + 1] = r[i + 1]
      BY <1>3, <2>1, <3>1
    <3> QED
      BY <1>1, <3>1, <3>2
  <2> QED
    BY <2>2, <2>3
<1>7. WayTo(f, blk, e, m)
  BY <1>5, <1>6 DEF WayTo
<1> QED
  BY <1>2, <1>7

IsStart(blk, a) == \E o \in Owners(blk) : IsDir(blk, o) /\ StartOf(blk, o) = a

LEMMA SubStarts ==
    ASSUME NEW f, NEW blk, Typed(blk), NEW d, NEW e, Sub(f, blk, d, e)
    PROVE  IsStart(blk, e)
<1>1. PICK p \in InUse(blk) : EntryAt(blk, p).dir /\ EntryAt(blk, p).start = e
  BY DEF Sub
<1>2. p \in Owners(blk) /\ StartOf(blk, p) = e /\ IsDir(blk, p)
  BY <1>1, OwnersTyped DEF IsDir
<1> QED
  BY <1>2 DEF IsStart

LEMMA RootStarts ==
    ASSUME NEW blk
    PROVE  IsStart(blk, Root)
<1>1. RootPlace \in Owners(blk) /\ StartOf(blk, RootPlace) = Root /\ IsDir(blk, RootPlace)
  BY DEF Owners, StartOf, IsDir
<1> QED
  BY <1>1 DEF IsStart

LEMMA WayStarts ==
    ASSUME NEW f, NEW blk, Typed(blk), NEW d, NEW n \in Nat \ {0}, WayTo(f, blk, d, n)
    PROVE  IsStart(blk, d)
<1>1. PICK r \in [1..n -> Blocks] : /\ r[1] = Root /\ r[n] = d
                                    /\ \A i \in 1..(n - 1) : Sub(f, blk, r[i], r[i + 1])
  BY DEF WayTo
<1>2. CASE n = 1
  BY <1>1, <1>2, RootStarts
<1>3. CASE n # 1
  <2>1. PICK k \in 1..(n - 1) : k + 1 = n
    BY <1>3
  <2>2. Sub(f, blk, r[k], d)
    BY <1>1, <2>1
  <2> QED
    BY <2>2, SubStarts
<1> QED
  BY <1>2, <1>3

(* The directories of one image are still there in the other.              *)
Kept(f, blk, g, new) ==
    \A o \in Owners(blk), p \in InUse(blk) :
        IsDir(blk, o) /\ p.block \in ToSet(FollowChain(f, StartOf(blk, o))) =>
            /\ p \in InUse(new) /\ EntryAt(new, p) = EntryAt(blk, p)
            /\ p.block \in ToSet(FollowChain(g, StartOf(blk, o)))

LEMMA SubKept ==
    ASSUME NEW f, NEW blk, NEW g, NEW new, Kept(f, blk, g, new),
           NEW d, NEW e, IsStart(blk, d), Sub(f, blk, d, e)
    PROVE  Sub(g, new, d, e)
<1>1. PICK p \in InUse(blk) : /\ p.block \in ToSet(FollowChain(f, d))
                              /\ EntryAt(blk, p).dir
                              /\ EntryAt(blk, p).start = e
  BY DEF Sub
<1>2. PICK o \in Owners(blk) : IsDir(blk, o) /\ StartOf(blk, o) = d
  BY DEF IsStart
<1>3. /\ p \in InUse(new) /\ EntryAt(new, p) = EntryAt(blk, p)
      /\ p.block \in ToSet(FollowChain(g, d))
  BY <1>1, <1>2 DEF Kept
<1> QED
  BY <1>1, <1>3 DEF Sub

LEMMA WayKept ==
    ASSUME NEW f, NEW blk, NEW g, NEW new, Typed(blk), Kept(f, blk, g, new),
           NEW d, NEW n \in Nat \ {0}, WayTo(f, blk, d, n)
    PROVE  WayTo(g, new, d, n)
<1>1. PICK r \in [1..n -> Blocks] : /\ r[1] = Root /\ r[n] = d
                                    /\ \A i \in 1..(n - 1) : Sub(f, blk, r[i], r[i + 1])
  BY DEF WayTo
<1>2. ASSUME NEW i \in 1..(n - 1) PROVE Sub(g, new, r[i], r[i + 1])
  <2>1. CASE i = 1
    <3>1. IsStart(blk, r[i])
      BY <1>1, <2>1, RootStarts
    <3> QED
      BY <1>1, <3>1, SubKept
  <2>2. CASE i # 1
    <3>1. PICK k \in 1..(n - 1) : k + 1 = i
      BY <2>2
    <3>2. Sub(f, blk, r[k], r[i])
      BY <1>1, <3>1
    <3>3. IsStart(blk, r[i])
      BY <3>2, SubStarts
    <3> QED
      BY <1>1, <3>3, SubKept
  <2> QED
    BY <2>1, <2>2
<1> QED
  BY <1>1, <1>2 DEF WayTo

LEMMA ReachedKept ==
    ASSUME NEW f, NEW blk, NEW g, NEW new, Typed(blk), Kept(f, blk, g, new),
           NEW p \in InUse(blk), Reached(f, blk, p)
    PROVE  Reached(g, new, p)
<1>1. p # RootPlace
  BY OwnersTyped
<1>2. PICK m \in 1..MaxDepth, c \in Blocks : WayTo(f, blk, c, m) /\ p.block \in ToSet(FollowChain(f, c))
  BY <1>1 DEF Reached
<1>3. m \in Nat \ {0}
  BY DiskputAssumption
<1>4. WayTo(g, new, c, m) /\ IsStart(blk, c)
  BY <1>2, <1>3, WayKept, WayStarts
<1>5. PICK o \in Owners(blk) : IsDir(blk, o) /\ StartOf(blk, o) = c
  BY <1>4 DEF IsStart
<1>6. p.block \in ToSet(FollowChain(g, c))
  BY <1>2, <1>5 DEF Kept
<1> QED
  BY <1>4, <1>6 DEF Reached

LEMMA DirOwner ==
    ASSUME NEW f, NEW blk, Typed(blk), NEW d, NEW n \in 1..MaxDepth, WayTo(f, blk, d, n)
    PROVE  \E o \in Owners(blk) : IsDir(blk, o) /\ StartOf(blk, o) = d /\ Reached(f, blk, o)
<1>1. PICK r \in [1..n -> Blocks] : /\ r[1] = Root /\ r[n] = d
                                    /\ \A i \in 1..(n - 1) : Sub(f, blk, r[i], r[i + 1])
  BY DEF WayTo
<1>2. CASE n = 1
  <2>1. /\ RootPlace \in Owners(blk) /\ StartOf(blk, RootPlace) = d /\ IsDir(blk, RootPlace)
        /\ Reached(f, blk, RootPlace)
    BY <1>1, <1>2 DEF Owners, StartOf, IsDir, Reached
  <2> QED
    BY <2>1
<1>3. CASE n # 1
  <2>1. PICK k \in 1..(n - 1) : k + 1 = n /\ k \in 1..MaxDepth /\ k \in 1..n
    BY <1>3, DiskputAssumption
  <2>2. Sub(f, blk, r[k], d) /\ r[k] \in Blocks
    BY <1>1, <2>1
  <2>3. WayTo(f, blk, r[k], k)
    <3>1. PICK t : t = [i \in 1..k |-> r[i]]
      OBVIOUS
    <3>2. \A i \in 1..k : i \in 1..n
      BY <2>1
    <3>3. t \in [1..k -> Blocks] /\ \A i \in 1..k : t[i] = r[i]
      BY <3>1, <3>2
    <3>4. 1 \in 1..k /\ k \in 1..k /\ \A i \in 1..(k - 1) : i \in 1..k /\ i + 1 \in 1..k /\ i \in 1..(n - 1)
      BY <2>1
    <3>5. t[1] = Root /\ t[k] = r[k] /\ \A i \in 1..(k - 1) : Sub(f, blk, t[i], t[i + 1])
      BY <1>1, <3>3, <3>4
    <3> QED
      BY <3>3, <3>5 DEF WayTo
  <2>4. PICK p \in InUse(blk) : /\ p.block \in ToSet(FollowChain(f, r[k]))
                                /\ EntryAt(blk, p).dir
                                /\ EntryAt(blk, p).start = d
    BY <2>2 DEF Sub
  <2>5. p \in Owners(blk) /\ IsDir(blk, p) /\ StartOf(blk, p) = d
    BY <2>4, OwnersTyped DEF IsDir
  <2>6. Reached(f, blk, p)
    BY <2>1, <2>2, <2>3, <2>4 DEF Reached
  <2> QED
    BY <2>5, <2>6
<1> QED
  BY <1>2, <1>3

----------------------------------------------------------------------------
(* The image while a decision is being written.                            *)
LEMMA OthersSame ==
    ASSUME NEW f \in Fats, NEW g \in Fats, NEW blk, Typed(blk), Sound(f, blk), NEW o \in Owners(blk),
           \A x \in Used(f, blk) \ ToSet(Owned(f, blk, o)) : g[x] = f[x]
    PROVE  \A p \in Owners(blk) : p # o => Owned(g, blk, p) = Owned(f, blk, p) /\ IsChain(g, Owned(g, blk, p))
<1> SUFFICES ASSUME NEW p \in Owners(blk), p # o
             PROVE  Owned(g, blk, p) = Owned(f, blk, p) /\ IsChain(g, Owned(g, blk, p))
  OBVIOUS
<1>1. PICK b \in Blocks : b = StartOf(blk, p)
  BY OwnersTyped
<1>2. IsChain(f, FollowChain(f, b)) /\ ToSet(FollowChain(f, b)) \cap ToSet(Owned(f, blk, o)) = {}
  BY <1>1 DEF Sound, Owned
<1>3. \A x \in ToSet(FollowChain(f, b)) : g[x] = f[x]
  BY <1>1, <1>2 DEF Used, Owned
<1> QED
  BY <1>1, <1>2, <1>3, SameChain DEF Owned

(* The directory is cut off before its last block ...                      *)
LEMMA CutShort ==
    ASSUME NEW f \in Fats, NEW g \in Fats, NEW blk, Typed(blk), Sound(f, blk),
           NEW o \in Owners(blk), IsDir(blk, o), NEW s, NEW n, s = Owned(f, blk, o), n = Len(s), n > 1,
           g[s[n - 1]] = EOF, \A i \in 1..(n - 2) : g[s[i]] = f[s[i]],
           \A x \in Used(f, blk) \ ToSet(s) : g[x] = f[x]
    PROVE  Sound(g, blk)
<1>1. PICK b \in Blocks : b = StartOf(blk, o)
  BY OwnersTyped
<1>2. s = FollowChain(f, b) /\ IsChain(f, s)
  BY <1>1 DEF Sound, Owned
<1>3. IsChain(g, FollowChain(g, b)) /\ ToSet(FollowChain(g, b)) \subseteq ToSet(s)
  BY <1>1, <1>2, ShorterChain
<1>4. IsChain(g, Owned(g, blk, o)) /\ ToSet(Owned(g, blk, o)) \subseteq ToSet(Owned(f, blk, o))
  BY <1>1, <1>2, <1>3 DEF Owned
<1>5. \A p \in Owners(blk) : p # o => Owned(g, blk, p) = Owned(f, blk, p) /\ IsChain(g, Owned(g, blk, p))
  BY OthersSame
<1>6. ASSUME NEW p \in Owners(blk)
      PROVE  IsChain(g, Owned(g, blk, p)) /\ ToSet(Owned(g, blk, p)) \subseteq ToSet(Owned(f, blk, p))
  BY <1>4, <1>5
<1>7. ASSUME NEW p \in InUse(blk) PROVE Fits(EntryAt(blk, p), Owned(g, blk, p))
  <2>1. p \in Owners(blk) /\ p # RootPlace /\ Fits(EntryAt(blk, p), Owned(f, blk, p))
    BY OwnersTyped DEF Sound
  <2>2. CASE p = o
    BY <2>1, <2>2 DEF Fits, IsDir
  <2>3. CASE p # o
    BY <1>5, <2>1, <2>3
  <2> QED
    BY <2>2, <2>3
<1> QED
  BY <1>6, <1>7, SoundSmaller

(* ... or runs on into it.                                                 *)
LEMMA RunsOver ==
    ASSUME NEW f \in Fats, NEW g \in Fats, NEW blk, Typed(blk), Sound(f, blk),
           NEW o \in Owners(blk), IsDir(blk, o), Reached(f, blk, o),
           NEW s, NEW n, s = Owned(f, blk, o), n = Len(s), n > 1,
           g[s[n]] = FREE, \A i \in 1..(n - 1) : g[s[i]] = f[s[i]],
           \A x \in Used(f, blk) \ ToSet(s) : g[x] = f[x]
    PROVE  Overrun(g, blk)
<1>1. PICK b \in Blocks : b = StartOf(blk, o)
  BY OwnersTyped
<1>2. s = FollowChain(f, b) /\ IsChain(f, s)
  BY <1>1 DEF Sound, Owned
<1>3. n \in 1..NBlocks /\ s \in Seq(Blocks) /\ s[1] = b
  BY <1>2, ChainFollowed, ChainStarts
<1>4. IsPath(g, s, n)
  BY <1>2, <1>3 DEF IsPath, IsChain
<1>5. PICK t \in Seq(Blocks) : /\ t = FollowChain(g, b) /\ Len(t) >= n
                               /\ \A i \in 1..n : t[i] = s[i]
  BY <1>3, <1>4, FollowsPath
<1>6. Len(t) \in Nat /\ DOMAIN t = 1..Len(t) /\ n \in 1..n /\ n \in 1..Len(t) /\ \A i \in 1..n : i \in 1..Len(t)
  BY <1>3, <1>5, LenProperties
<1>7. Overruns(g, Owned(g, blk, o))
  <2>1. g[t[n]] = FREE
    BY <1>5, <1>6
  <2>2. t = Owned(g, blk, o)
    BY <1>1, <1>5 DEF Owned
  <2> QED
    BY <1>6, <2>1, <2>2 DEF Overruns
<1>8. ToSet(s) \subseteq ToSet(FollowChain(g, b))
  <2>1. ToSet(s) = {s[i] : i \in 1..n} /\ ToSet(t) = {t[i] : i \in 1..Len(t)}
    BY <1>3, <1>5, ToSetMeaning
  <2> QED
    BY <1>5, <1>6, <2>1
<1>9. \A p \in Owners(blk) : p # o => Owned(g, blk, p) = Owned(f, blk, p) /\ IsChain(g, Owned(g, blk, p))
  BY OthersSame
<1>10. Kept(f, blk, g, blk)
  <2>1. ASSUME NEW p \in Owners(blk)
        PROVE  ToSet(FollowChain(f, StartOf(blk, p))) \subseteq ToSet(FollowChain(g, StartOf(blk, p)))
    <3>1. CASE p = o
      BY <1>1, <1>2, <1>8, <3>1
    <3>2. CASE p # o
      BY <1>9, <3>2 DEF Owned
    <3> QED
      BY <3>1, <3>2
  <2> QED
    BY <2>1 DEF Kept
<1>11. Reached(g, blk, o)
  <2>1. CASE o = RootPlace
    BY <2>1 DEF Reached
  <2>2. CASE o # RootPlace
    <3>1. o \in InUse(blk)
      BY <2>2 DEF Owners
    <3> QED
      BY <1>10, <3>1, ReachedKept
  <2> QED
    BY <2>1, <2>2
<1>12. ASSUME NEW p \in InUse(blk), ~IsDir(blk, p) PROVE ~Overruns(g, Owned(g, blk, p))
  <2>1. p \in Owners(blk) /\ p # o
    BY <1>12, OwnersTyped
  <2> QED
    BY <1>9, <2>1, ChainEnds
<1> QED
  BY <1>7, <1>11, <1>12 DEF Overrun

LEMMA CompDeep ==
    ASSUME TypeOK, pc # "none"
    PROVE  comp \in 1..MaxDepth
<1>1. PICK d \in 1..MaxDepth : path \in [1..d -> Names]
  BY DEF TypeOK, Paths
<1>2. Len(path) = d
  BY <1>1, DiskputAssumption
<1>3. comp \in 1..d
  BY <1>2 DEF TypeOK
<1> QED
  BY <1>3, DiskputAssumption

LEMMA CurrentDir ==
    ASSUME TypeOK, pc # "none", NEW f, WayTo(f, block, dir, comp)
    PROVE  \E o \in Owners(block) : /\ IsDir(block, o) /\ Reached(f, block, o)
                                   /\ StartOf(block, o) = dir
                                   /\ Owned(f, block, o) = FollowChain(f, dir)
<1>1. comp \in 1..MaxDepth
  BY CompDeep
<1>2. Typed(block)
  BY DEF TypeOK, Typed
<1>3. PICK o \in Owners(block) : IsDir(block, o) /\ StartOf(block, o) = dir /\ Reached(f, block, o)
  BY <1>1, <1>2, DirOwner
<1> QED
  BY <1>3 DEF Owned

(* What of the directory's chain is not on disk yet: nothing, or its new   *)
(* last block, or the mark that ends it there.                             *)
Unlooked == ~todo[1].checked /\ (2 \in DOMAIN todo => ~todo[2].checked)
Behind(s, n) ==
    /\ \A x \in Used(mem, block) \ ToSet(s) : fat[x] = mem[x]
    /\ \/ \A x \in Used(mem, block) : fat[x] = mem[x]
       \/ /\ n > 1 /\ fat[s[n - 1]] = EOF /\ fat[s[n]] = FREE
          /\ \A k \in 1..(n - 2) : fat[s[k]] = mem[s[k]]
       \/ /\ n > 1 /\ fat[s[n]] = FREE /\ Unlooked
          /\ \A k \in 1..(n - 1) : fat[s[k]] = mem[s[k]]

LEMMA DiskBehind ==
    ASSUME TypeOK, Base, Working, pc = "writing"
    PROVE  \E o \in Owners(block) :
              /\ IsDir(block, o) /\ Reached(mem, block, o) /\ StartOf(block, o) = dir
              /\ Owned(mem, block, o) = Here0 /\ Behind(Here0, Len(Here0))
<1>1. fat \in Fats /\ mem \in Fats /\ Typed(block) /\ Sound(mem, block)
  BY DEF TypeOK, Working, Typed
<1>2. Ahead /\ Extending
  BY DEF Working
<1>3. PICK o \in Owners(block) : /\ IsDir(block, o) /\ Reached(mem, block, o)
                               /\ StartOf(block, o) = dir /\ Owned(mem, block, o) = Here0
  BY CurrentDir DEF Working, Here0
<1>4. PICK s : s = Here0 /\ s = Owned(mem, block, o) /\ IsChain(mem, s)
  BY <1>1, <1>3 DEF Sound
<1>5. PICK n \in Nat : n = Len(s)
  BY <1>4, ChainLength, Numbers
<1>6. s \in Seq(Blocks) /\ ToSet(s) = {s[i] : i \in 1..n} /\ ToSet(s) \subseteq Used(mem, block)
  BY <1>4, <1>5, ToSetMeaning DEF IsChain, IsPath, Used
<1>7. \A i, j \in 1..n : i # j => s[i] # s[j]
  BY <1>4, <1>5 DEF IsChain
<1> DEFINE Pend(i) == IsFat(i) /\ todo[i].at \in Used(mem, block)
<1>8. ASSUME NEW x \in Used(mem, block), \A i \in DOMAIN todo : Pend(i) => todo[i].at # x
      PROVE  fat[x] = mem[x]
  <2>1. x \in Blocks
    BY <1>1, UsedMarked
  <2>2. ~Pending(x)
    BY <1>8 DEF Pending, IsFat
  <2> QED
    BY <1>2, <2>1, <2>2 DEF Ahead
<1>9. ASSUME NEW i \in DOMAIN todo, Pend(i)
      PROVE  n > 1 /\ ~todo[i].checked /\ (OldLast(i) \/ NewLast(i)) /\ todo[i].at \in {s[n - 1], s[n]}
  <2>1. ~todo[i].checked /\ (OldLast(i) \/ NewLast(i))
    BY <1>2, <1>9 DEF Extending
  <2> QED
    BY <1>4, <1>5, <2>1 DEF OldLast, NewLast
<1>10. ASSUME NEW i \in DOMAIN todo, Pend(i)
       PROVE  \A x \in Used(mem, block) \ ToSet(s) : fat[x] = mem[x]
  <2>1. n - 1 \in 1..n /\ n \in 1..n
    BY <1>9, <1>10
  <2>2. s[n - 1] \in ToSet(s) /\ s[n] \in ToSet(s)
    BY <1>6, <2>1
  <2> QED
    BY <1>8, <1>9, <2>2
<1>11. \A x \in Used(mem, block) \ ToSet(s) : fat[x] = mem[x]
  <2>1. CASE \E i \in DOMAIN todo : Pend(i)
    BY <1>10, <2>1
  <2>2. CASE ~ \E i \in DOMAIN todo : Pend(i)
    BY <1>8, <2>2
  <2> QED
    BY <2>1, <2>2
<1> SUFFICES Behind(s, n)
  BY <1>3, <1>4, <1>5
<1>12. CASE \A i \in DOMAIN todo : ~Pend(i)
  <2>1. \A x \in Used(mem, block) : fat[x] = mem[x]
    BY <1>8, <1>12
  <2> QED
    BY <1>11, <2>1 DEF Behind
<1>13. CASE \E i \in DOMAIN todo : Pend(i) /\ OldLast(i)
  <2>1. PICK i \in DOMAIN todo : Pend(i) /\ OldLast(i)
    BY <1>13
  <2>2. n > 1 /\ fat[s[n - 1]] = EOF /\ IsFat(i + 1) /\ todo[i + 1].at = s[n]
    BY <1>4, <1>5, <2>1 DEF OldLast
  <2>3. ASSUME NEW k \in 1..(n - 2) PROVE fat[s[k]] = mem[s[k]]
    <3>1. k \in 1..n /\ n - 1 \in 1..n /\ n \in 1..n /\ k # n - 1 /\ k # n
      BY <2>2
    <3>2. s[k] # s[n - 1] /\ s[k] # s[n] /\ s[k] \in Used(mem, block)
      BY <1>6, <1>7, <3>1
    <3> QED
      BY <1>8, <1>9, <3>2
  <2>4. fat[s[n]] = FREE
    <3>1. n \in 1..n /\ n - 1 \in 1..n /\ n # n - 1
      BY <2>2
    <3>2. s[n] \in Used(mem, block) /\ s[n] # s[n - 1]
      BY <1>6, <1>7, <3>1
    <3>3. i + 1 \in DOMAIN todo /\ Pend(i + 1)
      BY <2>2, <3>2 DEF IsFat
    <3>4. OldLast(i + 1) \/ NewLast(i + 1)
      BY <1>9, <3>3
    <3>5. ~OldLast(i + 1)
      BY <1>4, <1>5, <2>2, <3>2 DEF OldLast
    <3> QED
      BY <2>2, <3>4, <3>5 DEF NewLast
  <2> QED
    BY <1>11, <2>2, <2>3, <2>4 DEF Behind
<1>14. CASE /\ \E i \in DOMAIN todo : Pend(i)
            /\ \A i \in DOMAIN todo : ~(Pend(i) /\ OldLast(i))
  <2>1. PICK i \in DOMAIN todo : Pend(i) /\ NewLast(i)
    BY <1>9, <1>14
  <2>2. n > 1 /\ fat[s[n]] = FREE /\ n - 1 \in 1..n /\ n \in 1..n /\ s[n - 1] # s[n]
    <3>1. n > 1 /\ fat[s[n]] = FREE
      BY <1>4, <1>5, <2>1 DEF NewLast
    <3>2. n - 1 \in 1..n /\ n \in 1..n /\ n - 1 # n
      BY <3>1
    <3> QED
      BY <1>7, <3>1, <3>2
  <2>3. \A j \in DOMAIN todo : Pend(j) => NewLast(j) /\ todo[j].at = s[n]
    BY <1>4, <1>5, <1>9, <1>14 DEF NewLast
  <2>4. i = 1
    <3> SUFFICES ASSUME i # 1 PROVE FALSE
      OBVIOUS
    <3>1. IsFat(i - 1) /\ todo[i - 1].at = s[n - 1]
      BY <1>4, <1>5, <2>1 DEF NewLast
    <3>2. s[n - 1] \in Used(mem, block)
      BY <1>6, <2>2
    <3>3. i - 1 \in DOMAIN todo /\ Pend(i - 1)
      BY <3>1, <3>2 DEF IsFat
    <3> QED
      BY <2>2, <2>3, <3>1, <3>3
  <2>5. Unlooked
    <3>1. ~todo[1].checked
      BY <1>9, <2>1, <2>4
    <3>2. 1 + 1 \in DOMAIN todo => ~todo[1 + 1].checked
      BY <2>1, <2>4 DEF NewLast
    <3> QED
      BY <3>1, <3>2 DEF Unlooked
  <2>6. ASSUME NEW k \in 1..(n - 1) PROVE fat[s[k]] = mem[s[k]]
    <3>1. k \in 1..n /\ n \in 1..n /\ k # n
      BY <2>2
    <3>2. s[k] # s[n] /\ s[k] \in Used(mem, block)
      BY <1>6, <1>7, <3>1
    <3> QED
      BY <1>8, <2>3, <3>2
  <2> QED
    BY <1>11, <2>2, <2>5, <2>6 DEF Behind
<1> QED
  BY <1>12, <1>13, <1>14

LEMMA DiskSound ==
    ASSUME TypeOK, Base, Working, pc = "writing"
    PROVE  Sound(fat, block) \/ (Overrun(fat, block) /\ Unlooked)
<1>1. fat \in Fats /\ mem \in Fats /\ Typed(block) /\ Sound(mem, block)
  BY DEF TypeOK, Working, Typed
<1>2. PICK o \in Owners(block) : /\ IsDir(block, o) /\ Reached(mem, block, o)
                               /\ Owned(mem, block, o) = Here0 /\ Behind(Here0, Len(Here0))
  BY DiskBehind
<1>3. PICK s : s = Here0
  OBVIOUS
<1>4. PICK n \in Nat : n = Len(s)
  BY <1>1, <1>2, <1>3, ChainLength, Numbers DEF Sound
<1>5. Behind(s, n) /\ s = Owned(mem, block, o)
  BY <1>2, <1>3, <1>4
<1>6. CASE \A x \in Used(mem, block) : fat[x] = mem[x]
  BY <1>1, <1>6, SoundSame
<1>7. CASE /\ n > 1 /\ fat[s[n - 1]] = EOF
           /\ \A k \in 1..(n - 2) : fat[s[k]] = mem[s[k]]
  BY <1>1, <1>2, <1>4, <1>5, <1>7, CutShort DEF Behind
<1>8. CASE /\ n > 1 /\ fat[s[n]] = FREE /\ Unlooked
           /\ \A k \in 1..(n - 1) : fat[s[k]] = mem[s[k]]
  BY <1>1, <1>2, <1>4, <1>5, <1>8, RunsOver DEF Behind
<1> QED
  BY <1>5, <1>6, <1>7, <1>8 DEF Behind

----------------------------------------------------------------------------
(* One write.                                                              *)
Shift(m) ==
    /\ m \in Nat /\ Len(todo) = m + 1 /\ DOMAIN todo = 1..(m + 1)
    /\ Len(todo') = m /\ DOMAIN todo' = 1..m
    /\ Head(todo) = todo[1] /\ todo' \in Seq(ToSet(todo'))
    /\ \A i \in 1..m : todo'[i] = todo[i + 1] /\ i + 1 \in 1..(m + 1) /\ i + 1 # 1
    /\ todo' = <<>> <=> m = 0

LEMMA SeqOfOwn ==
    ASSUME NEW S, NEW s \in Seq(S)
    PROVE  s \in Seq(ToSet(s))
<1>1. PICK n \in Nat : n = Len(s) /\ s \in [1..n -> S]
  BY LenProperties
<1>2. s \in [1..n -> ToSet(s)]
  BY <1>1 DEF ToSet
<1> QED
  BY <1>2, SeqDef

LEMMA Shifted ==
    ASSUME TypeOK, todo # <<>>, todo' = Tail(todo)
    PROVE  \E m : Shift(m)
<1>1. PICK S, s : s = todo /\ s \in Seq(S) /\ s # <<>>
  BY DEF TypeOK
<1>2. PICK n \in Nat : n = Len(s)
  BY <1>1, LenProperties
<1>3. n # 0
  BY <1>1, <1>2, EmptySeq
<1>4. PICK m \in Nat : n = m + 1
  <2>1. n - 1 \in Nat /\ n = (n - 1) + 1
    BY <1>3
  <2> QED
    BY <2>1
<1>5. PICK t : t = Tail(s)
  OBVIOUS
<1>6. t \in Seq(S) /\ Len(t) = m /\ (\A i \in 1..m : t[i] = s[i + 1]) /\ Head(s) = s[1]
  <2>1. t \in Seq(S) /\ Head(s) = s[1]
    BY <1>1, <1>5, HeadTailProperties
  <2>2. Len(t) = n - 1 /\ \A i \in 1..Len(t) : t[i] = s[i + 1]
    BY <1>1, <1>2, <1>5, HeadTailProperties
  <2> QED
    BY <1>4, <2>1, <2>2
<1>7. DOMAIN s = 1..(m + 1) /\ DOMAIN t = 1..m
  BY <1>1, <1>2, <1>4, <1>6, LenProperties
<1>8. t = <<>> <=> m = 0
  BY <1>6, EmptySeq
<1>9. \A i \in 1..m : i + 1 \in 1..(m + 1) /\ i + 1 # 1
  OBVIOUS
<1>10. t \in Seq(ToSet(t))
  BY <1>6, SeqOfOwn
<1>11. Shift(m)
  BY <1>1, <1>2, <1>4, <1>5, <1>6, <1>7, <1>8, <1>9, <1>10 DEF Shift
<1> QED
  BY <1>11

(* What the rest of todo keeps of it.                                      *)
LEMMA RestTyped ==
    ASSUME TypeOK, NEW m, Shift(m)
    PROVE  /\ \A i \in DOMAIN todo' : IsWrite(todo'[i])
           /\ \A i \in 1..m : /\ IsFat(i)' <=> IsFat(i + 1)
                              /\ IsBlock(i)' <=> IsBlock(i + 1)
                              /\ IsEntry(i)' <=> IsEntry(i + 1)
           /\ \A i : (IsFat(i) \/ IsBlock(i) \/ IsEntry(i))' => i \in 1..m
           /\ m # 0 => todo'[Len(todo')] = todo[Len(todo)]
           /\ m # 0 => (IsEntry(Len(todo))' <=> IsEntry(Len(todo)))
<1>1. \A i \in 1..m : todo'[i] = todo[i + 1] /\ i \in DOMAIN todo' /\ i + 1 \in DOMAIN todo
  BY DEF Shift
<1>2. \A i \in DOMAIN todo' : IsWrite(todo'[i])
  BY <1>1 DEF TypeOK, Shift
<1>3. m # 0 => m \in 1..m
  BY DEF Shift
<1>4. \A i : i \in DOMAIN todo' => i \in 1..m
  BY DEF Shift
<1>5. Len(todo') = m /\ Len(todo) = m + 1
  BY DEF Shift
<1>6. \A i \in 1..m : /\ IsFat(i)' <=> IsFat(i + 1)
                      /\ IsBlock(i)' <=> IsBlock(i + 1)
                      /\ IsEntry(i)' <=> IsEntry(i + 1)
  BY <1>1 DEF IsFat, IsBlock, IsEntry
<1>7. \A i : (IsFat(i) \/ IsBlock(i) \/ IsEntry(i))' => i \in 1..m
  BY <1>4 DEF IsFat, IsBlock, IsEntry
<1>8. m # 0 => todo'[Len(todo')] = todo[Len(todo)]
  BY <1>1, <1>3, <1>5
<1>9. m # 0 => (IsEntry(Len(todo))' <=> IsEntry(Len(todo)))
  BY <1>1, <1>3, <1>5, <1>8 DEF IsEntry
<1> QED
  BY <1>2, <1>6, <1>7, <1>8, <1>9

LEMMA NextUnlooked ==
    ASSUME NEW m, Shift(m), NEW i \in 1..m,
           (i + 1) + 1 \in DOMAIN todo => ~todo[(i + 1) + 1].checked
    PROVE  i + 1 \in DOMAIN todo' => ~todo'[i + 1].checked
<1> SUFFICES ASSUME i + 1 \in DOMAIN todo' PROVE ~todo'[i + 1].checked
  OBVIOUS
<1>1. PICK j \in 1..m : j = i + 1
  BY DEF Shift
<1>2. todo'[j] = todo[j + 1] /\ j + 1 \in DOMAIN todo
  BY DEF Shift
<1> QED
  BY <1>1, <1>2

(* TypeOK of the image alone.                                              *)
ImageOK(f, blk) == f \in Fats /\ DOMAIN blk = Blocks /\ Typed(blk)

LEMMA TypedRest ==
    ASSUME TypeOK, pc = "writing", NEW m, Shift(m),
           UNCHANGED <<pc, mem, path, data, comp, dir, after>>, ImageOK(fat', block')
    PROVE  TypeOK'
<1>1. fat' \in Fats /\ mem' \in Fats /\ DOMAIN block' = Blocks
  BY DEF TypeOK, ImageOK
<1>2. \A p \in InUse(block') : EntryAt(block', p) \in EntrySet
  BY DEF ImageOK, Typed
<1>3. todo' \in Seq(ToSet(todo')) /\ \A i \in DOMAIN todo' : IsWrite(todo'[i])
  BY RestTyped DEF Shift
<1>4. pc' = "writing" /\ path' = path /\ data' = data /\ comp' = comp /\ dir' = dir /\ after' = after
  OBVIOUS
<1>5. /\ path \in Paths /\ comp \in 1..Len(path) /\ dir \in Blocks
      /\ data \in Seq(ToSet(data)) /\ data \in Contents
      /\ after.do \in {"descend", "succeed", "fail"}
  BY DEF TypeOK
<1> QED
  BY <1>1, <1>2, <1>3, <1>4, <1>5 DEF TypeOK

(* A write that is not of the block the entry goes to leaves the link.     *)
LEMMA RestLinked ==
    ASSUME TypeOK, Working, pc = "writing", NEW m, Shift(m), todo[1].op # "entry",
           DOMAIN block' = Blocks, SameView(block, block'),
           \A b \in Blocks : block'[b] = IF IsBlock(1) /\ b = todo[1].at THEN todo[1].bytes ELSE block[b],
           UNCHANGED <<pc, mem, path, data, comp, dir, after>>
    PROVE  Filling' /\ Linking'
<1>1. Filling /\ Linking
  BY DEF Working
<1>2. \A i \in 1..m : todo'[i] = todo[i + 1] /\ i \in DOMAIN todo' /\ i + 1 \in DOMAIN todo /\ i + 1 # 1
  BY DEF Shift
<1>3. InUse(block') = InUse(block)
  BY DEF SameView
<1>4. Filling'
  <2> SUFFICES ASSUME NEW i \in 1..m, IsBlock(i)', NEW p \in InUse(block)
               PROVE  p.block # todo'[i].at
    BY <1>3 DEF Filling, Shift
  <2>1. IsBlock(i + 1)
    BY RestTyped
  <2> QED
    BY <1>1, <1>2, <2>1 DEF Filling
<1>5. ASSUME NEW i \in DOMAIN todo', IsEntry(i)' PROVE i = Len(todo') /\ after.do # "fail"
  <2>1. i \in 1..m
    BY <1>5 DEF Shift
  <2>2. IsEntry(i + 1) /\ i + 1 \in DOMAIN todo
    BY <1>2, <1>5, <2>1, RestTyped
  <2>3. i + 1 = Len(todo) /\ after.do # "fail"
    BY <1>1, <2>2 DEF Linking
  <2> QED
    BY <2>1, <2>3 DEF Shift
<1>6. ASSUME after.do # "fail" PROVE todo' # <<>> /\ IsEntry(Len(todo)) /\ EntryReady(todo[Len(todo)])
  <2>1. todo # <<>>
    BY LenProperties, EmptySeq DEF Shift
  <2>2. IsEntry(Len(todo)) /\ EntryReady(todo[Len(todo)])
    BY <1>1, <1>6, <2>1 DEF Linking
  <2>3. Len(todo) # 1
    BY <2>2 DEF IsEntry
  <2>4. m # 0
    BY <2>3 DEF Shift
  <2> QED
    BY <2>2, <2>4 DEF Shift
<1>7. ASSUME after.do # "fail" PROVE (IsEntry(Len(todo)))' /\ EntryReady(todo[Len(todo)])'
  <2>1. m # 0 /\ IsEntry(Len(todo)) /\ EntryReady(todo[Len(todo)])
    BY <1>6, <1>7 DEF Shift
  <2>2. PICK w : w = todo[Len(todo)] /\ w = todo'[Len(todo')] /\ (IsEntry(Len(todo)))'
    BY <2>1, RestTyped
  <2>3. w.at \in AllPlaces /\ w.at.block \in Blocks
    <3>1. IsWrite(w) /\ w.op = "entry"
      BY <2>1, <2>2 DEF IsEntry, TypeOK
    <3> QED
      BY <3>1 DEF IsWrite, AllPlaces
  <2>4. EntryReady(w)
    BY <2>1, <2>2
  <2>5. Here0' = Here0 /\ Used(mem', block') = Used(mem, block)
    <3>1. Typed(block)
      BY DEF TypeOK, Typed
    <3> QED
      BY <3>1, SoundViewed DEF Here0
  <2>6. ASSUME NEW i \in 1..m, IsBlock(i)', todo'[i].at = w.at.block PROVE todo'[i].bytes = EmptyDir
    <3>1. IsBlock(i + 1)
      BY <2>6, RestTyped
    <3> QED
      BY <1>2, <2>4, <2>6, <3>1 DEF EntryReady
  <2>7. EntryReady(w)'
    BY <1>3, <2>4, <2>5, <2>6 DEF EntryReady, Shift
  <2> QED
    BY <2>2, <2>7
<1>8. Linking'
  BY <1>1, <1>5, <1>6, <1>7 DEF Linking
<1> QED
  BY <1>4, <1>8

LEMMA WriteFat ==
    ASSUME TypeOK, Base, Working, pc = "writing", NEW m, Shift(m), IsFat(1),
           fat' = [fat EXCEPT ![todo[1].at] = todo[1].value], block' = block,
           UNCHANGED <<pc, mem, path, data, comp, dir, after>>
    PROVE  TypeOK' /\ Base' /\ Working'
<1> DEFINE a == todo[1].at
           v == todo[1].value
<1>1. a \in Blocks /\ v \in Blocks \cup {EOF}
  BY DEF TypeOK, IsFat, IsWrite
<1>2. Ahead /\ Extending /\ Filling /\ Linking
  BY DEF Working
<1>3. v = mem[a] /\ v \notin {FREE, RESERVED} /\ a \notin {FREE, RESERVED}
  BY <1>2 DEF Ahead, IsFat
<1>4. fat' \in Fats /\ fat'[a] = v /\ \A b \in Blocks : b # a => fat'[b] = fat[b]
  BY <1>1 DEF TypeOK, Fats
<1>5. ImageOK(fat', block')
  BY <1>4 DEF TypeOK, ImageOK, Typed
<1>6. TypeOK'
  BY <1>5, TypedRest
<1>7. Base'
  <2>1. fat'[FREE] = RESERVED /\ fat'[RESERVED] = RESERVED
    BY <1>3, <1>4, Numbers DEF Base
  <2>2. ASSUME NEW p \in InUse(block) PROVE fat'[p.block] # FREE
    <3>1. p.block \in Blocks /\ fat[p.block] # FREE
      BY DEF InUse, Base
    <3> QED
      BY <1>3, <1>4, <3>1
  <2> QED
    BY <2>1, <2>2 DEF Base
<1>8. \A i \in 1..m : todo'[i] = todo[i + 1] /\ i \in DOMAIN todo' /\ i + 1 \in DOMAIN todo /\ i + 1 # 1
  BY DEF Shift
<1>9. ASSUME NEW i \in 1..m, IsFat(i)' PROVE todo'[i].at # a /\ IsFat(i + 1)
  <2>1. IsFat(i + 1) /\ todo[i + 1].at # todo[1].at
    BY <1>2, <1>8, <1>9, RestTyped DEF Ahead, IsFat
  <2> QED
    BY <1>8, <2>1
<1>10. Ahead'
  <2>1. \A i, j \in DOMAIN todo' : IsFat(i)' /\ IsFat(j)' /\ i # j => todo'[i].at # todo'[j].at
    <3> SUFFICES ASSUME NEW i \in 1..m, NEW j \in 1..m, IsFat(i)', IsFat(j)', i # j
                 PROVE  todo'[i].at # todo'[j].at
      BY DEF Shift
    <3>1. IsFat(i + 1) /\ IsFat(j + 1) /\ i + 1 # j + 1
      BY <1>9
    <3>2. todo[i + 1].at # todo[j + 1].at
      BY <1>2, <1>8, <3>1 DEF Ahead
    <3> QED
      BY <1>8, <3>2
  <2>2. \A i \in DOMAIN todo' : IsFat(i)' => /\ todo'[i].value = mem'[todo'[i].at]
                                             /\ todo'[i].value \notin {FREE, RESERVED}
                                             /\ todo'[i].at \notin {FREE, RESERVED}
    <3> SUFFICES ASSUME NEW i \in 1..m, IsFat(i)'
                 PROVE  /\ todo'[i].value = mem[todo'[i].at]
                        /\ todo'[i].value \notin {FREE, RESERVED}
                        /\ todo'[i].at \notin {FREE, RESERVED}
      BY DEF Shift
    <3> QED
      BY <1>2, <1>8, <1>9 DEF Ahead
  <2>3. \A b \in Blocks : ~Pending(b)' => fat'[b] = mem'[b]
    <3> SUFFICES ASSUME NEW b \in Blocks, ~Pending(b)' PROVE fat'[b] = mem[b]
      OBVIOUS
    <3>1. CASE b = a
      BY <1>3, <1>4, <3>1
    <3>2. CASE b # a
      <4>1. ASSUME Pending(b) PROVE FALSE
        <5>1. PICK i \in 1..(m + 1) : IsFat(i) /\ todo[i].at = b
          BY <4>1 DEF Pending, Shift
        <5>2. PICK k \in 1..m : k + 1 = i
          <6>1. i # 1 /\ m \in Nat
            BY <3>2, <5>1 DEF Shift
          <6>2. i - 1 \in 1..m /\ (i - 1) + 1 = i
            BY <6>1
          <6> QED
            BY <6>2
        <5>3. IsFat(k)' /\ todo'[k].at = b /\ k \in DOMAIN todo'
          BY <1>8, <5>1, <5>2, RestTyped
        <5> QED
          BY <5>3 DEF Pending
      <4>2. fat[b] = mem[b]
        BY <1>2, <4>1 DEF Ahead
      <4> QED
        BY <1>4, <3>2, <4>2
    <3> QED
      BY <3>1, <3>2
  <2> QED
    BY <2>1, <2>2, <2>3 DEF Ahead
<1>11. Extending'
  <2> SUFFICES ASSUME NEW i \in 1..m, IsFat(i)', todo'[i].at \in Used(mem, block)
               PROVE  ~todo'[i].checked /\ (OldLast(i)' \/ NewLast(i)')
    BY DEF Extending, Shift
  <2>1. ~todo[i + 1].checked /\ (OldLast(i + 1) \/ NewLast(i + 1))
    BY <1>2, <1>8, <1>9 DEF Extending
  <2>2. todo'[i].at \in Blocks /\ todo'[i].at # a /\ todo'[i] = todo[i + 1]
    <3>1. todo'[i].at \in Blocks
      BY <1>8, <1>9 DEF TypeOK, IsFat, IsWrite
    <3> QED
      BY <1>8, <1>9, <3>1
  <2>3. fat'[todo'[i].at] = fat[todo'[i].at]
    BY <1>4, <2>2
  <2>4. Here0' = Here0
    BY DEF Here0
  <2>5. CASE OldLast(i + 1)
    <3>1. PICK j : j = i + 1
      OBVIOUS
    <3>2. IsFat(j + 1) /\ todo[j + 1].at = Here0[Len(Here0)]
      BY <2>5, <3>1 DEF OldLast
    <3>3. j \in 1..m
      <4>1. j + 1 \in 1..(m + 1)
        BY <3>2 DEF IsFat, Shift
      <4> QED
        BY <3>1, <4>1 DEF Shift
    <3>4. IsFat(j)' /\ todo'[j].at = Here0[Len(Here0)]
      BY <1>8, <3>2, <3>3, RestTyped
    <3>5. /\ Len(Here0) > 1 /\ todo'[i].at = Here0[Len(Here0) - 1]
          /\ fat'[todo'[i].at] = EOF
      BY <2>2, <2>3, <2>5 DEF OldLast
    <3>6. OldLast(i)'
      BY <2>4, <3>1, <3>4, <3>5 DEF OldLast
    <3> QED
      BY <2>1, <2>2, <3>6
  <2>6. CASE NewLast(i + 1)
    <3>1. i # 1 => IsFat(i - 1)' /\ todo'[i - 1].at = Here0[Len(Here0) - 1]
      <4> SUFFICES ASSUME i # 1 PROVE IsFat(i - 1)' /\ todo'[i - 1].at = Here0[Len(Here0) - 1]
        OBVIOUS
      <4>1. PICK j \in 1..m : j = i - 1 /\ j + 1 = i
        <5>1. i - 1 \in 1..m /\ (i - 1) + 1 = i
          BY DEF Shift
        <5> QED
          BY <5>1
      <4>2. i + 1 # 1 /\ (i + 1) - 1 = j + 1
        BY <4>1
      <4>3. IsFat(j + 1) /\ todo[j + 1].at = Here0[Len(Here0) - 1]
        BY <2>6, <4>2 DEF NewLast
      <4>4. IsFat(j)' /\ todo'[j].at = Here0[Len(Here0) - 1]
        BY <1>8, <4>3, RestTyped
      <4> QED
        BY <4>1, <4>4
    <3>2. /\ Len(Here0) > 1 /\ todo'[i].at = Here0[Len(Here0)]
          /\ fat'[todo'[i].at] = FREE
      BY <2>2, <2>3, <2>6 DEF NewLast
    <3>3. i + 1 \in DOMAIN todo' => ~todo'[i + 1].checked
      BY <2>6, NextUnlooked DEF NewLast
    <3>4. NewLast(i)'
      BY <2>4, <3>1, <3>2, <3>3 DEF NewLast
    <3> QED
      BY <2>1, <2>2, <3>4
  <2> QED
    BY <2>1, <2>5, <2>6
<1>12. Filling' /\ Linking'
  <2>1. todo[1].op = "fat" /\ DOMAIN block' = Blocks /\ SameView(block, block') /\ ~IsBlock(1)
    BY DEF IsFat, IsBlock, TypeOK, SameView
  <2> QED
    BY <2>1, RestLinked
<1> QED
  BY <1>6, <1>7, <1>10, <1>11, <1>12 DEF Working

LEMMA CompPositive ==
    ASSUME TypeOK, pc # "none"
    PROVE  comp \in Nat \ {0}
<1>1. PICK d \in 1..MaxDepth : path \in [1..d -> Names]
  BY DEF TypeOK, Paths
<1>2. Len(path) = d
  BY <1>1, DiskputAssumption
<1> QED
  BY <1>1, <1>2, DiskputAssumption DEF TypeOK

(* A write that is not to the FAT leaves what is pending there.            *)
LEMMA RestAhead ==
    ASSUME TypeOK, Ahead, Extending, NEW m, Shift(m), ~IsFat(1), fat' = fat, mem' = mem, dir' = dir,
           Used(mem, block') = Used(mem, block)
    PROVE  Ahead' /\ Extending'
<1>1. \A i \in 1..m : todo'[i] = todo[i + 1] /\ i \in DOMAIN todo' /\ i + 1 \in DOMAIN todo /\ i + 1 # 1
  BY DEF Shift
<1>2. \A i \in 1..m : IsFat(i)' <=> IsFat(i + 1)
  BY RestTyped
<1>3. \A i \in 1..(m + 1) : IsFat(i) => \E k \in 1..m : k + 1 = i
  <2> SUFFICES ASSUME NEW i \in 1..(m + 1), IsFat(i) PROVE \E k \in 1..m : k + 1 = i
    OBVIOUS
  <2>1. i # 1 /\ m \in Nat
    BY DEF Shift
  <2>2. i - 1 \in 1..m /\ (i - 1) + 1 = i
    BY <2>1
  <2> QED
    BY <2>2
<1>4. Ahead'
  <2>1. \A i, j \in DOMAIN todo' : IsFat(i)' /\ IsFat(j)' /\ i # j => todo'[i].at # todo'[j].at
    <3> SUFFICES ASSUME NEW i \in 1..m, NEW j \in 1..m, IsFat(i)', IsFat(j)', i # j
                 PROVE  todo'[i].at # todo'[j].at
      BY DEF Shift
    <3>1. IsFat(i + 1) /\ IsFat(j + 1) /\ i + 1 # j + 1
      BY <1>2
    <3>2. todo[i + 1].at # todo[j + 1].at
      BY <1>1, <3>1 DEF Ahead
    <3> QED
      BY <1>1, <3>2
  <2>2. \A i \in DOMAIN todo' : IsFat(i)' => /\ todo'[i].value = mem'[todo'[i].at]
                                             /\ todo'[i].value \notin {FREE, RESERVED}
                                             /\ todo'[i].at \notin {FREE, RESERVED}
    <3> SUFFICES ASSUME NEW i \in 1..m, IsFat(i)'
                 PROVE  /\ todo'[i].value = mem[todo'[i].at]
                        /\ todo'[i].value \notin {FREE, RESERVED}
                        /\ todo'[i].at \notin {FREE, RESERVED}
      BY DEF Shift
    <3> QED
      BY <1>1, <1>2 DEF Ahead
  <2>3. ASSUME NEW b \in Blocks, ~Pending(b)' PROVE fat'[b] = mem'[b]
    <3>1. ASSUME Pending(b) PROVE FALSE
      <4>1. PICK i \in 1..(m + 1) : IsFat(i) /\ todo[i].at = b
        BY <3>1 DEF Pending, Shift
      <4>2. PICK k \in 1..m : k + 1 = i
        BY <1>3, <4>1
      <4>3. IsFat(k)' /\ todo'[k].at = b /\ k \in DOMAIN todo'
        BY <1>1, <1>2, <4>1, <4>2
      <4> QED
        BY <2>3, <4>3 DEF Pending
    <3> QED
      BY <3>1 DEF Ahead
  <2> QED
    BY <2>1, <2>2, <2>3 DEF Ahead
<1>5. Extending'
  <2> SUFFICES ASSUME NEW i \in 1..m, IsFat(i)', todo'[i].at \in Used(mem, block)
               PROVE  ~todo'[i].checked /\ (OldLast(i)' \/ NewLast(i)')
    BY DEF Extending, Shift
  <2>1. ~todo[i + 1].checked /\ (OldLast(i + 1) \/ NewLast(i + 1)) /\ todo'[i] = todo[i + 1]
    BY <1>1, <1>2 DEF Extending
  <2>2. Here0' = Here0
    BY DEF Here0
  <2>3. CASE OldLast(i + 1)
    <3>1. PICK j : j = i + 1
      OBVIOUS
    <3>2. IsFat(j + 1) /\ todo[j + 1].at = Here0[Len(Here0)]
      BY <2>3, <3>1 DEF OldLast
    <3>3. j \in 1..m
      <4>1. j + 1 \in 1..(m + 1)
        BY <3>2 DEF IsFat, Shift
      <4> QED
        BY <3>1, <4>1 DEF Shift
    <3>4. IsFat(j)' /\ todo'[j].at = Here0[Len(Here0)]
      BY <1>1, <1>2, <3>2, <3>3
    <3>5. OldLast(i)'
      BY <2>1, <2>2, <2>3, <3>1, <3>4 DEF OldLast
    <3> QED
      BY <2>1, <3>5
  <2>4. CASE NewLast(i + 1)
    <3>1. i # 1 => IsFat(i - 1)' /\ todo'[i - 1].at = Here0[Len(Here0) - 1]
      <4> SUFFICES ASSUME i # 1 PROVE IsFat(i - 1)' /\ todo'[i - 1].at = Here0[Len(Here0) - 1]
        OBVIOUS
      <4>1. PICK j \in 1..m : j = i - 1 /\ j + 1 = i
        <5>1. i - 1 \in 1..m /\ (i - 1) + 1 = i
          BY DEF Shift
        <5> QED
          BY <5>1
      <4>2. i + 1 # 1 /\ (i + 1) - 1 = j + 1
        BY <4>1
      <4>3. IsFat(j + 1) /\ todo[j + 1].at = Here0[Len(Here0) - 1]
        BY <2>4, <4>2 DEF NewLast
      <4>4. IsFat(j)' /\ todo'[j].at = Here0[Len(Here0) - 1]
        BY <1>1, <1>2, <4>3
      <4> QED
        BY <4>1, <4>4
    <3>2. i + 1 \in DOMAIN todo' => ~todo'[i + 1].checked
      BY <2>4, NextUnlooked DEF NewLast
    <3>3. NewLast(i)'
      BY <2>1, <2>2, <2>4, <3>1, <3>2 DEF NewLast
    <3> QED
      BY <2>1, <3>3
  <2> QED
    BY <2>1, <2>3, <2>4
<1> QED
  BY <1>4, <1>5

LEMMA ViewKept ==
    ASSUME NEW f, NEW blk, NEW new, InUse(blk) \subseteq InUse(new),
           \A p \in InUse(blk) : EntryAt(new, p) = EntryAt(blk, p)
    PROVE  Kept(f, blk, f, new)
BY DEF Kept

(* The writes to a block change no entry in use ...                        *)
LEMMA BlockWriteView ==
    ASSUME TypeOK, Filling, IsBlock(1),
           block' = [block EXCEPT ![todo[1].at] = todo[1].bytes]
    PROVE  /\ SameView(block, block') /\ DOMAIN block' = Blocks /\ todo[1].at \in Blocks
           /\ block'[todo[1].at] = todo[1].bytes
           /\ \A b \in Blocks : b # todo[1].at => block'[b] = block[b]
<1> DEFINE a == todo[1].at
           v == todo[1].bytes
<1>1. a \in Blocks /\ Plain(v) /\ DOMAIN block = Blocks
  BY DEF TypeOK, IsBlock, IsWrite
<1>3. DOMAIN block' = Blocks /\ block'[a] = v /\ \A b \in Blocks : b # a => block'[b] = block[b]
  BY <1>1
<1>4. \A p \in InUse(block) : p.block # a
  BY DEF Filling, IsBlock
<1>5. SameView(block, block')
  <2>1. \A p \in InUse(block) : p.block \in Blocks /\ EntryAt(block', p) = EntryAt(block, p)
    BY <1>3, <1>4 DEF InUse, EntryAt
  <2>2. ASSUME NEW p \in InUse(block') PROVE p \in InUse(block)
    <3>1. p.block \in Blocks /\ p.index \in Slots /\ p \in AllPlaces
      BY DEF InUse, AllPlaces
    <3>2. CASE p.block = a
      <4>1. EntryAt(block', p) \in {NoEntry, Foreign}
        BY <1>1, <1>3, <3>1, <3>2 DEF EntryAt, Plain
      <4> QED
        BY <4>1 DEF InUse, NoEntry
    <3>3. CASE p.block # a
      <4>1. EntryAt(block', p) = EntryAt(block, p)
        BY <1>3, <3>1, <3>3 DEF EntryAt
      <4> QED
        BY <4>1 DEF InUse
    <3> QED
      BY <3>2, <3>3
  <2>3. InUse(block) \subseteq InUse(block')
    BY <2>1 DEF InUse
  <2> QED
    BY <2>1, <2>2, <2>3 DEF SameView
<1> QED
  BY <1>1, <1>3, <1>5

LEMMA WriteBlock ==
    ASSUME TypeOK, Base, Working, pc = "writing", NEW m, Shift(m), IsBlock(1),
           block' = [block EXCEPT ![todo[1].at] = todo[1].bytes], fat' = fat,
           UNCHANGED <<pc, mem, path, data, comp, dir, after>>
    PROVE  TypeOK' /\ Base' /\ Working'
<1> DEFINE a == todo[1].at
           v == todo[1].bytes
<1>2. Ahead /\ Extending /\ Filling /\ Linking
  BY DEF Working
<1>3. DOMAIN block' = Blocks /\ block'[a] = v /\ \A b \in Blocks : b # a => block'[b] = block[b]
  BY <1>2, BlockWriteView
<1>5. SameView(block, block')
  BY <1>2, BlockWriteView
<1>6. Typed(block)
  BY DEF TypeOK, Typed
<1>7. Typed(block') /\ Used(mem, block') = Used(mem, block) /\ Sound(mem, block')
  BY <1>5, <1>6, SoundViewed DEF Working
<1>8. TypeOK'
  <2>1. ImageOK(fat', block')
    BY <1>3, <1>7 DEF ImageOK, TypeOK
  <2> QED
    BY <2>1, TypedRest
<1>9. Base'
  BY <1>5 DEF Base, SameView
<1>10. WayTo(mem, block', dir, comp)
  <2>1. Kept(mem, block, mem, block')
    BY <1>5, ViewKept DEF SameView
  <2>2. comp \in Nat \ {0}
    BY CompPositive
  <2> QED
    BY <1>6, <2>1, <2>2, WayKept DEF Working
<1>11. ~IsFat(1)
  BY DEF IsBlock, IsFat
<1>12. \A i \in 1..m : todo'[i] = todo[i + 1] /\ i \in DOMAIN todo' /\ i + 1 \in DOMAIN todo /\ i + 1 # 1
  BY DEF Shift
<1>13. Ahead' /\ Extending'
  BY <1>2, <1>7, <1>11, RestAhead
<1>14. Filling' /\ Linking'
  <2>1. todo[1].op = "block"
    BY DEF IsBlock
  <2>2. \A b \in Blocks : block'[b] = IF IsBlock(1) /\ b = todo[1].at THEN todo[1].bytes ELSE block[b]
    BY <1>3
  <2> QED
    BY <1>3, <1>5, <2>1, <2>2, RestLinked
<1> QED
  BY <1>7, <1>8, <1>9, <1>10, <1>13, <1>14 DEF Working

(* The last write of a decision links what the others have made.           *)
Made(at, e) ==
    /\ at \in AllPlaces /\ e \in EntrySet /\ e.inUse /\ at \notin InUse(block)
    /\ DOMAIN block' = Blocks /\ EntryAt(block', at) = e
    /\ OneMore(block, block', at) /\ Typed(block) /\ Typed(block')
    /\ \A p \in AllPlaces : p # at => EntryAt(block', p) = EntryAt(block, p)

LEMMA EntryMade ==
    ASSUME TypeOK, Filling, Linking, IsEntry(1), DOMAIN todo = {1}, 1 = Len(todo), NEW w, w = todo[1],
           block' = EntryPut(w)
    PROVE  Made(w.at, w.entry) /\ EntryReady(w)
<1>3. EntryReady(w) /\ w.op = "entry" /\ IsWrite(w)
  <2>1. todo # <<>>
    BY EmptySeq
  <2>2. after.do # "fail"
    BY DEF Linking, IsEntry
  <2> QED
    BY <2>1, <2>2 DEF Linking, TypeOK, IsEntry
<1>4. PICK at, e : at = w.at /\ e = w.entry /\ at \in AllPlaces /\ e \in EntrySet
  BY <1>3 DEF IsWrite
<1>5. at.block \in Blocks /\ at.index \in Slots /\ e.inUse /\ at \notin InUse(block)
  BY <1>3, <1>4 DEF AllPlaces, EntrySet, EntryReady
<1>6. e # Foreign
  <2>1. e.name \in Names
    BY <1>4 DEF EntrySet
  <2>2. Foreign.name = <<>>
    BY DEF Foreign, FileEntry
  <2> QED
    BY <2>1, <2>2, NamesAssumption
<1>7. /\ DOMAIN block' = Blocks /\ EntryAt(block', at) = e
      /\ \A p \in AllPlaces : p # at => EntryAt(block', p) = EntryAt(block, p)
  <2>1. PICK k, old, new : k \in Slots /\ k = at.index /\ old = block[at.block] /\ new = WithEntry(old, k, e)
    <3>1. PICK k \in Slots : k = at.index
      BY <1>5
    <3>2. PICK old, new : old = block[at.block] /\ new = WithEntry(old, k, e)
      OBVIOUS
    <3> QED
      BY <3>1, <3>2
  <2>2. block' = [block EXCEPT ![at.block] = new] /\ DOMAIN block = Blocks
    BY <1>4, <2>1 DEF EntryPut, TypeOK
  <2>3. DOMAIN block' = Blocks /\ block'[at.block] = new /\ \A b \in Blocks : b # at.block => block'[b] = block[b]
    BY <1>5, <2>2
  <2>4. EntryIn(new, k) = e /\ \A j \in Slots : j # k => EntryIn(new, j) = EntryIn(old, j)
    <3>1. \A c, d : \A i \in Slots : EntryIn(WithEntry(c, i, d), i) = d
      BY EntryPutIn
    <3>2. \A c, d : \A i, j \in Slots : j # i => EntryIn(WithEntry(c, i, d), j) = EntryIn(c, j)
      BY EntryPutIn
    <3>3. k \in Slots /\ new = WithEntry(old, k, e)
      BY <2>1
    <3> QED
      BY <3>1, <3>2, <3>3
  <2>5. ASSUME NEW p \in AllPlaces, p # at PROVE EntryAt(block', p) = EntryAt(block, p)
    <3>1. p.block \in Blocks /\ p.index \in Slots /\ (p.block # at.block \/ p.index # at.index)
      BY <1>4, <2>5 DEF AllPlaces
    <3> QED
      BY <2>1, <2>3, <2>4, <3>1 DEF EntryAt
  <2> QED
    BY <2>1, <2>3, <2>4, <2>5 DEF EntryAt
<1>8. OneMore(block, block', at)
  <2>1. \A p \in AllPlaces : p # at => EntryAt(block', p) = EntryAt(block, p)
    BY <1>7
  <2>2. at \in InUse(block')
    BY <1>4, <1>5, <1>6, <1>7 DEF InUse, AllPlaces
  <2>3. ASSUME NEW p \in AllPlaces, p # at PROVE p \in InUse(block') <=> p \in InUse(block)
    BY <2>1, <2>3 DEF InUse, AllPlaces
  <2>4. InUse(block) \subseteq AllPlaces /\ InUse(block') \subseteq AllPlaces
    BY DEF InUse, AllPlaces
  <2>5. InUse(block') = InUse(block) \cup {at}
    BY <1>5, <2>2, <2>3, <2>4
  <2> QED
    BY <2>1, <2>4, <2>5 DEF OneMore
<1>9. Typed(block) /\ Typed(block')
  BY <1>4, <1>7, <1>8 DEF TypeOK, Typed, OneMore
<1>10. Made(at, e)
  BY <1>4, <1>5, <1>7, <1>8, <1>9 DEF Made
<1> QED
  BY <1>3, <1>4, <1>10

LEMMA WriteEntry ==
    ASSUME TypeOK, Base, Working, pc = "writing", NEW m, Shift(m), IsEntry(1),
           block' = EntryPut(todo[1]), fat' = fat,
           UNCHANGED <<pc, mem, path, data, comp, dir, after>>
    PROVE  TypeOK' /\ Base' /\ Working'
<1>1. Ahead /\ Extending /\ Filling /\ Linking
  BY DEF Working
<1>2. 1 = Len(todo) /\ after.do # "fail" /\ m = 0 /\ todo' = <<>> /\ DOMAIN todo = {1} /\ DOMAIN todo' = {}
  <2>1. 1 = Len(todo) /\ after.do # "fail"
    BY <1>1 DEF Linking, IsEntry
  <2>2. m = 0
    BY <2>1 DEF Shift
  <2> QED
    BY <2>1, <2>2 DEF Shift
<1>3. PICK w : w = todo[1] /\ w.op = "entry" /\ EntryReady(w) /\ Made(w.at, w.entry)
  <2>1. PICK w : w = todo[1] /\ w.op = "entry"
    BY DEF IsEntry
  <2>2. block' = EntryPut(w)
    BY <2>1
  <2> QED
    BY <1>1, <1>2, <2>1, <2>2, EntryMade
<1>4. PICK at, e : at = w.at /\ e = w.entry /\ at \in AllPlaces /\ e \in EntrySet
  BY <1>3 DEF Made
<1>5. at.block \in Blocks /\ e.inUse /\ at \notin InUse(block)
  BY <1>3, <1>4 DEF AllPlaces, Made
<1>7. DOMAIN block' = Blocks /\ EntryAt(block', at) = e
  BY <1>3, <1>4 DEF Made
<1>8. OneMore(block, block', at)
  BY <1>3, <1>4 DEF Made
<1>9. Typed(block) /\ Typed(block')
  BY <1>3 DEF Made
<1>10. PICK own : own = FollowChain(mem, e.start) /\ IsChain(mem, own) /\ Fits(e, own) /\ ToSet(own) \cap Used(mem, block) = {}
  BY <1>3, <1>4 DEF EntryReady
<1>11. Sound(mem, block')
  <2>1. own = FollowChain(mem, EntryAt(block', at).start) /\ Fits(EntryAt(block', at), own)
    BY <1>7, <1>10
  <2>2. Sound(mem, block) /\ at \notin InUse(block)
    BY <1>5 DEF Working
  <2> QED
    BY <1>8, <1>9, <1>10, <2>1, <2>2, SoundAdded
<1>12. TypeOK'
  <2>1. ImageOK(fat', block')
    BY <1>7, <1>9 DEF ImageOK, TypeOK
  <2> QED
    BY <2>1, TypedRest
<1>13. \A b \in Blocks : fat[b] = mem[b]
  <2>1. \A b : ~Pending(b)
    BY <1>2, <1>3 DEF Pending, IsFat
  <2> QED
    BY <1>1, <2>1 DEF Ahead
<1>14. at.block \in Used(mem, block)
  <2>1. PICK o \in Owners(block) : Owned(mem, block, o) = Here0
    BY CurrentDir DEF Working, Here0
  <2> QED
    BY <1>3, <1>4, <2>1 DEF EntryReady, Used
<1>15. Base'
  <2>1. mem[at.block] # FREE
    BY <1>14, UsedMarked DEF Working
  <2>2. fat'[at.block] # FREE
    BY <1>5, <1>13, <2>1
  <2> QED
    BY <1>8, <2>2 DEF Base, OneMore
<1>16. WayTo(mem, block', dir, comp)
  <2>1. Kept(mem, block, mem, block')
    BY <1>5, <1>8, ViewKept DEF OneMore
  <2>2. comp \in Nat \ {0}
    BY CompPositive
  <2> QED
    BY <1>9, <2>1, <2>2, WayKept DEF Working
<1>17. Ahead'
  BY <1>2, <1>13 DEF Ahead
<1>18. Extending' /\ Filling'
  BY <1>2 DEF Extending, Filling
<1>19. Linking'
  <2>1. ASSUME after.do = "descend" PROVE Sub(mem, block', dir, after.start) /\ after.start \in Blocks
    <3>1. e.dir /\ e.start = after.start /\ at.block \in ToSet(FollowChain(mem, dir))
      BY <1>3, <1>4, <2>1 DEF EntryReady, Here0
    <3>2. at \in InUse(block') /\ EntryAt(block', at) = e
      BY <1>7, <1>8 DEF OneMore
    <3> QED
      BY <1>4, <3>1, <3>2 DEF Sub, EntrySet
  <2>2. after.do = "descend" => comp # Len(path)
    BY <1>1 DEF Linking
  <2> QED
    BY <1>2, <2>1, <2>2 DEF Linking
<1> QED
  BY <1>11, <1>12, <1>15, <1>16, <1>17, <1>18, <1>19 DEF Working

LEMMA WriteStep ==
    ASSUME TypeOK, Base, Working, Write
    PROVE  TypeOK' /\ Base' /\ Working' /\ pc' = "writing"
<1>1. /\ pc = "writing" /\ todo # <<>> /\ todo' = Tail(todo)
      /\ fat' = FatAfter(Head(todo)) /\ block' = BlockAfter(Head(todo))
      /\ UNCHANGED <<pc, mem, path, data, comp, dir, after>>
  BY DEF Write
<1>2. PICK m : Shift(m)
  BY <1>1, Shifted
<1>3. Head(todo) = todo[1] /\ 1 \in DOMAIN todo
  BY <1>2 DEF Shift
<1>4. IsWrite(todo[1])
  BY <1>3 DEF TypeOK
<1>5. CASE todo[1].op = "fat"
  <2>1. fat' = [fat EXCEPT ![todo[1].at] = todo[1].value] /\ block' = block /\ IsFat(1)
    BY <1>1, <1>3, <1>5 DEF FatAfter, BlockAfter, IsFat
  <2> QED
    BY <1>1, <1>2, <2>1, WriteFat
<1>6. CASE todo[1].op = "block"
  <2>1. fat' = fat /\ block' = [block EXCEPT ![todo[1].at] = todo[1].bytes] /\ IsBlock(1)
    BY <1>1, <1>3, <1>6 DEF FatAfter, BlockAfter, IsBlock
  <2> QED
    BY <1>1, <1>2, <2>1, WriteBlock
<1>7. CASE todo[1].op = "entry"
  <2>1. /\ fat' = fat /\ IsEntry(1)
        /\ block' = EntryPut(todo[1])
    BY <1>1, <1>3, <1>7 DEF FatAfter, BlockAfter, IsEntry, EntryPut
  <2> QED
    BY <1>1, <1>2, <2>1, WriteEntry
<1> QED
  BY <1>4, <1>5, <1>6, <1>7 DEF IsWrite

----------------------------------------------------------------------------
(* The other steps that decide nothing new.                                *)
LEMMA NoWrites ==
    <<>> \in Seq(ToSet(<<>>)) /\ DOMAIN <<>> = {} /\ Len(<<>>) = 0
OBVIOUS

LEMMA EndedSound ==
    ASSUME TypeOK, Base, NEW how, Ended(how), UNCHANGED <<fat, block>>, Sound(fat, block)
    PROVE  IInv' /\ torn' = torn
<1>1. pc' = "none" /\ mem' \in Fats /\ todo' = <<>>
  BY Numbers DEF Ended, NoDiskput, Fats
<1>2. todo' \in Seq(ToSet(todo')) /\ DOMAIN todo' = {}
  BY <1>1, NoWrites
<1>3. /\ fat' \in Fats /\ DOMAIN block' = Blocks
      /\ \A p \in InUse(block') : EntryAt(block', p) \in EntrySet
  BY DEF TypeOK
<1>4. TypeOK'
  BY <1>1, <1>2, <1>3 DEF TypeOK
<1>5. Base'
  BY DEF Base
<1>6. ~Torn
  BY SoundNotTorn DEF TypeOK, Typed
<1>7. torn' = torn
  BY <1>6 DEF Ended
<1> QED
  BY <1>1, <1>4, <1>5, <1>7 DEF IInv

LEMMA Found1 ==
    ASSUME TypeOK, Base, Sound(fat, block), pc = "none", NEW p \in Paths, NEW content \in Contents,
           Start(p, content)
    PROVE  IInv'
<1>1. /\ pc' = "deciding" /\ mem' = fat /\ path' = p /\ data' = content /\ comp' = 1 /\ dir' = Root
      /\ fat' = fat /\ block' = block /\ todo' = todo
  BY DEF Start, image
<1>2. todo' = <<>> /\ todo' \in Seq(ToSet(todo')) /\ DOMAIN todo' = {}
  BY <1>1, NoWrites DEF TypeOK
<1>3. 1 \in 1..Len(p)
  <2>1. PICK n \in 1..MaxDepth : p \in [1..n -> Names]
    BY DEF Paths
  <2>2. Len(p) = n
    BY <2>1, DiskputAssumption
  <2> QED
    BY <2>1, <2>2, DiskputAssumption
<1>4. content \in Seq(ToSet(content))
  <2>1. PICK id \in FileIds, n \in FileSizes : content = [i \in 1..n |-> <<id, n, i>>]
    BY DEF Contents
  <2>2. n \in Nat
    BY DiskputAssumption
  <2>3. content \in Seq({<<id, n, i>> : i \in 1..n})
    BY <2>1, <2>2
  <2> QED
    BY <2>3, SeqOfOwn
<1>5. TypeOK'
  <2>1. /\ fat' \in Fats /\ mem' \in Fats /\ DOMAIN block' = Blocks
        /\ \A q \in InUse(block') : EntryAt(block', q) \in EntrySet
    BY <1>1 DEF TypeOK
  <2>2. /\ path' \in Paths /\ comp' \in 1..Len(path') /\ dir' \in Blocks
        /\ data' \in Seq(ToSet(data')) /\ data' \in Contents
    BY <1>1, <1>3, <1>4, Numbers
  <2> QED
    BY <1>1, <1>2, <2>1, <2>2 DEF TypeOK
<1>6. Base'
  BY <1>1 DEF Base
<1>7. Working'
  <2>1. Sound(mem', block')
    BY <1>1
  <2>2. WayTo(mem', block', dir', comp')
    BY <1>1, WayRoot
  <2> QED
    BY <1>1, <2>1, <2>2 DEF Working
<1> QED
  BY <1>1, <1>5, <1>6, <1>7 DEF IInv

LEMMA StartStep ==
    ASSUME IInv, NEW p \in Paths, NEW content \in Contents, Start(p, content)
    PROVE  IInv'
<1>1. TypeOK /\ Base /\ pc = "none" /\ Sound(fat, block)
  BY DEF IInv, Start
<1> QED
  BY <1>1, Found1

(* One component further.                                                  *)
LEMMA OneDeeper ==
    ASSUME TypeOK, Base, pc \in {"deciding", "writing"}, comp # Len(path), mem = fat, todo = <<>>,
           Sound(mem, block), WayTo(mem, block, dir, comp),
           NEW e \in Blocks, Sub(mem, block, dir, e),
           pc' = "deciding", dir' = e, comp' = comp + 1,
           UNCHANGED <<fat, block, mem, path, data, todo>>
    PROVE  IInv'
<1>1. comp + 1 \in 1..Len(path)
  <2>1. PICK n \in 1..MaxDepth : path \in [1..n -> Names]
    BY DEF TypeOK, Paths
  <2>2. Len(path) = n /\ n \in Nat
    BY <2>1, DiskputAssumption
  <2>3. comp \in 1..n
    BY <2>2 DEF TypeOK
  <2> QED
    BY <2>2, <2>3
<1>2. WayTo(mem, block, e, comp + 1)
  BY CompPositive, WayOn
<1>3. TypeOK'
  <2>1. todo' \in Seq(ToSet(todo')) /\ DOMAIN todo' = {}
    BY NoWrites
  <2>2. /\ fat' \in Fats /\ mem' \in Fats /\ DOMAIN block' = Blocks
        /\ \A q \in InUse(block') : EntryAt(block', q) \in EntrySet
        /\ path' \in Paths /\ comp' \in 1..Len(path') /\ dir' \in Blocks
        /\ data' \in Seq(ToSet(data')) /\ data' \in Contents
    BY <1>1 DEF TypeOK
  <2> QED
    BY <2>1, <2>2 DEF TypeOK
<1>4. Base'
  BY DEF Base
<1>5. Working'
  BY <1>2 DEF Working
<1> QED
  BY <1>3, <1>4, <1>5 DEF IInv

LEMMA DescendStep ==
    ASSUME IInv, Descend
    PROVE  IInv'
<1>1. /\ TypeOK /\ Base /\ Working /\ pc = "deciding" /\ comp # Len(path) /\ mem = fat /\ todo = <<>>
      /\ pc' = pc /\ comp' = comp + 1 /\ UNCHANGED <<fat, block, mem, path, data, todo>>
  BY DEF IInv, Descend, Working, TypeOK, AtFile, image
<1>2. PICK unread : LET e == NamedReading(mem, block, dir, path[comp], unread)
                    IN  e.inUse /\ e.dir /\ dir' = e.start
  BY DEF Descend, Found
<1>3. PICK e : e = NamedReading(mem, block, dir, path[comp], unread) /\ e.inUse /\ e.dir /\ dir' = e.start
  BY <1>2
<1>4. mem \in Fats /\ dir \in Blocks
  BY <1>1 DEF TypeOK
<1>5. PICK p \in InUse(block) : p.block \in ToSet(FollowChain(mem, dir)) /\ e = EntryAt(block, p)
  BY <1>3, <1>4, NamedFound
<1>6. e.start \in Blocks /\ Sub(mem, block, dir, e.start)
  BY <1>1, <1>3, <1>5 DEF TypeOK, EntrySet, Sub
<1> QED
  BY <1>1, <1>3, <1>6, OneDeeper DEF Working

LEMMA RefusedStep ==
    ASSUME IInv, Refused
    PROVE  IInv' /\ torn' = torn
<1>1. TypeOK /\ Base /\ Working /\ pc = "deciding"
  BY DEF IInv, Refused
<1>2. Sound(fat, block)
  BY <1>1 DEF Working
<1>3. Ended("failed") /\ UNCHANGED <<fat, block>>
  BY DEF Refused, image
<1> QED
  BY <1>1, <1>2, <1>3, EndedSound

LEMMA AllWritten ==
    ASSUME TypeOK, Working, pc = "writing", todo = <<>>
    PROVE  fat = mem
<1>1. \A b : ~Pending(b)
  BY NoWrites DEF Pending
<1>2. \A b \in Blocks : fat[b] = mem[b]
  BY <1>1 DEF Working, Ahead
<1> QED
  BY <1>2 DEF TypeOK, Fats

LEMMA ProceedStep ==
    ASSUME IInv, Proceed
    PROVE  IInv' /\ torn' = torn
<1>1. TypeOK /\ Base /\ Working /\ pc = "writing" /\ todo = <<>> /\ UNCHANGED <<fat, block>>
  BY DEF IInv, Proceed, image
<1>2. fat = mem
  BY <1>1, AllWritten
<1>3. CASE after.do = "descend"
  <2>1. Sub(mem, block, dir, after.start) /\ after.start \in Blocks /\ comp # Len(path)
    BY <1>1, <1>3 DEF Working, Linking
  <2>2. /\ pc' = "deciding" /\ dir' = after.start /\ comp' = comp + 1
        /\ UNCHANGED <<mem, path, data, todo, torn>>
    BY <1>3 DEF Proceed
  <2> QED
    BY <1>1, <1>2, <2>1, <2>2, OneDeeper DEF Working
<1>4. CASE after.do # "descend"
  <2>1. PICK how : Ended(how)
    BY <1>4 DEF Proceed
  <2>2. Sound(fat, block)
    BY <1>1, <1>2 DEF Working
  <2> QED
    BY <1>1, <2>1, <2>2, EndedSound
<1> QED
  BY <1>3, <1>4

LEMMA WriteFailsStep ==
    ASSUME IInv, WriteFails
    PROVE  IInv' /\ torn' = torn
<1>1. /\ TypeOK /\ Base /\ Working /\ pc = "writing" /\ todo # <<>>
      /\ Head(todo).checked \/ (Len(todo) > 1 /\ todo[2].checked)
      /\ Ended("failed") /\ UNCHANGED <<fat, block>>
  BY DEF IInv, WriteFails, image
<1>2. ~Unlooked
  <2>1. PICK S, s : s = todo /\ s \in Seq(S) /\ s # <<>>
    BY <1>1 DEF TypeOK
  <2>2. Head(s) = s[1]
    BY <2>1, HeadTailProperties
  <2>3. PICK n \in Nat : n = Len(s) /\ DOMAIN s = 1..n
    BY <2>1, LenProperties
  <2> QED
    BY <1>1, <2>1, <2>2, <2>3 DEF Unlooked
<1>3. Sound(fat, block)
  BY <1>1, <1>2, DiskSound
<1> QED
  BY <1>1, <1>3, EndedSound

(* Only a kill can leave the image as it is between the two writes that    *)
(* extend a directory.                                                     *)
LEMMA KillStep ==
    ASSUME IInv, torn = <<>>, Kill
    PROVE  TornByKill' \/ (IInv' /\ torn' = <<>>)
<1>1. TypeOK /\ Base /\ Working /\ Ended("killed") /\ UNCHANGED <<fat, block>>
  BY DEF IInv, Kill, image
<1>2. CASE Sound(fat, block)
  BY <1>1, <1>2, EndedSound
<1>3. CASE Overrun(fat, block)
  <2>1. Torn
    BY <1>1, <1>3, OverrunTorn DEF TypeOK, Typed
  <2>2. torn' = <<[how |-> "killed", files |-> files]>> /\ failedOnce'
    BY <1>1, <2>1 DEF Ended
  <2>3. torn'[1] = [how |-> "killed", files |-> files] /\ torn' # <<>>
    BY <2>2
  <2> QED
    BY <2>2, <2>3 DEF TornByKill
<1>4. CASE pc = "writing"
  BY <1>1, <1>2, <1>3, <1>4, DiskSound
<1>5. CASE pc = "deciding"
  BY <1>1, <1>2, <1>5 DEF Working
<1> QED
  BY <1>1, <1>4, <1>5 DEF Kill, TypeOK

----------------------------------------------------------------------------
(* Plans.  A decision takes the free blocks O, which it chains in its FAT  *)
(* in memory, and has them written by A.                                   *)
OwnPlan(f, O, A) ==
    /\ f \in Fats /\ O \subseteq Blocks
    /\ \A b \in Blocks \ O : f[b] = mem[b]
    /\ \A b \in O : mem[b] = FREE /\ f[b] \notin {FREE, RESERVED}
    /\ A \in Seq(ToSet(A))
    /\ \A i \in 1..Len(A) :
           /\ A[i].at \in O
           /\ \/ A[i].op = "fat" /\ A[i].value = f[A[i].at]
              \/ A[i].op = "block" /\ Plain(A[i].bytes)
    /\ \A i, j \in 1..Len(A) : A[i].op = "fat" /\ A[j].op = "fat" /\ i # j => A[i].at # A[j].at
    /\ \A b \in O : \E i \in 1..Len(A) : A[i].op = "fat" /\ A[i].at = b

Deciding == TypeOK /\ Base /\ Working /\ pc = "deciding" /\ mem = fat

(* The image is in good order with this FAT too.                           *)
LEMMA PlanBase ==
    ASSUME Deciding, NEW f, NEW O, NEW A, OwnPlan(f, O, A)
    PROVE  /\ f \in Fats /\ mem \in Fats /\ Typed(block)
           /\ Sound(f, block) /\ Used(f, block) = Used(mem, block)
           /\ O \cap Used(f, block) = {}
           /\ WayTo(f, block, dir, comp) /\ Kept(mem, block, f, block)
           /\ \A b \in O : b \in Blocks /\ b \notin {FREE, RESERVED} /\ \A p \in InUse(block) : p.block # b
<1>1. f \in Fats /\ mem \in Fats /\ Typed(block) /\ Sound(mem, block) /\ WayTo(mem, block, dir, comp)
  BY DEF Deciding, OwnPlan, TypeOK, Typed, Working
<1>2. O \cap Used(mem, block) = {}
  BY <1>1, UsedMarked DEF OwnPlan
<1>3. \A x \in Used(mem, block) : f[x] = mem[x]
  BY <1>1, <1>2, UsedMarked DEF OwnPlan
<1>4. Sound(f, block) /\ \A p \in Owners(block) : Owned(f, block, p) = Owned(mem, block, p)
  BY <1>1, <1>3, SoundSame
<1>5. Used(f, block) = Used(mem, block)
  BY <1>4 DEF Used
<1>6. WayTo(f, block, dir, comp) /\ Kept(mem, block, f, block)
  <2>1. Kept(mem, block, f, block)
    BY <1>4 DEF Kept, Owned
  <2>2. comp \in Nat \ {0}
    BY CompPositive DEF Deciding
  <2> QED
    BY <1>1, <2>1, <2>2, WayKept
<1>7. ASSUME NEW b \in O
      PROVE  b \in Blocks /\ b \notin {FREE, RESERVED} /\ \A p \in InUse(block) : p.block # b
  <2>1. mem[b] = FREE /\ fat[b] = FREE /\ b \in Blocks
    BY DEF OwnPlan, Deciding
  <2>2. fat[FREE] = RESERVED /\ fat[RESERVED] = RESERVED /\ \A p \in InUse(block) : fat[p.block] # FREE
    BY DEF Deciding, Base
  <2> QED
    BY <2>1, <2>2, Numbers
<1> QED
  BY <1>1, <1>2, <1>4, <1>5, <1>6, <1>7

LEMMA PlanTyped ==
    ASSUME Deciding, pc' = "writing", mem' \in Fats, after'.do \in {"descend", "succeed", "fail"},
           todo' \in Seq(ToSet(todo')), \A i \in DOMAIN todo' : IsWrite(todo'[i]),
           UNCHANGED <<fat, block, path, data, comp, dir>>
    PROVE  TypeOK' /\ Base'
<1>1. /\ fat \in Fats /\ DOMAIN block = Blocks
      /\ \A p \in InUse(block) : EntryAt(block, p) \in EntrySet
      /\ path \in Paths /\ comp \in 1..Len(path) /\ dir \in Blocks
      /\ data \in Seq(ToSet(data)) /\ data \in Contents
  BY DEF Deciding, TypeOK
<1>2. TypeOK'
  BY <1>1 DEF TypeOK
<1> QED
  BY <1>2 DEF Deciding, Base

(* Nothing is linked.                                                      *)
LEMMA PlanFails ==
    ASSUME Deciding, NEW f, NEW O, NEW A, OwnPlan(f, O, A),
           pc' = "writing", mem' = f, todo' = A, after'.do = "fail",
           UNCHANGED <<fat, block, path, data, comp, dir>>
    PROVE  TypeOK' /\ Base' /\ Working'
<1>1. DOMAIN todo' = 1..Len(A) /\ todo' \in Seq(ToSet(todo'))
  BY LenProperties DEF OwnPlan
<1>2. /\ f \in Fats /\ mem \in Fats /\ Sound(f, block) /\ Used(f, block) = Used(mem, block)
      /\ O \cap Used(f, block) = {} /\ WayTo(f, block, dir, comp)
  BY PlanBase
<1>3. \A b \in O : b \in Blocks /\ b \notin {FREE, RESERVED} /\ \A p \in InUse(block) : p.block # b
  BY PlanBase
<1>4. \A i \in 1..Len(A) : A[i].at \in O /\ f[A[i].at] \in Blocks \cup {EOF} /\ f[A[i].at] \notin {FREE, RESERVED}
  BY <1>2, <1>3 DEF OwnPlan, Fats
<1>5. \A i \in DOMAIN todo' : IsWrite(todo'[i])
  BY <1>1, <1>3, <1>4 DEF IsWrite, OwnPlan
<1>6. TypeOK' /\ Base'
  BY <1>1, <1>2, <1>5, PlanTyped
<1>7. Ahead'
  <2>1. ASSUME NEW i \in 1..Len(A), IsFat(i)'
        PROVE  A[i].value = f[A[i].at] /\ A[i].op = "fat"
    BY <2>1 DEF IsFat, OwnPlan
  <2>2. \A i, j \in DOMAIN todo' : IsFat(i)' /\ IsFat(j)' /\ i # j => todo'[i].at # todo'[j].at
    BY <1>1, <2>1 DEF OwnPlan
  <2>3. \A i \in DOMAIN todo' : IsFat(i)' => /\ todo'[i].value = mem'[todo'[i].at]
                                             /\ todo'[i].value \notin {FREE, RESERVED}
                                             /\ todo'[i].at \notin {FREE, RESERVED}
    BY <1>1, <1>3, <1>4, <2>1
  <2>4. ASSUME NEW b \in Blocks, ~Pending(b)' PROVE fat'[b] = mem'[b]
    <3>1. b \notin O
      <4> SUFFICES ASSUME b \in O PROVE FALSE
        OBVIOUS
      <4>1. PICK i \in 1..Len(A) : A[i].op = "fat" /\ A[i].at = b
        BY DEF OwnPlan
      <4>2. IsFat(i)'
        BY <1>1, <4>1 DEF IsFat
      <4> QED
        BY <1>1, <2>4, <4>1, <4>2 DEF Pending
    <3> QED
      BY <3>1 DEF OwnPlan, Deciding
  <2> QED
    BY <2>2, <2>3, <2>4 DEF Ahead
<1>8. Extending'
  BY <1>1, <1>2, <1>4 DEF Extending
<1>9. Filling'
  BY <1>1, <1>3, <1>4 DEF Filling
<1>10. Linking'
  <2>1. \A i \in DOMAIN todo' : ~IsEntry(i)'
    BY <1>1 DEF IsEntry, OwnPlan
  <2> QED
    BY <2>1 DEF Linking
<1>11. WayTo(mem', block', dir', comp') /\ Sound(mem', block')
  BY <1>2
<1> QED
  BY <1>6, <1>7, <1>8, <1>9, <1>10, <1>11 DEF Working

(* Three parts of a plan, laid end to end.                                 *)
Laid(t, A, W, x) ==
    /\ t \in Seq(ToSet(t)) /\ Len(A) \in Nat /\ Len(W) \in Nat /\ t # <<>>
    /\ Len(t) = Len(A) + Len(W) + 1 /\ DOMAIN t = 1..(Len(A) + Len(W) + 1)
    /\ \A i \in 1..Len(A) : t[i] = A[i]
    /\ \A k \in 1..Len(W) : t[Len(A) + k] = W[k]
    /\ t[Len(t)] = x
    /\ \A i \in DOMAIN t : i \in 1..Len(A) \/ (\E k \in 1..Len(W) : i = Len(A) + k) \/ i = Len(t)

LEMMA LaidOut ==
    ASSUME NEW R, NEW A \in Seq(R), NEW S, NEW W \in Seq(S), NEW x
    PROVE  Laid((A \o W) \o <<x>>, A, W, x)
<1>1. PICK L \in Nat, K \in Nat : L = Len(A) /\ K = Len(W)
  BY LenProperties
<1>2. PICK T : T = R \cup S \cup {x}
  OBVIOUS
<1>3. A \in Seq(T) /\ W \in Seq(T) /\ <<x>> \in Seq(T)
  BY <1>2
<1>4. PICK u : u = A \o W
  OBVIOUS
<1>5. /\ u \in Seq(T) /\ Len(u) = L + K
      /\ \A i \in 1..(L + K) : u[i] = IF i <= L THEN A[i] ELSE W[i - L]
  BY <1>1, <1>3, <1>4, ConcatProperties
<1>6. PICK t : t = u \o <<x>>
  OBVIOUS
<1>7. /\ t \in Seq(T) /\ Len(t) = L + K + 1
      /\ \A i \in 1..(L + K + 1) : t[i] = IF i <= L + K THEN u[i] ELSE x
  <2>1. Len(<<x>>) = 1
    OBVIOUS
  <2>2. /\ t \in Seq(T) /\ Len(t) = Len(u) + 1
        /\ \A i \in 1..(Len(u) + 1) : t[i] = IF i <= Len(u) THEN u[i] ELSE <<x>>[i - Len(u)]
    BY <1>3, <1>5, <1>6, <2>1, ConcatProperties
  <2>3. \A i \in 1..(L + K + 1) : ~(i <= L + K) => <<x>>[i - (L + K)] = x
    <3>1. \A i \in 1..(L + K + 1) : ~(i <= L + K) => i - (L + K) = 1
      OBVIOUS
    <3> QED
      BY <3>1
  <2> QED
    BY <1>5, <2>2, <2>3
<1>8. t \in Seq(ToSet(t)) /\ DOMAIN t = 1..(L + K + 1) /\ t # <<>>
  BY <1>7, SeqOfOwn, LenProperties, EmptySeq
<1>9. \A i \in 1..L : t[i] = A[i]
  BY <1>5, <1>7
<1>10. ASSUME NEW k \in 1..K PROVE t[L + k] = W[k]
  <2>1. PICK i \in 1..(L + K) : i = L + k
    OBVIOUS
  <2>2. i \in 1..(L + K + 1) /\ i <= L + K /\ ~(i <= L) /\ i - L = k
    BY <2>1
  <2>3. t[i] = u[i] /\ u[i] = W[k]
    BY <1>5, <1>7, <2>2
  <2> QED
    BY <2>1, <2>3
<1>11. t[L + K + 1] = x
  <2>1. PICK i \in 1..(L + K + 1) : i = L + K + 1 /\ ~(i <= L + K)
    OBVIOUS
  <2> QED
    BY <1>7, <2>1
<1>12. ASSUME NEW i \in 1..(L + K + 1)
       PROVE  i \in 1..L \/ (\E k \in 1..K : i = L + k) \/ i = L + K + 1
  <2>1. CASE i \in (L + 1)..(L + K)
    <3>1. i - L \in 1..K /\ i = L + (i - L)
      BY <2>1
    <3> QED
      BY <3>1
  <2> QED
    BY <2>1
<1>13. Laid(t, A, W, x)
  BY <1>1, <1>7, <1>8, <1>9, <1>10, <1>11, <1>12 DEF Laid
<1> QED
  BY <1>4, <1>6, <1>13

(* The entry that is to lead to the plan's blocks, and what comes next.    *)
EntryPlan(f, O, e, next) ==
    /\ e \in EntrySet
    /\ IsChain(f, FollowChain(f, e.start)) /\ ToSet(FollowChain(f, e.start)) = O
    /\ Fits(e, FollowChain(f, e.start))
    /\ next.do \in {"descend", "succeed"}
    /\ next.do = "descend" => e.dir /\ e.start = next.start /\ comp # Len(path)

(* It goes into a free place of the directory ...                          *)
LEMMA PlanThere ==
    ASSUME Deciding, NEW f, NEW O, NEW A, OwnPlan(f, O, A), NEW e, NEW next, EntryPlan(f, O, e, next),
           NEW at \in AllPlaces, at.block \in ToSet(FollowChain(f, dir)),
           at \notin InUse(block),
           pc' = "writing", mem' = f, Laid(todo', A, <<>>, EntryWrite(at, e)), after' = next,
           UNCHANGED <<fat, block, path, data, comp, dir>>
    PROVE  TypeOK' /\ Base' /\ Working'
<1> DEFINE L == Len(A)
           x == EntryWrite(at, e)
<1>1. /\ L \in Nat /\ Len(todo') = L + 1 /\ DOMAIN todo' = 1..(L + 1) /\ todo' # <<>>
      /\ todo' \in Seq(ToSet(todo')) /\ todo'[L + 1] = x
      /\ \A i \in 1..L : todo'[i] = A[i]
      /\ \A i \in DOMAIN todo' : i \in 1..L \/ i = L + 1
  BY NoWrites DEF Laid
<1>2. x.op = "entry" /\ x.at = at /\ x.entry = e
  BY DEF EntryWrite
<1>3. /\ f \in Fats /\ mem \in Fats /\ Sound(f, block) /\ Used(f, block) = Used(mem, block)
      /\ O \cap Used(f, block) = {} /\ WayTo(f, block, dir, comp)
  BY PlanBase
<1>4. \A b \in O : b \in Blocks /\ b \notin {FREE, RESERVED} /\ \A p \in InUse(block) : p.block # b
  BY PlanBase
<1>5. \A i \in 1..L : A[i].at \in O /\ f[A[i].at] \in Blocks \cup {EOF} /\ f[A[i].at] \notin {FREE, RESERVED}
  BY <1>3, <1>4 DEF OwnPlan, Fats
<1>6. \A i : IsFat(i)' => i \in 1..L /\ A[i].op = "fat" /\ A[i].value = f[A[i].at]
  BY <1>1, <1>2 DEF IsFat, OwnPlan
<1>7. \A i : IsBlock(i)' => i \in 1..L
  BY <1>1, <1>2 DEF IsBlock
<1>8. \A i : IsEntry(i)' => i = L + 1
  <2>1. \A i \in 1..L : A[i].op # "entry"
    BY DEF OwnPlan
  <2> QED
    BY <1>1, <2>1 DEF IsEntry
<1>9. \A i \in DOMAIN todo' : IsWrite(todo'[i])
  <2>1. IsWrite(x)
    BY <1>2 DEF IsWrite, EntryPlan
  <2>2. \A i \in 1..L : IsWrite(A[i])
    BY <1>4, <1>5 DEF IsWrite, OwnPlan
  <2> QED
    BY <1>1, <2>1, <2>2
<1>10. TypeOK' /\ Base'
  BY <1>1, <1>3, <1>9, PlanTyped DEF EntryPlan
<1>11. Ahead'
  <2>1. \A i, j \in DOMAIN todo' : IsFat(i)' /\ IsFat(j)' /\ i # j => todo'[i].at # todo'[j].at
    BY <1>1, <1>6 DEF OwnPlan
  <2>2. \A i \in DOMAIN todo' : IsFat(i)' => /\ todo'[i].value = mem'[todo'[i].at]
                                             /\ todo'[i].value \notin {FREE, RESERVED}
                                             /\ todo'[i].at \notin {FREE, RESERVED}
    BY <1>1, <1>4, <1>5, <1>6
  <2>3. ASSUME NEW b \in Blocks, ~Pending(b)' PROVE fat'[b] = mem'[b]
    <3>1. b \notin O
      <4> SUFFICES ASSUME b \in O PROVE FALSE
        OBVIOUS
      <4>1. PICK i \in 1..L : A[i].op = "fat" /\ A[i].at = b
        BY DEF OwnPlan
      <4>2. i \in DOMAIN todo' /\ todo'[i] = A[i]
        BY <1>1
      <4>3. IsFat(i)'
        BY <4>1, <4>2 DEF IsFat
      <4> QED
        BY <2>3, <4>1, <4>2, <4>3 DEF Pending
    <3> QED
      BY <3>1 DEF OwnPlan, Deciding
  <2> QED
    BY <2>1, <2>2, <2>3 DEF Ahead
<1>12. Extending'
  <2>1. \A i \in DOMAIN todo' : IsFat(i)' => todo'[i].at \notin Used(mem', block')
    BY <1>1, <1>3, <1>5, <1>6
  <2> QED
    BY <2>1 DEF Extending
<1>13. Filling'
  <2>1. \A i \in DOMAIN todo' : IsBlock(i)' => todo'[i].at \in O
    BY <1>1, <1>5, <1>7
  <2> QED
    BY <1>4, <2>1 DEF Filling
<1>14. EntryReady(x)'
  <2>1. at.block \in Used(f, block)
    <3>1. PICK o \in Owners(block) : Owned(f, block, o) = FollowChain(f, dir)
      BY <1>3, CurrentDir DEF Deciding
    <3> QED
      BY <3>1 DEF Used
  <2>2. \A i \in DOMAIN todo' : IsBlock(i)' => todo'[i].at # at.block
    BY <1>1, <1>3, <1>5, <1>7, <2>1
  <2>3. Here0' = FollowChain(f, dir)
    BY DEF Here0
  <2>4. after'.do = "descend" => e.dir /\ e.start = after'.start
    BY DEF EntryPlan
  <2>5. /\ IsChain(f, FollowChain(f, e.start)) /\ Fits(e, FollowChain(f, e.start))
        /\ ToSet(FollowChain(f, e.start)) \cap Used(f, block) = {}
    BY <1>3 DEF EntryPlan
  <2> QED
    BY <1>2, <2>2, <2>3, <2>4, <2>5 DEF EntryReady
<1>15. Linking'
  <2>1. (IsEntry(Len(todo)))'
    BY <1>1, <1>2 DEF IsEntry
  <2>2. after'.do # "fail" /\ (after'.do = "descend" => comp' # Len(path'))
    BY DEF EntryPlan
  <2>3. todo'[Len(todo')] = x
    BY <1>1
  <2>4. \A i \in DOMAIN todo' : IsEntry(i)' => i = Len(todo')
    BY <1>1, <1>8
  <2> QED
    BY <1>1, <1>14, <2>1, <2>2, <2>3, <2>4 DEF Linking
<1>16. WayTo(mem', block', dir', comp') /\ Sound(mem', block')
  BY <1>3
<1> QED
  BY <1>10, <1>11, <1>12, <1>13, <1>15, <1>16 DEF Working

(* ... or into a new block at the directory's end.                         *)
GrowWrites(g, last, new) ==
    <<FatWrite(last, g[last], FALSE), FatWrite(new, g[new], FALSE), BlockWrite(new, EmptyDir, FALSE)>>

(* The FAT of such a plan, of a directory whose old chain was s.           *)
LEMMA PlanGrown ==
    ASSUME Deciding, NEW f, NEW O, NEW A, OwnPlan(f, O, A),
           NEW new \in Blocks, f[new] = FREE,
           NEW s, s = FollowChain(f, dir), NEW g, g = NewBlockEnded(f, Last(s), new)
    PROVE  /\ g \in Fats /\ Sound(g, block) /\ Used(g, block) = Used(f, block) \cup {new}
           /\ WayTo(g, block, dir, comp) /\ Kept(f, block, g, block)
           /\ Longer(s, Len(s), new, FollowChain(g, dir))
           /\ Len(s) \in Nat /\ Len(s) > 0 /\ Last(s) = s[Len(s)]
           /\ Last(s) \in Used(f, block) /\ Last(s) # new /\ f[Last(s)] = EOF
           /\ g[Last(s)] = new /\ g[new] = EOF
           /\ \A b \in Blocks : b # Last(s) /\ b # new => g[b] = f[b]
           /\ new \notin O /\ new \notin Used(f, block) /\ new \notin {FREE, RESERVED}
           /\ \A p \in InUse(block) : p.block # new
<1>1. /\ f \in Fats /\ mem \in Fats /\ Typed(block) /\ Sound(f, block) /\ WayTo(f, block, dir, comp)
      /\ O \cap Used(f, block) = {}
  BY PlanBase
<1>2. new \notin O /\ new \notin Used(f, block)
  BY <1>1, UsedMarked DEF OwnPlan
<1>3. fat[new] = FREE
  BY <1>2 DEF OwnPlan, Deciding
<1>4. new \notin {FREE, RESERVED} /\ \A p \in InUse(block) : p.block # new
  BY <1>3, Numbers DEF Deciding, Base
<1>5. PICK o \in Owners(block) : IsDir(block, o) /\ Owned(f, block, o) = s /\ StartOf(block, o) = dir
  BY <1>1, CurrentDir DEF Deciding
<1>6. PICK n \in Nat : n = Len(s) /\ n > 0 /\ IsChain(f, s)
  <2>1. IsChain(f, s)
    BY <1>1, <1>5 DEF Sound
  <2>2. Len(s) \in 1..NBlocks
    BY <2>1, ChainLength
  <2> QED
    BY <2>1, <2>2, Numbers
<1>7. Last(s) = s[n] /\ f[s[n]] = EOF
  BY <1>6 DEF Last, IsChain
<1>8. PICK last \in Blocks : last = s[n] /\ last \in Used(f, block)
  <2>1. s \in Seq(Blocks) /\ n \in 1..Len(s)
    BY <1>6 DEF IsChain, IsPath
  <2>2. s[n] \in ToSet(s) /\ s[n] \in Blocks
    BY <2>1, ToSetMeaning, ElementOfSeq
  <2> QED
    BY <1>5, <2>2 DEF Used
<1>9. last # new
  BY <1>2, <1>8
<1>10. g = [f EXCEPT ![last] = new, ![new] = EOF]
  BY <1>7, <1>8 DEF NewBlockEnded
<1>11. /\ g \in Fats /\ g[last] = new /\ g[new] = EOF
       /\ \A b \in Blocks : b # last /\ b # new => g[b] = f[b]
  BY <1>1, <1>9, <1>10 DEF Fats
<1>12. /\ Sound(g, block) /\ Longer(s, n, new, Owned(g, block, o))
       /\ \A p \in Owners(block) : p # o => Owned(g, block, p) = Owned(f, block, p)
       /\ Used(g, block) = Used(f, block) \cup {new}
  <2>1. g = [f EXCEPT ![s[n]] = new, ![new] = EOF]
    BY <1>8, <1>10
  <2>2. s = Owned(f, block, o) /\ n = Len(s) /\ g \in Fats
    BY <1>5, <1>6, <1>11
  <2>3. Lengthens(f, g, block, o, s, n, new)
    BY <1>2, <1>4, <1>5, <1>6, <2>1 DEF Lengthens
  <2> QED
    BY <1>1, <1>5, <2>2, <2>3, SoundLonger
<1>13. FollowChain(g, dir) = Owned(g, block, o)
  BY <1>5 DEF Owned
<1>14. WayTo(g, block, dir, comp) /\ Kept(f, block, g, block)
  <2>1. \A p \in Owners(block) : ToSet(Owned(f, block, p)) \subseteq ToSet(Owned(g, block, p))
    BY <1>5, <1>12 DEF Longer
  <2>2. Kept(f, block, g, block)
    BY <2>1 DEF Kept, Owned
  <2>3. comp \in Nat \ {0}
    BY CompPositive DEF Deciding
  <2> QED
    BY <1>1, <2>2, <2>3, WayKept
<1> QED
  BY <1>2, <1>4, <1>6, <1>7, <1>8, <1>9, <1>11, <1>12, <1>13, <1>14

LEMMA PlanExtends ==
    ASSUME Deciding, NEW f, NEW O, NEW A, OwnPlan(f, O, A), NEW e, NEW next, EntryPlan(f, O, e, next),
           NEW new \in Blocks, f[new] = FREE,
           NEW s, s = FollowChain(f, dir), NEW g, g = NewBlockEnded(f, Last(s), new),
           NEW at, at = [block |-> new, index |-> 0],
           pc' = "writing", mem' = g,
           Laid(todo', A, GrowWrites(g, Last(s), new), EntryWrite(at, e)), after' = next,
           UNCHANGED <<fat, block, path, data, comp, dir>>
    PROVE  TypeOK' /\ Base' /\ Working'
<1> DEFINE L == Len(A)
           x == EntryWrite(at, e)
           W == GrowWrites(g, Last(s), new)
<1>1. PICK last : last = Last(s)
  OBVIOUS
<1>2. /\ g \in Fats /\ Sound(g, block) /\ Used(g, block) = Used(f, block) \cup {new}
      /\ WayTo(g, block, dir, comp)
      /\ Longer(s, Len(s), new, FollowChain(g, dir))
      /\ Len(s) \in Nat /\ Len(s) > 0 /\ last = s[Len(s)]
      /\ last \in Used(f, block) /\ last # new /\ f[last] = EOF
      /\ g[last] = new /\ g[new] = EOF
      /\ \A b \in Blocks : b # last /\ b # new => g[b] = f[b]
      /\ new \notin O /\ new \notin Used(f, block) /\ new \notin {FREE, RESERVED}
      /\ \A p \in InUse(block) : p.block # new
  BY <1>1, PlanGrown
<1>3. Sound(f, block) /\ f \in Fats /\ O \cap Used(f, block) = {}
  BY PlanBase
<1>4. \A b \in O : b \in Blocks /\ b \notin {FREE, RESERVED} /\ \A p \in InUse(block) : p.block # b
  BY PlanBase
<1>5. last \in Blocks /\ last \notin {FREE, RESERVED} /\ last \notin O
  BY <1>2, <1>3, UsedMarked
<1>6. \A b \in O : g[b] = f[b] /\ b # last /\ b # new
  BY <1>2, <1>4, <1>5
<1>7. Len(W) = 3 /\ /\ W[1] = FatWrite(last, g[last], FALSE)
                    /\ W[2] = FatWrite(new, g[new], FALSE)
                    /\ W[3] = BlockWrite(new, EmptyDir, FALSE)
  BY <1>1 DEF GrowWrites
<1>8. /\ L \in Nat /\ Len(todo') = L + 4 /\ DOMAIN todo' = 1..(L + 4) /\ todo' # <<>>
      /\ todo' \in Seq(ToSet(todo')) /\ todo'[L + 4] = x
      /\ \A i \in 1..L : todo'[i] = A[i]
      /\ todo'[L + 1] = W[1] /\ todo'[L + 2] = W[2] /\ todo'[L + 3] = W[3]
      /\ \A i \in DOMAIN todo' : i \in 1..L \/ i = L + 1 \/ i = L + 2 \/ i = L + 3 \/ i = L + 4
  <2>1. Laid(todo', A, W, x)
    OBVIOUS
  <2> HIDE DEF W, x
  <2>2. /\ L \in Nat /\ todo' \in Seq(ToSet(todo')) /\ todo' # <<>>
        /\ Len(todo') = L + 3 + 1 /\ DOMAIN todo' = 1..(L + 3 + 1)
        /\ \A i \in 1..L : todo'[i] = A[i]
        /\ \A k \in 1..3 : todo'[L + k] = W[k]
        /\ todo'[Len(todo')] = x
    BY <1>7, <2>1 DEF Laid
  <2>3. L + 3 + 1 = L + 4 /\ 1 \in 1..3 /\ 2 \in 1..3 /\ 3 \in 1..3
    BY <2>2
  <2>4. \A i \in 1..(L + 4) : i \in 1..L \/ i = L + 1 \/ i = L + 2 \/ i = L + 3 \/ i = L + 4
    BY <2>2
  <2> QED
    BY <2>2, <2>3, <2>4
<1>9. /\ x.op = "entry" /\ x.at = at /\ x.entry = e /\ at.block = new /\ at.index = 0 /\ at \in AllPlaces
      /\ todo'[L + 1].op = "fat" /\ todo'[L + 1].at = last /\ todo'[L + 1].value = new
      /\ ~todo'[L + 1].checked
      /\ todo'[L + 2].op = "fat" /\ todo'[L + 2].at = new /\ todo'[L + 2].value = EOF
      /\ ~todo'[L + 2].checked
      /\ todo'[L + 3].op = "block" /\ todo'[L + 3].at = new /\ todo'[L + 3].bytes = EmptyDir
      /\ ~todo'[L + 3].checked
  <2>1. 0 \in Slots
    BY ImageAssumption DEF Slots
  <2>2. x.op = "entry" /\ x.at = at /\ x.entry = e /\ at.block = new /\ at.index = 0 /\ at \in AllPlaces
    BY <2>1 DEF EntryWrite, AllPlaces
  <2>3. W[1].op = "fat" /\ W[1].at = last /\ W[1].value = new /\ ~W[1].checked
    BY <1>2, <1>7 DEF FatWrite
  <2>4. W[2].op = "fat" /\ W[2].at = new /\ W[2].value = EOF /\ ~W[2].checked
    BY <1>2, <1>7 DEF FatWrite
  <2>5. W[3].op = "block" /\ W[3].at = new /\ W[3].bytes = EmptyDir /\ ~W[3].checked
    BY <1>7 DEF BlockWrite
  <2> HIDE DEF W, x
  <2> QED
    BY <1>8, <2>2, <2>3, <2>4, <2>5
<1> HIDE DEF W, x
<1>10. \A i \in 1..L : /\ A[i].at \in O /\ A[i].op # "entry"
                       /\ A[i].op = "fat" => A[i].value = g[A[i].at]
                       /\ g[A[i].at] \in Blocks \cup {EOF} /\ g[A[i].at] \notin {FREE, RESERVED}
  <2>1. \A i \in 1..L : A[i].at \in O /\ A[i].op # "entry" /\ (A[i].op = "fat" => A[i].value = f[A[i].at])
    BY DEF OwnPlan
  <2>2. \A b \in O : g[b] \in Blocks \cup {EOF} /\ g[b] \notin {FREE, RESERVED}
    BY <1>2, <1>4, <1>6 DEF OwnPlan, Fats
  <2> QED
    BY <1>6, <2>1, <2>2
<1>11. \A i : IsFat(i)' => \/ i \in 1..L /\ todo'[i] = A[i] /\ A[i].op = "fat"
                           \/ i = L + 1
                           \/ i = L + 2
  BY <1>8, <1>9 DEF IsFat
<1>12. \A i : IsBlock(i)' => (i \in 1..L /\ todo'[i] = A[i]) \/ i = L + 3
  BY <1>8, <1>9 DEF IsBlock
<1>13. \A i : IsEntry(i)' => i = L + 4
  BY <1>8, <1>9, <1>10 DEF IsEntry
<1>14. IsFat(L + 1)' /\ IsFat(L + 2)' /\ IsBlock(L + 3)' /\ IsEntry(L + 4)'
  <2>1. L + 1 \in 1..(L + 4) /\ L + 2 \in 1..(L + 4) /\ L + 3 \in 1..(L + 4) /\ L + 4 \in 1..(L + 4)
    BY <1>8
  <2>2. PICK a, b, c, d : a = L + 1 /\ b = L + 2 /\ c = L + 3 /\ d = L + 4
    OBVIOUS
  <2>3. /\ a \in DOMAIN todo' /\ todo'[a].op = "fat" /\ b \in DOMAIN todo' /\ todo'[b].op = "fat"
        /\ c \in DOMAIN todo' /\ todo'[c].op = "block" /\ d \in DOMAIN todo' /\ todo'[d].op = "entry"
    BY <1>8, <1>9, <2>1, <2>2
  <2> QED
    BY <2>2, <2>3 DEF IsFat, IsBlock, IsEntry
<1>15. \A i \in DOMAIN todo' : IsWrite(todo'[i])
  <2>1. \A i \in 1..L : IsWrite(A[i])
    BY <1>3, <1>4 DEF IsWrite, OwnPlan, Fats
  <2>2. IsWrite(x)
    BY <1>9 DEF IsWrite, EntryPlan
  <2>3. IsWrite(todo'[L + 1])
    BY <1>5, <1>9 DEF IsWrite
  <2>4. IsWrite(todo'[L + 2])
    BY <1>9 DEF IsWrite
  <2>5. IsWrite(todo'[L + 3])
    BY <1>9, EmptyPlain DEF IsWrite
  <2> QED
    BY <1>8, <2>1, <2>2, <2>3, <2>4, <2>5
<1>16. TypeOK' /\ Base'
  BY <1>2, <1>8, <1>15, PlanTyped DEF EntryPlan
<1>17. Ahead'
  <2>1. ASSUME NEW i \in DOMAIN todo', NEW j \in DOMAIN todo', IsFat(i)', IsFat(j)', i # j
        PROVE  todo'[i].at # todo'[j].at
    <3>1. CASE i \in 1..L /\ todo'[i] = A[i] /\ A[i].op = "fat"
      <4>1. CASE j \in 1..L /\ todo'[j] = A[j] /\ A[j].op = "fat"
        BY <2>1, <3>1, <4>1 DEF OwnPlan
      <4>2. CASE j = L + 1 \/ j = L + 2
        BY <1>6, <1>9, <1>10, <3>1, <4>2
      <4> QED
        BY <1>11, <2>1, <4>1, <4>2
    <3>2. CASE i = L + 1 \/ i = L + 2
      <4>1. CASE j \in 1..L /\ todo'[j] = A[j] /\ A[j].op = "fat"
        BY <1>6, <1>9, <1>10, <3>2, <4>1
      <4>2. CASE j = L + 1 \/ j = L + 2
        BY <1>2, <1>9, <2>1, <3>2, <4>2
      <4> QED
        BY <1>11, <2>1, <4>1, <4>2
    <3> QED
      BY <1>11, <2>1, <3>1, <3>2
  <2>2. ASSUME NEW i \in DOMAIN todo', IsFat(i)'
        PROVE  /\ todo'[i].value = g[todo'[i].at]
               /\ todo'[i].value \notin {FREE, RESERVED}
               /\ todo'[i].at \notin {FREE, RESERVED}
    <3>1. CASE i \in 1..L /\ todo'[i] = A[i] /\ A[i].op = "fat"
      BY <1>4, <1>10, <3>1
    <3>2. CASE i = L + 1
      BY <1>2, <1>5, <1>9, <3>2
    <3>3. CASE i = L + 2
      BY <1>2, <1>9, <3>3, Numbers
    <3> QED
      BY <1>11, <2>2, <3>1, <3>2, <3>3
  <2>3. ASSUME NEW b \in Blocks, ~Pending(b)' PROVE fat'[b] = mem'[b]
    <3>1. b \notin O
      <4> SUFFICES ASSUME b \in O PROVE FALSE
        OBVIOUS
      <4>1. PICK i \in 1..L : A[i].op = "fat" /\ A[i].at = b
        BY DEF OwnPlan
      <4>2. i \in DOMAIN todo' /\ todo'[i] = A[i]
        BY <1>8
      <4>3. IsFat(i)'
        BY <4>1, <4>2 DEF IsFat
      <4> QED
        BY <2>3, <4>1, <4>2, <4>3 DEF Pending
    <3>2. b # last /\ b # new
      <4>1. L + 1 \in DOMAIN todo' /\ L + 2 \in DOMAIN todo'
        BY <1>8
      <4> QED
        BY <1>9, <1>14, <2>3, <4>1 DEF Pending
    <3>3. g[b] = f[b] /\ f[b] = fat[b]
      BY <1>2, <3>1, <3>2 DEF OwnPlan, Deciding
    <3> QED
      BY <3>3
  <2> QED
    BY <2>1, <2>2, <2>3 DEF Ahead
<1>18. Here0' = FollowChain(g, dir) /\ Used(mem', block') = Used(f, block) \cup {new}
  BY <1>2 DEF Here0
<1>19. PICK n \in Nat, h \in {FollowChain(g, dir)} :
           /\ n = Len(s) /\ n > 0
           /\ Len(h) = n + 1 /\ h[n + 1] = new /\ h[n] = last /\ new \in ToSet(h)
  BY <1>2 DEF Longer
<1>20. Len(h) > 1 /\ h[Len(h) - 1] = last /\ h[Len(h)] = new /\ Here0' = h
  <2>1. (n + 1) - 1 = n /\ n + 1 > 1
    BY <1>19
  <2> QED
    BY <1>18, <1>19, <2>1
<1>21. fat[last] = EOF /\ fat[new] = FREE
  BY <1>2, <1>5 DEF OwnPlan, Deciding
<1>22. Extending'
  <2> SUFFICES ASSUME NEW i \in DOMAIN todo', IsFat(i)', todo'[i].at \in Used(mem', block')
               PROVE  ~todo'[i].checked /\ (OldLast(i)' \/ NewLast(i)')
    BY DEF Extending
  <2>1. ~(i \in 1..L /\ todo'[i] = A[i])
    BY <1>3, <1>6, <1>10, <1>18
  <2>2. CASE i = L + 1
    <3>1. PICK j : j = L + 2
      OBVIOUS
    <3>2. j = i + 1
      BY <1>8, <2>2, <3>1
    <3>3. IsFat(j)' /\ todo'[j].at = new
      BY <1>9, <1>14, <3>1
    <3>4. todo'[i].at = last /\ ~todo'[i].checked
      BY <1>9, <2>2
    <3>5. OldLast(i)'
      BY <1>20, <1>21, <3>2, <3>3, <3>4 DEF OldLast
    <3> QED
      BY <3>4, <3>5
  <2>3. CASE i = L + 2
    <3>1. PICK j : j = L + 1
      OBVIOUS
    <3>2. j = i - 1
      BY <1>8, <2>3, <3>1
    <3>3. IsFat(j)' /\ todo'[j].at = last
      BY <1>9, <1>14, <3>1
    <3>4. todo'[i].at = new /\ ~todo'[i].checked
      BY <1>9, <2>3
    <3>5. PICK k : k = L + 3
      OBVIOUS
    <3>6. k = i + 1 /\ ~todo'[k].checked
      BY <1>8, <1>9, <2>3, <3>5
    <3>7. NewLast(i)'
      BY <1>20, <1>21, <3>2, <3>3, <3>4, <3>6 DEF NewLast
    <3> QED
      BY <3>4, <3>7
  <2> QED
    BY <1>11, <2>1, <2>2, <2>3
<1>23. Filling'
  <2>1. ASSUME NEW i \in DOMAIN todo', IsBlock(i)' PROVE todo'[i].at \in O \/ todo'[i].at = new
    <3>1. CASE i \in 1..L /\ todo'[i] = A[i]
      BY <1>10, <3>1
    <3>2. CASE i = L + 3
      BY <1>9, <3>2
    <3> QED
      BY <1>12, <2>1, <3>1, <3>2
  <2> QED
    BY <1>2, <1>4, <2>1 DEF Filling
<1>24. EntryReady(x)'
  <2>1. at.block \in ToSet(Here0') /\ at \notin InUse(block)
    BY <1>2, <1>9, <1>19, <1>20
  <2>2. ASSUME NEW i \in DOMAIN todo', IsBlock(i)', todo'[i].at = at.block PROVE todo'[i].bytes = EmptyDir
    <3>1. CASE i \in 1..L /\ todo'[i] = A[i]
      BY <1>2, <1>9, <1>10, <2>2, <3>1
    <3>2. CASE i = L + 3
      BY <1>9, <3>2
    <3> QED
      BY <1>12, <2>2, <3>1, <3>2
  <2>3. PICK own : own = FollowChain(f, e.start) /\ IsChain(f, own) /\ ToSet(own) \subseteq O /\ Fits(e, own)
    BY DEF EntryPlan
  <2>4. own = FollowChain(g, e.start) /\ IsChain(g, own)
    <3>1. e.start \in Blocks /\ \A b \in ToSet(own) : g[b] = f[b]
      BY <1>6, <2>3 DEF EntryPlan, EntrySet
    <3> QED
      BY <1>2, <1>3, <2>3, <3>1, SameChain
  <2>5. ToSet(own) \cap Used(mem', block') = {}
    BY <1>2, <1>3, <1>18, <2>3
  <2>6. after'.do = "descend" => e.dir /\ e.start = after'.start
    BY DEF EntryPlan
  <2> QED
    BY <1>9, <2>1, <2>2, <2>3, <2>4, <2>5, <2>6 DEF EntryReady
<1>25. Linking'
  <2>1. (IsEntry(Len(todo)))'
    BY <1>8, <1>9 DEF IsEntry
  <2>2. after'.do # "fail" /\ (after'.do = "descend" => comp' # Len(path'))
    BY DEF EntryPlan
  <2>3. todo'[Len(todo')] = x
    BY <1>8
  <2>4. \A i \in DOMAIN todo' : IsEntry(i)' => i = Len(todo')
    BY <1>8, <1>13
  <2> QED
    BY <1>8, <1>24, <2>1, <2>2, <2>3, <2>4 DEF Linking
<1>26. WayTo(mem', block', dir', comp') /\ Sound(mem', block')
  BY <1>2
<1> QED
  BY <1>16, <1>17, <1>22, <1>23, <1>25, <1>26 DEF Working

(* A decision that links what it makes, wherever a search finds a place.   *)
LEMMA DirectoryEnds ==
    ASSUME Deciding, NEW f, NEW O, NEW A, OwnPlan(f, O, A), FreeBlocks(f) # <<>>
    PROVE  f[Last(FollowChain(f, dir))] = EOF
<1>1. PICK b \in Blocks : f[b] = FREE
  <2>1. f \in Fats
    BY DEF OwnPlan
  <2> QED
    BY <2>1, FirstFree
<1>2. PICK s, g : s = FollowChain(f, dir) /\ g = NewBlockEnded(f, Last(s), b)
  OBVIOUS
<1>3. f[Last(s)] = EOF
  BY <1>1, <1>2, PlanGrown
<1> QED
  BY <1>2, <1>3

(* The search for a place, made when the plan's writes have been, reads what *)
(* was there before: they go to blocks that are in no directory.           *)
LEMMA SlotSeen ==
    ASSUME Deciding, NEW f, NEW O, NEW A, OwnPlan(f, O, A), NEW unread
    PROVE  SlotPlan(f, Written(A), unread) = SlotPlan(f, block, unread)
<1>1. f \in Fats /\ dir \in Blocks /\ A \in Seq(ToSet(A)) /\ \A i \in 1..Len(A) : A[i].at \in O
  BY DEF OwnPlan, Deciding, TypeOK
<1>2. ToSet(FollowChain(f, dir)) \cap O = {}
  <2>1. O \cap Used(f, block) = {} /\ WayTo(f, block, dir, comp)
    BY PlanBase
  <2>2. TypeOK /\ pc # "none"
    BY DEF Deciding
  <2>3. PICK o \in Owners(block) : Owned(f, block, o) = FollowChain(f, dir)
    BY <2>1, <2>2, CurrentDir
  <2> QED
    BY <2>1, <2>3 DEF Used
<1>3. PICK W : W = Written(A)
  OBVIOUS
<1>4. ASSUME NEW b \in Blocks, b \notin O
      PROVE  W[b] = block[b]
  <2>1. PICK own : own = {k \in DOMAIN A : A[k].op = "block" /\ A[k].at = b}
    OBVIOUS
  <2>2. own = {}
    BY <1>1, <1>4, <2>1
  <2>3. W[b] = IF own = {} THEN block[b] ELSE A[CHOOSE k \in own : TRUE].bytes
    BY <1>3, <2>1 DEF Written
  <2> QED
    BY <2>2, <2>3
<1>5. ASSUME NEW j \in DOMAIN Places(f, dir)
      PROVE  EntryAt(W, Places(f, dir)[j]) = EntryAt(block, Places(f, dir)[j])
  <2>1. PICK p \in AllPlaces : p = Places(f, dir)[j] /\ p.block \in ToSet(FollowChain(f, dir))
    BY <1>1, PlacesTyped
  <2>2. p.block \in Blocks /\ p.block \notin O
    BY <1>2, <2>1 DEF AllPlaces
  <2>3. EntryAt(W, p) = EntryAt(block, p)
    BY <1>4, <2>2 DEF EntryAt
  <2> QED
    BY <2>1, <2>3
<1>6. FreeSlot(f, W, dir, unread) = FreeSlot(f, block, dir, unread)
  <2> DEFINE P == Places(f, dir)
             hits(blk) == {j \in DOMAIN P : P[j].block \notin unread /\ ~EntryAt(blk, P[j]).inUse}
  <2>1. \A blk : FreeSlot(f, blk, dir, unread) = IF hits(blk) = {} THEN <<>> ELSE <<P[Min(hits(blk))]>>
    BY DEF FreeSlot, FirstPlace
  <2>2. hits(W) = hits(block)
    BY <1>5
  <2> QED
    BY <2>1, <2>2
<1> QED
  BY <1>3, <1>6 DEF SlotPlan

LEMMA SlotLinks ==
    ASSUME Deciding, NEW f, NEW O, NEW A, OwnPlan(f, O, A), NEW e, NEW next, EntryPlan(f, O, e, next),
           NEW slot \in SlotPlans(f, A), Link(f, slot, A, e, next),
           UNCHANGED <<fat, block, path, data, comp, dir>>
    PROVE  IInv'
<1>1. PICK unread : slot = SlotPlan(f, block, unread)
  BY SlotSeen DEF SlotPlans
<1>2. pc' = "writing" /\ mem' = slot.fat
  BY DEF Link
<1>3. f \in Fats /\ dir \in Blocks /\ A \in Seq(ToSet(A))
  BY DEF OwnPlan, Deciding, TypeOK
<1>4. slot.ok => todo' = (A \o slot.writes) \o <<EntryWrite(slot.at, e)>> /\ after' = next
  BY DEF Link, InOrder
<1>5. ~slot.ok => todo' = A /\ after' = [do |-> slot.do]
  BY DEF Link
<1>6. PICK free : free = FreeSlot(f, block, dir, unread)
  OBVIOUS
<1>7. PICK new : new = FreeBlocks(f)
  OBVIOUS
<1>8. PICK s : s = FollowChain(f, dir)
  OBVIOUS
<1>9. CASE free # <<>>
  <2>1. slot = [ok |-> TRUE, at |-> free[1], fat |-> f, writes |-> <<>>]
    BY <1>1, <1>6, <1>9 DEF SlotPlan
  <2>2. slot.ok /\ slot.at = free[1] /\ slot.fat = f /\ slot.writes = <<>>
    BY <2>1
  <2>3. PICK at \in AllPlaces : /\ at = free[1] /\ at.block \in ToSet(FollowChain(f, dir))
                                /\ at \notin InUse(block)
    BY <1>3, <1>6, <1>9, FreeSlotFound
  <2>4. Laid(todo', A, <<>>, EntryWrite(at, e))
    BY <1>3, <1>4, <2>2, <2>3, NoWrites, LaidOut
  <2>5. TypeOK' /\ Base' /\ Working'
    BY <1>2, <1>4, <2>2, <2>3, <2>4, PlanThere
  <2> QED
    BY <1>2, <2>5 DEF IInv
<1>10. CASE free = <<>> /\ new # <<>>
  <2>1. PICK g : g = NewBlockEnded(f, Last(s), new[1])
    OBVIOUS
  <2>2. PICK at : at = [block |-> new[1], index |-> 0]
    OBVIOUS
  <2>3. PICK W : W = GrowWrites(g, Last(s), new[1])
    OBVIOUS
  <2>4. slot = [ok |-> TRUE, at |-> at, fat |-> g, writes |-> W]
    BY <1>1, <1>6, <1>7, <1>8, <1>10, <2>1, <2>2, <2>3, DirectoryEnds DEF SlotPlan, GrowWrites
  <2>5. slot.ok /\ slot.at = at /\ slot.fat = g /\ slot.writes = W
    BY <2>4
  <2>6. PICK b \in Blocks : b = new[1] /\ f[b] = FREE
    BY <1>7, <1>10, FirstFree
  <2>7. W \in Seq({W[1], W[2], W[3]})
    BY <2>3 DEF GrowWrites
  <2>8. Laid(todo', A, W, EntryWrite(at, e))
    BY <1>3, <1>4, <2>5, <2>7, LaidOut
  <2>9. Laid(todo', A, GrowWrites(g, Last(s), b), EntryWrite(at, e))
    BY <2>3, <2>6, <2>8
  <2>10. TypeOK' /\ Base' /\ Working'
    BY <1>2, <1>4, <1>8, <2>1, <2>2, <2>5, <2>6, <2>9, PlanExtends
  <2> QED
    BY <1>2, <2>10 DEF IInv
<1>11. CASE free = <<>> /\ new = <<>>
  <2>1. slot = [ok |-> FALSE, do |-> "fail", fat |-> f, writes |-> <<>>]
    BY <1>1, <1>6, <1>7, <1>11 DEF SlotPlan
  <2>2. ~slot.ok /\ slot.fat = f /\ slot.do = "fail"
    BY <2>1
  <2>3. todo' = A /\ after'.do = "fail"
    BY <1>5, <2>2
  <2>4. TypeOK' /\ Base' /\ Working'
    BY <1>2, <2>2, <2>3, PlanFails
  <2> QED
    BY <1>2, <2>4 DEF IInv
<1> QED
  BY <1>9, <1>10, <1>11

LEMMA Decides ==
    ASSUME IInv, pc = "deciding"
    PROVE  Deciding /\ path[comp] \in Names /\ comp \in Nat
<1>1. Deciding
  BY DEF IInv, Deciding, Working
<1>2. PICK n \in 1..MaxDepth : path \in [1..n -> Names]
  BY <1>1 DEF Deciding, TypeOK, Paths
<1>3. Len(path) = n /\ n \in Nat
  BY <1>2, DiskputAssumption
<1>4. comp \in 1..n
  BY <1>1, <1>3 DEF Deciding, TypeOK
<1> QED
  BY <1>1, <1>2, <1>3, <1>4

LEMMA DirectoryTyped ==
    ASSUME NEW name \in Names, NEW b \in Blocks, NEW e, e = DirectoryEntry(name, b)
    PROVE  e.dir /\ e.start = b /\ e.blocks = 1 /\ e \in EntrySet
<1>1. e.dir /\ e.start = b /\ e.blocks = 1
  BY DEF DirectoryEntry
<1>2. e \in EntrySet
  BY DEF DirectoryEntry, EntrySet
<1> QED
  BY <1>1, <1>2

LEMMA FileTyped ==
    ASSUME NEW name \in Names, NEW b \in Blocks, NEW n \in Nat, NEW size \in Nat
    PROVE  /\ ~FileEntry(name, b, n, size).dir
           /\ FileEntry(name, b, n, size).start = b /\ FileEntry(name, b, n, size).blocks = n
           /\ FileEntry(name, b, n, size) \in EntrySet
<1>1. /\ ~FileEntry(name, b, n, size).dir
      /\ FileEntry(name, b, n, size).start = b /\ FileEntry(name, b, n, size).blocks = n
  BY DEF FileEntry
<1>2. FileEntry(name, b, n, size) \in EntrySet
  BY DEF FileEntry, EntrySet
<1> QED
  BY <1>1, <1>2

(* The writes A fill the chain s with the file.                            *)
Fills(A, s) ==
    \A k \in 1..Needed :
        /\ \E i \in 1..Len(A) : A[i].op = "block" /\ A[i].at = s[k]
        /\ \A i \in 1..Len(A) : A[i].op = "block" /\ A[i].at = s[k] => A[i].bytes = Chunk(k)

(* The entry is for the next name of the path: a directory, or the file.   *)
Enters(f, A, e) ==
    /\ e.name = path[comp]
    /\ \/ e.dir
       \/ /\ comp = Len(path) /\ e.size = Len(data)
          /\ Len(FollowChain(f, e.start)) = Needed /\ Fills(A, FollowChain(f, e.start))

(* What both makers of an entry decide.                                    *)
Decided(f, O, A, e, next, slot) ==
    /\ OwnPlan(f, O, A) /\ EntryPlan(f, O, e, next) /\ Enters(f, A, e)
    /\ slot \in SlotPlans(f, A) /\ Link(f, slot, A, e, next)

LEMMA MakeDirDecides ==
    ASSUME IInv, MakeDir
    PROVE  \E f, O, A, e, next, slot : Decided(f, O, A, e, next, slot)
<1>1. Deciding /\ path[comp] \in Names
  BY Decides DEF MakeDir
<1>2. /\ UNCHANGED <<fat, block, path, data, comp, dir>> /\ comp # Len(path)
      /\ CreateDir(path[comp], Fails(NoEntry, Here))
  BY DEF MakeDir, AtFile, image
<1>3. PICK new : new = FreeBlocks(mem) /\ new # <<>>
  BY <1>2 DEF CreateDir
<1>4. PICK b \in Blocks : b = new[1] /\ mem[b] = FREE
  BY <1>3, FirstFree
<1>5. PICK f : f = Taken(b)
  OBVIOUS
<1>6. PICK A : A = <<BlockWrite(b, EmptyDir, TRUE), FatWrite(b, EOF, TRUE)>>
  OBVIOUS
<1>7. PICK next : next = [do |-> "descend", start |-> b]
  OBVIOUS
<1>8. PICK e : e = DirectoryEntry(path[comp], b)
  OBVIOUS
<1>9. PICK slot \in SlotPlans(f, A) : Link(f, slot, A, e, next)
  BY <1>2, <1>3, <1>4, <1>5, <1>6, <1>7, <1>8 DEF CreateDir
<1>10. mem \in Fats /\ mem[FREE] = RESERVED /\ mem[RESERVED] = RESERVED
  BY <1>1 DEF Deciding, TypeOK, Base
<1>11. f \in Fats /\ f[b] = EOF /\ \A c \in Blocks \ {b} : f[c] = mem[c]
  BY <1>5, <1>10, Numbers DEF Taken, Fats
<1>12. b \notin {FREE, RESERVED}
  BY <1>4, <1>10, Numbers
<1>13. OwnPlan(f, {b}, A)
  <2>1. /\ Len(A) = 2 /\ A[1] = BlockWrite(b, EmptyDir, TRUE) /\ A[2] = FatWrite(b, EOF, TRUE)
        /\ \A i \in 1..2 : i = 1 \/ i = 2
    BY <1>6
  <2>2. A \in Seq(ToSet(A))
    <3>1. A \in Seq({A[1], A[2]})
      BY <1>6
    <3> QED
      BY <3>1, SeqOfOwn
  <2>3. /\ A[1].at = b /\ A[1].op = "block" /\ A[1].bytes = EmptyDir
        /\ A[2].at = b /\ A[2].op = "fat" /\ A[2].value = EOF
    BY <2>1 DEF BlockWrite, FatWrite
  <2>4. \A c \in {b} : mem[c] = FREE /\ f[c] \notin {FREE, RESERVED}
    BY <1>4, <1>11, Numbers
  <2>5. \A i \in 1..Len(A) :
           /\ A[i].at \in {b}
           /\ \/ A[i].op = "fat" /\ A[i].value = f[A[i].at]
              \/ A[i].op = "block" /\ Plain(A[i].bytes)
    BY <1>11, <2>1, <2>3, EmptyPlain
  <2>6. \A i, j \in 1..Len(A) : A[i].op = "fat" /\ A[j].op = "fat" /\ i # j => A[i].at # A[j].at
    BY <2>1, <2>3
  <2>7. \A c \in {b} : \E i \in 1..Len(A) : A[i].op = "fat" /\ A[i].at = c
    <3>1. 2 \in 1..Len(A)
      BY <2>1
    <3> QED
      BY <2>3, <3>1
  <2>8. {b} \subseteq Blocks
    OBVIOUS
  <2> QED
    BY <1>11, <2>2, <2>4, <2>5, <2>6, <2>7, <2>8 DEF OwnPlan
<1>14. EntryPlan(f, {b}, e, next)
  <2>1. e.dir /\ e.start = b /\ e.blocks = 1 /\ e \in EntrySet
    BY <1>1, <1>4, <1>8, DirectoryTyped
  <2>2. PICK own : own = <<b>>
    OBVIOUS
  <2>3. own \in Seq(Blocks) /\ Len(own) = 1 /\ own[1] = b /\ ToSet(own) = {b}
    BY <1>4, <2>2 DEF ToSet
  <2>4. IsChain(f, own)
    BY <1>11, <1>12, <2>2, <2>3 DEF IsChain, IsPath
  <2>5. FollowChain(f, e.start) = own
    BY <1>11, <2>1, <2>3, <2>4, ChainFollowed
  <2> QED
    BY <1>2, <1>7, <2>1, <2>3, <2>4, <2>5 DEF EntryPlan, Fits
<1>15. Enters(f, A, e)
  BY <1>8 DEF Enters, DirectoryEntry
<1>16. Decided(f, {b}, A, e, next, slot)
  BY <1>9, <1>13, <1>14, <1>15 DEF Decided
<1> QED
  BY <1>16

LEMMA MakeDirStep ==
    ASSUME IInv, MakeDir
    PROVE  IInv'
<1>1. Deciding /\ UNCHANGED <<fat, block, path, data, comp, dir>>
  BY Decides DEF MakeDir, image
<1>2. PICK f, O, A, e, next, slot : Decided(f, O, A, e, next, slot)
  BY MakeDirDecides
<1> QED
  BY <1>1, <1>2, SlotLinks DEF Decided

LEMMA NeededPositive ==
    ASSUME Deciding
    PROVE  Needed \in Nat /\ Needed > 0 /\ Len(data) \in Nat
<1>1. PICK b \in Nat \ {0} : b = BlockSize
  BY ImageAssumption
<1>2. PICK s \in Seq(ToSet(data)) : s = data
  BY DEF Deciding, TypeOK
<1>3. PICK l \in Nat : l = Len(data)
  BY <1>2, LenProperties
<1>4. CASE data = <<>>
  <2>1. Needed = 1
    BY <1>4 DEF Needed
  <2> QED
    BY <1>3, <2>1
<1>5. CASE data # <<>>
  <2>1. l # 0
    BY <1>2, <1>3, <1>5, EmptySeq
  <2>2. PICK a \in Nat : a = l + b - 1 /\ a >= b
    BY <2>1
  <2>3. PICK q \in Nat, r \in 0..(b - 1) : q = a \div b /\ a = b * q + r
    BY Division
  <2>4. q # 0
    BY <2>2, <2>3
  <2>5. Needed = q
    BY <1>1, <1>3, <1>5, <2>2, <2>3 DEF Needed
  <2> QED
    BY <1>3, <2>3, <2>4, <2>5
<1> QED
  BY <1>4, <1>5

(* put_file's chain: the first free blocks, one after the other.           *)
Taking(s, n, f) ==
    /\ s \in Seq(Blocks) /\ n \in Nat /\ n > 0 /\ Len(s) = n
    /\ \A i \in 1..n : s[i] \in Blocks /\ mem[s[i]] = FREE /\ s[i] \notin {FREE, RESERVED}
    /\ \A i, j \in 1..n : i # j => s[i] # s[j]
    /\ ToSet(s) = {s[i] : i \in 1..n}
    /\ f \in Fats
    /\ \A b \in Blocks \ ToSet(s) : f[b] = mem[b]
    /\ \A k \in 1..n : f[s[k]] = NextOf(s, k)

LEMMA FileTakes ==
    ASSUME Deciding, Len(FreeBlocks(mem)) >= Needed
    PROVE  Taking(FileBlocks, Needed, Chained(FileBlocks))
<1>1. PICK n \in Nat : n = Needed /\ n > 0
  BY NeededPositive
<1>2. PICK new : new = FreeBlocks(mem) /\ AllFree(mem, new)
  BY FreeBlocksFree
<1>3. PICK l \in Nat : l = Len(new) /\ n <= l
  <2>1. Len(new) \in Nat
    BY <1>2, LenProperties DEF AllFree
  <2> QED
    BY <1>1, <1>2, <2>1
<1>4. PICK s : s = SubSeq(new, 1, n) /\ s = FileBlocks
  BY <1>1, <1>2 DEF FileBlocks
<1>5. s \in Seq(Blocks) /\ Len(s) = n /\ \A i \in 1..n : s[i] = new[i]
  <2>1. new \in Seq(Blocks)
    BY <1>2 DEF AllFree
  <2>2. 1 \in 1..(l + 1) /\ n \in 1..l
    BY <1>1, <1>3
  <2>3. s \in Seq(Blocks) /\ Len(s) = IF 1 <= n THEN n - 1 + 1 ELSE 0
    BY <1>3, <1>4, <2>1, <2>2, SubSeqProperties
  <2>4. \A i \in 1..(n - 1 + 1) : s[i] = new[1 + i - 1]
    BY <1>3, <1>4, <2>1, <2>2, SubSeqProperties
  <2>5. n - 1 + 1 = n /\ 1 <= n /\ \A i \in 1..n : 1 + i - 1 = i
    BY <1>1
  <2> QED
    BY <2>3, <2>4, <2>5
<1>6. mem \in Fats /\ mem[FREE] = RESERVED /\ mem[RESERVED] = RESERVED
  BY DEF Deciding, TypeOK, Base
<1>7. \A i \in 1..n : s[i] \in Blocks /\ mem[s[i]] = FREE
  <2>1. \A i \in 1..n : i \in 1..l
    BY <1>3
  <2> QED
    BY <1>2, <1>3, <1>5, <2>1, ElementOfSeq DEF AllFree
<1>8. \A i \in 1..n : s[i] \notin {FREE, RESERVED}
  BY <1>6, <1>7, Numbers
<1>9. \A i, j \in 1..n : i # j => s[i] # s[j]
  <2>1. \A i \in 1..n : i \in 1..l
    BY <1>3
  <2> QED
    BY <1>2, <1>3, <1>5, <2>1 DEF AllFree
<1>10. ToSet(s) = {s[i] : i \in 1..n}
  BY <1>5, ToSetMeaning
<1> DEFINE own(b) == CHOOSE k \in 1..n : s[k] = b
<1>11. PICK f : f = Chained(s)
  OBVIOUS
<1>12. f = [b \in Blocks |-> IF b \in ToSet(s) THEN NextOf(s, own(b)) ELSE mem[b]]
  BY <1>1, <1>11 DEF Chained
<1>13. ASSUME NEW k \in 1..n PROVE own(s[k]) = k
  BY <1>9
<1>14. ASSUME NEW k \in 1..n PROVE f[s[k]] = NextOf(s, k)
  <2>1. s[k] \in Blocks /\ s[k] \in ToSet(s)
    BY <1>7, <1>10
  <2> HIDE DEF own
  <2> QED
    BY <1>12, <1>13, <2>1
<1>15. ASSUME NEW k \in 1..n PROVE NextOf(s, k) \in Blocks \cup {EOF}
  <2>1. CASE k < n
    <3>1. k + 1 \in 1..n
      BY <2>1
    <3>2. PICK j \in 1..n : j = k + 1
      BY <3>1
    <3> QED
      BY <1>5, <1>7, <2>1, <3>2 DEF NextOf
  <2>2. CASE ~(k < n)
    BY <1>5, <2>2 DEF NextOf
  <2> QED
    BY <2>1, <2>2
<1>16. \A b \in Blocks \ ToSet(s) : f[b] = mem[b]
  BY <1>12
<1>17. f \in Fats
  <2>1. \A b \in Blocks : f[b] \in Blocks \cup {EOF}
    BY <1>6, <1>10, <1>14, <1>15, <1>16 DEF Fats
  <2>2. f = [b \in Blocks |-> f[b]]
    BY <1>12
  <2> QED
    BY <2>1, <2>2 DEF Fats
<1>18. Taking(s, n, f)
  BY <1>1, <1>5, <1>7, <1>8, <1>9, <1>10, <1>14, <1>16, <1>17 DEF Taking
<1> QED
  BY <1>1, <1>4, <1>11, <1>18

LEMMA TakenChain ==
    ASSUME Deciding, NEW s, NEW n, NEW f, Taking(s, n, f)
    PROVE  IsChain(f, s) /\ FollowChain(f, s[1]) = s /\ s[1] \in Blocks
           /\ \A b \in ToSet(s) : mem[b] = FREE /\ f[b] \notin {FREE, RESERVED}
<1>1. /\ s \in Seq(Blocks) /\ n \in Nat /\ n > 0 /\ Len(s) = n /\ f \in Fats
      /\ \A i \in 1..n : s[i] \in Blocks /\ mem[s[i]] = FREE /\ s[i] \notin {FREE, RESERVED}
      /\ \A i, j \in 1..n : i # j => s[i] # s[j]
      /\ ToSet(s) = {s[i] : i \in 1..n}
  BY DEF Taking
<1>2. \A k \in 1..(n - 1) : f[s[k]] = s[k + 1]
  BY <1>1 DEF Taking, NextOf
<1>3. f[s[n]] = EOF
  <2>1. n \in 1..n /\ ~(n < n)
    BY <1>1
  <2> QED
    BY <1>1, <2>1 DEF Taking, NextOf
<1>4. IsChain(f, s)
  BY <1>1, <1>2, <1>3 DEF IsChain, IsPath
<1>5. \A b \in ToSet(s) : f[b] \notin {FREE, RESERVED}
  BY <1>4, ChainMarked
<1> QED
  BY <1>1, <1>4, <1>5, ChainFollowed

LEMMA ChunkIsBytes ==
    ASSUME Deciding, NEW k \in Nat
    PROVE  ~HoldsEntries(Chunk(k))
<1>1. PICK b \in Nat \ {0} : b = BlockSize
  BY ImageAssumption
<1>2. PICK m \in Int : m = (k - 1) * b + 1
  OBVIOUS
<1>3. PICK h \in Int : h = IF k = Needed THEN Len(data) ELSE k * b
  <2>1. Len(data) \in Int /\ k * b \in Int
    BY NeededPositive
  <2> QED
    BY <2>1
<1>4. Chunk(k) = SubSeq(data, m, h)
  BY <1>1, <1>2, <1>3 DEF Chunk
<1>5. DOMAIN SubSeq(data, m, h) = 1..(h - m + 1)
  OBVIOUS
<1>6. 0 \notin DOMAIN Chunk(k)
  BY <1>4, <1>5
<1>7. 0 \in Slots
  BY ImageAssumption DEF Slots
<1> QED
  BY <1>6, <1>7 DEF HoldsEntries

LEMMA FunctionSeq ==
    ASSUME NEW n \in Nat, NEW S, NEW a \in [1..n -> S]
    PROVE  a \in Seq(S) /\ Len(a) = n
BY SeqDef

ChainPart(s, n, f) == [k \in 1..n |-> FatWrite(s[k], f[s[k]], FALSE)]
FillPart(s, n)     == [k \in 1..n |-> BlockWrite(s[k], Chunk(k), TRUE)]

LEMMA ChainPartPlan ==
    ASSUME Deciding, NEW s, NEW n, NEW f, Taking(s, n, f)
    PROVE  OwnPlan(f, ToSet(s), ChainPart(s, n, f))
<1>1. /\ s \in Seq(Blocks) /\ n \in Nat /\ n > 0 /\ Len(s) = n /\ f \in Fats
      /\ \A i, j \in 1..n : i # j => s[i] # s[j]
      /\ ToSet(s) = {s[i] : i \in 1..n}
      /\ \A b \in Blocks \ ToSet(s) : f[b] = mem[b]
  BY DEF Taking
<1>2. ToSet(s) \subseteq Blocks
  BY <1>1, ToSetMeaning
<1>3. PICK A : A = ChainPart(s, n, f)
  OBVIOUS
<1>4. A \in Seq({A[k] : k \in 1..n}) /\ Len(A) = n
  <2>1. A \in [1..n -> {A[k] : k \in 1..n}]
    BY <1>3 DEF ChainPart
  <2> QED
    BY <1>1, <2>1, FunctionSeq
<1>5. A \in Seq(ToSet(A))
  BY <1>4, SeqOfOwn
<1>6. \A k \in 1..n : A[k].op = "fat" /\ A[k].at = s[k] /\ A[k].value = f[s[k]]
  BY <1>3 DEF ChainPart, FatWrite
<1>7. \A b \in ToSet(s) : \E k \in 1..n : A[k].op = "fat" /\ A[k].at = b
  BY <1>1, <1>6
<1>8. \A k \in 1..n : A[k].at \in ToSet(s)
  BY <1>1, <1>6
<1>9. \A i, j \in 1..n : i # j => A[i].at # A[j].at
  BY <1>1, <1>6
<1>10. \A b \in ToSet(s) : mem[b] = FREE /\ f[b] \notin {FREE, RESERVED}
  BY TakenChain
<1>11. OwnPlan(f, ToSet(s), A)
  BY <1>1, <1>2, <1>4, <1>5, <1>6, <1>7, <1>8, <1>9, <1>10 DEF OwnPlan
<1> QED
  BY <1>3, <1>11

(* How much of the file the first k blocks hold.                           *)
Upto(k) == IF k = Needed THEN Len(data) ELSE k * BlockSize

From(k) == (k - 1) * BlockSize

LEMMA NeededBlocks ==
    ASSUME data \in Seq(ToSet(data))
    PROVE  /\ Needed \in Nat /\ Needed > 0 /\ Len(data) \in Nat
           /\ \A k \in 1..Needed : /\ (k - 1) * BlockSize \in Nat /\ Upto(k) \in Nat
                                   /\ (k - 1) * BlockSize <= Upto(k)
                                   /\ Upto(k) <= Len(data)
<1>1. PICK b \in Nat \ {0} : b = BlockSize
  BY ImageAssumption
<1>2. PICK l \in Nat : l = Len(data)
  BY LenProperties
<1>3. PICK n \in Nat : n = Needed /\ n > 0 /\ (n - 1) * b <= l
  <2>1. CASE data = <<>>
    <3>1. Needed = 1 /\ (1 - 1) * b = 0
      BY <2>1 DEF Needed
    <3> QED
      BY <3>1
  <2>2. CASE data # <<>>
    <3>1. l # 0
      BY <1>2, <2>2, EmptySeq
    <3>2. PICK a \in Nat : a = l + b - 1 /\ a >= b
      BY <3>1
    <3>3. PICK q \in Nat, r \in 0..(b - 1) : q = a \div b /\ a = b * q + r
      BY Division
    <3>4. q # 0
      BY <3>2, <3>3
    <3>5. Needed = q
      BY <1>1, <1>2, <2>2, <3>2, <3>3 DEF Needed
    <3>6. PICK m \in Nat : q = m + 1
      <4>1. q - 1 \in Nat /\ q = (q - 1) + 1
        BY <3>4
      <4> QED
        BY <4>1
    <3>7. b * (m + 1) = m * b + b
      OBVIOUS
    <3>8. m * b <= l
      BY <3>2, <3>3, <3>6, <3>7
    <3>9. q - 1 = m
      BY <3>6
    <3> QED
      BY <3>4, <3>5, <3>8, <3>9
  <2> QED
    BY <2>1, <2>2
<1>4. ASSUME NEW k \in 1..n
      PROVE  /\ (k - 1) * b \in Nat /\ Upto(k) \in Nat
             /\ (k - 1) * b <= Upto(k) /\ Upto(k) <= l
  <2>1. PICK m \in Nat : k = m + 1 /\ k - 1 = m
    <3>1. k - 1 \in Nat /\ k = (k - 1) + 1
      OBVIOUS
    <3> QED
      BY <3>1
  <2>2. m * b \in Nat
    OBVIOUS
  <2>3. CASE k = n
    BY <1>2, <1>3, <2>1, <2>2, <2>3 DEF Upto
  <2>4. CASE k # n
    <3>1. PICK j \in Nat : j = n - 1 /\ k <= j
      BY <2>4
    <3>2. k * b <= j * b
      BY <3>1
    <3>3. k * b = m * b + b
      BY <2>1
    <3>4. k * b \in Nat /\ j * b \in Nat /\ j * b <= l
      BY <1>3, <3>1
    <3>5. Upto(k) = k * b
      BY <1>1, <1>3, <2>4 DEF Upto
    <3> QED
      BY <2>1, <2>2, <3>2, <3>3, <3>4, <3>5
  <2> QED
    BY <2>3, <2>4
<1> QED
  BY <1>1, <1>2, <1>3, <1>4

LEMMA ChunkMeaning ==
    ASSUME data \in Seq(ToSet(data)), NEW k \in 1..Needed, NEW a, a = From(k), NEW c, c = Upto(k)
    PROVE  /\ Chunk(k) \in Seq(ToSet(data)) /\ Len(Chunk(k)) = c - a
           /\ \A i \in 1..(c - a) : Chunk(k)[i] = data[a + i]
           /\ ~HoldsEntries(Chunk(k))
<1>1. PICK l \in Nat : l = Len(data)
  BY LenProperties
<1>2. a \in Nat /\ c \in Nat /\ a <= c /\ c <= l
  BY <1>1, NeededBlocks DEF From
<1>3. Chunk(k) = SubSeq(data, a + 1, c)
  BY DEF Chunk, Upto, From
<1>4. \A i \in (a + 1)..c : data[i] \in ToSet(data)
  <2>1. \A i \in (a + 1)..c : i \in 1..l
    BY <1>2
  <2> QED
    BY <1>1, <2>1, ElementOfSeq
<1>5. /\ SubSeq(data, a + 1, c) \in Seq(ToSet(data))
      /\ Len(SubSeq(data, a + 1, c)) = IF a + 1 <= c THEN c - (a + 1) + 1 ELSE 0
      /\ \A i \in 1..(c - (a + 1) + 1) : SubSeq(data, a + 1, c)[i] = data[a + 1 + i - 1]
  <2>1. a + 1 \in Int /\ c \in Int
    BY <1>2
  <2> QED
    BY <1>4, <2>1, SubSeqProperties
<1>6. c - (a + 1) + 1 = c - a /\ (~(a + 1 <= c) => c - a = 0) /\ \A i \in 1..(c - a) : a + 1 + i - 1 = a + i
  BY <1>2
<1>7. Len(Chunk(k)) = c - a
  BY <1>3, <1>5, <1>6
<1>8. 0 \notin DOMAIN Chunk(k)
  BY <1>3, <1>5, LenProperties
<1>9. 0 \in Slots
  BY ImageAssumption DEF Slots
<1> QED
  BY <1>3, <1>5, <1>6, <1>7, <1>8, <1>9 DEF HoldsEntries

LEMMA ChunkPlain ==
    ASSUME data \in Contents, data \in Seq(ToSet(data)), NEW k \in 1..Needed
    PROVE  Plain(Chunk(k))
<1>1. PICK a, c : a = From(k) /\ c = Upto(k)
  OBVIOUS
<1>2. PICK l \in Nat : l = Len(data)
  BY LenProperties
<1>3. a \in Nat /\ c \in Nat /\ a <= c /\ c <= l
  BY <1>1, <1>2, NeededBlocks DEF From
<1>4. PICK bytes : bytes = Chunk(k) /\ bytes \in Seq(ToSet(data)) /\ Len(bytes) = c - a
  BY <1>1, ChunkMeaning
<1>5. ~HoldsEntries(bytes) /\ \A i \in 1..(c - a) : bytes[i] = data[a + i]
  BY <1>1, <1>4, ChunkMeaning
<1>6. \A i \in 1..l : Len(data[i]) # 1
  <2>1. PICK id \in FileIds, n \in FileSizes : data = [i \in 1..n |-> <<id, n, i>>]
    BY DEF Contents
  <2>2. n \in Nat /\ n = l
    <3>1. n \in Nat
      BY DiskputAssumption
    <3>2. DOMAIN data = 1..n /\ DOMAIN data = 1..l
      BY <1>2, <2>1, LenProperties
    <3> QED
      BY <3>1, <3>2
  <2>3. ASSUME NEW i \in 1..l
        PROVE  Len(data[i]) # 1
    <3>1. data[i] = <<id, n, i>>
      BY <2>1, <2>2
    <3>2. Len(<<id, n, i>>) = 3
      OBVIOUS
    <3> QED
      BY <3>1, <3>2
  <2> QED
    BY <2>3
<1>7. DOMAIN bytes = 1..(c - a)
  BY <1>4, LenProperties
<1>8. \A i \in 1..(c - a) : Len(bytes[i]) # 1
  <2>1. \A i \in 1..(c - a) : a + i \in 1..l
    BY <1>3
  <2> QED
    BY <1>5, <1>6, <2>1
<1> QED
  BY <1>4, <1>5, <1>7, <1>8, BytesPlain

LEMMA FillPartPlan ==
    ASSUME Deciding, NEW s, NEW n, NEW f, Taking(s, n, f), n = Needed
    PROVE  OwnPlan(f, ToSet(s), ChainPart(s, n, f) \o FillPart(s, n))
<1>1. /\ s \in Seq(Blocks) /\ n \in Nat /\ n > 0 /\ Len(s) = n
      /\ ToSet(s) = {s[i] : i \in 1..n}
  BY DEF Taking
<1>2. PICK X : X = ChainPart(s, n, f)
  OBVIOUS
<1>3. PICK Y : Y = FillPart(s, n)
  OBVIOUS
<1>4. X \in Seq({X[k] : k \in 1..n}) /\ Len(X) = n
  <2>1. X \in [1..n -> {X[k] : k \in 1..n}]
    BY <1>2 DEF ChainPart
  <2> QED
    BY <1>1, <2>1, FunctionSeq
<1>5. Y \in Seq({Y[k] : k \in 1..n}) /\ Len(Y) = n
  <2>1. Y \in [1..n -> {Y[k] : k \in 1..n}]
    BY <1>3 DEF FillPart
  <2> QED
    BY <1>1, <2>1, FunctionSeq
<1>6. PICK T : T = {X[k] : k \in 1..n} \cup {Y[k] : k \in 1..n}
  OBVIOUS
<1>7. X \in Seq(T) /\ Y \in Seq(T)
  BY <1>4, <1>5, <1>6
<1>8. PICK A : A = X \o Y
  OBVIOUS
<1>9. /\ A \in Seq(T) /\ Len(A) = n + n
      /\ \A i \in 1..(n + n) : A[i] = IF i <= n THEN X[i] ELSE Y[i - n]
  <2>1. /\ A \in Seq(T) /\ Len(A) = Len(X) + Len(Y)
        /\ \A i \in 1..(Len(X) + Len(Y)) : A[i] = IF i <= Len(X) THEN X[i] ELSE Y[i - Len(X)]
    BY <1>7, <1>8, ConcatProperties
  <2> QED
    BY <1>4, <1>5, <2>1
<1>10. A \in Seq(ToSet(A))
  BY <1>9, SeqOfOwn
<1>11. \A k \in 1..n : Y[k].op = "block" /\ Y[k].at = s[k] /\ Plain(Y[k].bytes)
  <2>1. data \in Contents /\ data \in Seq(ToSet(data))
    BY DEF Deciding, TypeOK
  <2>2. \A k \in 1..n : Plain(Chunk(k))
    BY <2>1, ChunkPlain
  <2> QED
    BY <1>3, <2>2 DEF FillPart, BlockWrite
<1>12. OwnPlan(f, ToSet(s), X)
  BY <1>2, ChainPartPlan
<1>13. \A i \in 1..n : X[i].at \in ToSet(s) /\ X[i].op = "fat" /\ X[i].value = f[X[i].at]
  <2>1. \A i \in 1..n : X[i].op = "fat"
    BY <1>2 DEF ChainPart, FatWrite
  <2> QED
    BY <1>4, <1>12, <2>1 DEF OwnPlan
<1>14. ASSUME NEW i \in 1..(n + n)
       PROVE  \/ i \in 1..n /\ A[i] = X[i]
              \/ \E k \in 1..n : A[i] = Y[k]
  <2>1. CASE i <= n
    BY <1>1, <1>9, <2>1
  <2>2. CASE ~(i <= n)
    <3>1. i - n \in 1..n
      BY <1>1, <2>2
    <3> QED
      BY <1>9, <2>2, <3>1
  <2> QED
    BY <2>1, <2>2
<1>15. \A i \in 1..Len(A) :
           /\ A[i].at \in ToSet(s)
           /\ \/ A[i].op = "fat" /\ A[i].value = f[A[i].at]
              \/ A[i].op = "block" /\ Plain(A[i].bytes)
  <2> SUFFICES ASSUME NEW i \in 1..(n + n)
               PROVE  /\ A[i].at \in ToSet(s)
                      /\ \/ A[i].op = "fat" /\ A[i].value = f[A[i].at]
                         \/ A[i].op = "block" /\ Plain(A[i].bytes)
    BY <1>9
  <2>1. CASE i \in 1..n /\ A[i] = X[i]
    BY <1>13, <2>1
  <2>2. CASE \E k \in 1..n : A[i] = Y[k]
    BY <1>1, <1>11, <2>2
  <2> QED
    BY <1>14, <2>1, <2>2
<1>16. ASSUME NEW i \in 1..(n + n), A[i].op = "fat" PROVE i \in 1..n /\ A[i] = X[i]
  <2>1. ~ \E k \in 1..n : A[i] = Y[k]
    BY <1>11, <1>16
  <2> QED
    BY <1>14, <2>1
<1>17. \A i, j \in 1..Len(A) : A[i].op = "fat" /\ A[j].op = "fat" /\ i # j => A[i].at # A[j].at
  <2>1. \A i, j \in 1..n : X[i].op = "fat" /\ X[j].op = "fat" /\ i # j => X[i].at # X[j].at
    BY <1>4, <1>12 DEF OwnPlan
  <2> QED
    BY <1>9, <1>16, <2>1
<1>18. ASSUME NEW b \in ToSet(s) PROVE \E i \in 1..Len(A) : A[i].op = "fat" /\ A[i].at = b
  <2>1. PICK i \in 1..n : X[i].op = "fat" /\ X[i].at = b
    BY <1>4, <1>12 DEF OwnPlan
  <2>2. i \in 1..(n + n) /\ i <= n
    BY <1>1
  <2> QED
    BY <1>9, <2>1, <2>2
<1>19. OwnPlan(f, ToSet(s), A)
  BY <1>10, <1>12, <1>15, <1>17, <1>18 DEF OwnPlan
<1> QED
  BY <1>2, <1>3, <1>8, <1>19

LEMMA FillPartFills ==
    ASSUME Deciding, NEW s, NEW n, NEW f, Taking(s, n, f), n = Needed,
           NEW A, A = ChainPart(s, n, f) \o FillPart(s, n)
    PROVE  Fills(A, s)
<1>1. n \in Nat /\ \A i, j \in 1..n : i # j => s[i] # s[j]
  BY DEF Taking
<1>2. PICK X : X = ChainPart(s, n, f)
  OBVIOUS
<1>3. PICK Y : Y = FillPart(s, n)
  OBVIOUS
<1>4. X \in Seq({X[k] : k \in 1..n}) /\ Len(X) = n
  <2>1. X \in [1..n -> {X[k] : k \in 1..n}]
    BY <1>2 DEF ChainPart
  <2> QED
    BY <1>1, <2>1, FunctionSeq
<1>5. Y \in Seq({Y[k] : k \in 1..n}) /\ Len(Y) = n
  <2>1. Y \in [1..n -> {Y[k] : k \in 1..n}]
    BY <1>3 DEF FillPart
  <2> QED
    BY <1>1, <2>1, FunctionSeq
<1>6. PICK T : T = {X[k] : k \in 1..n} \cup {Y[k] : k \in 1..n}
  OBVIOUS
<1>7. X \in Seq(T) /\ Y \in Seq(T)
  BY <1>4, <1>5, <1>6
<1>8. /\ Len(A) = n + n
      /\ \A i \in 1..(n + n) : A[i] = IF i <= n THEN X[i] ELSE Y[i - n]
  <2>1. /\ Len(A) = Len(X) + Len(Y)
        /\ \A i \in 1..(Len(X) + Len(Y)) : A[i] = IF i <= Len(X) THEN X[i] ELSE Y[i - Len(X)]
    BY <1>2, <1>3, <1>7, ConcatProperties
  <2> QED
    BY <1>4, <1>5, <2>1
<1>9. \A k \in 1..n : Y[k].op = "block" /\ Y[k].at = s[k] /\ Y[k].bytes = Chunk(k)
  BY <1>3 DEF FillPart, BlockWrite
<1>10. \A i \in 1..n : X[i].op = "fat"
  BY <1>2 DEF ChainPart, FatWrite
<1>11. ASSUME NEW k \in 1..n PROVE \E i \in 1..Len(A) : A[i] = Y[k]
  <2>1. PICK i \in 1..(n + n) : i = n + k /\ ~(i <= n) /\ i - n = k
    BY <1>1
  <2> QED
    BY <1>8, <2>1
<1>12. ASSUME NEW i \in 1..Len(A), A[i].op = "block" PROVE \E k \in 1..n : A[i] = Y[k]
  <2>1. i \in 1..(n + n) /\ ~(i <= n)
    <3>1. i \in 1..(n + n) /\ (i <= n => i \in 1..n)
      BY <1>1, <1>8
    <3>2. i <= n => A[i] = X[i]
      BY <1>8, <3>1
    <3> QED
      BY <1>10, <1>12, <3>1, <3>2
  <2>2. PICK k \in 1..n : k = i - n
    BY <1>1, <2>1
  <2> QED
    BY <1>8, <2>1, <2>2
<1> SUFFICES ASSUME NEW k \in 1..n
             PROVE  /\ \E i \in 1..Len(A) : A[i].op = "block" /\ A[i].at = s[k]
                    /\ \A i \in 1..Len(A) : A[i].op = "block" /\ A[i].at = s[k] => A[i].bytes = Chunk(k)
  BY DEF Fills
<1>13. \E i \in 1..Len(A) : A[i].op = "block" /\ A[i].at = s[k]
  BY <1>9, <1>11
<1>14. ASSUME NEW i \in 1..Len(A), A[i].op = "block", A[i].at = s[k] PROVE A[i].bytes = Chunk(k)
  <2>1. PICK l \in 1..n : A[i] = Y[l]
    BY <1>12, <1>14
  <2>2. s[l] = s[k]
    BY <1>9, <1>14, <2>1
  <2>3. l = k
    BY <1>1, <2>2
  <2> QED
    BY <1>9, <2>1, <2>3
<1> QED
  BY <1>13, <1>14

LEMMA PutThereDecides ==
    ASSUME IInv, PutThere
    PROVE  \E f, O, A, e, next, slot : Decided(f, O, A, e, next, slot)
<1>1. Deciding /\ path[comp] \in Names
  BY Decides DEF PutThere
<1>2. /\ UNCHANGED <<fat, block, path, data, comp, dir>>
      /\ PutFile(path[comp])
  BY DEF PutThere, image
<1>3. PICK s : s = FileBlocks
  OBVIOUS
<1>4. PICK n \in Nat : n = Needed
  BY <1>1, NeededPositive
<1>5. PICK f : f = Chained(s)
  OBVIOUS
<1>6. Taking(s, n, f)
  BY <1>1, <1>2, <1>3, <1>4, <1>5, FileTakes DEF PutFile
<1>7. PICK A : A = ChainPart(s, n, f) \o FillPart(s, n)
  OBVIOUS
<1>8. OwnPlan(f, ToSet(s), A)
  BY <1>1, <1>4, <1>6, <1>7, FillPartPlan
<1>9. PICK next : next = [do |-> "succeed"]
  OBVIOUS
<1>10. PICK e : e = FileEntry(path[comp], s[1], n, Len(data))
  OBVIOUS
<1>11. PICK slot \in SlotPlans(f, A) : Link(f, slot, A, e, next)
  <2>1. A = ChainWrites(s) \o [k \in 1..Needed |-> BlockWrite(s[k], Chunk(k), TRUE)]
    BY <1>4, <1>5, <1>7 DEF ChainPart, FillPart, ChainWrites
  <2> QED
    BY <1>2, <1>3, <1>4, <1>5, <1>9, <1>10, <2>1 DEF PutFile
<1>12. IsChain(f, s) /\ FollowChain(f, s[1]) = s /\ s[1] \in Blocks /\ Len(s) = n
  BY <1>1, <1>6, TakenChain DEF Taking
<1>13. ~e.dir /\ e.start = s[1] /\ e.blocks = n /\ e \in EntrySet
  <2>1. Len(data) \in Nat
    BY <1>1, NeededPositive
  <2> QED
    <3>1. PICK name \in Names, b \in Blocks, size \in Nat : name = path[comp] /\ b = s[1] /\ size = Len(data)
      BY <1>1, <1>12, <2>1
    <3>2. e = FileEntry(name, b, n, size)
      BY <1>10, <3>1
    <3>3. ~e.dir /\ e.start = b /\ e.blocks = n /\ e \in EntrySet
      BY <3>2, FileTyped
    <3> QED
      BY <3>1, <3>3
<1>14. EntryPlan(f, ToSet(s), e, next)
  BY <1>9, <1>12, <1>13 DEF EntryPlan, Fits
<1>15. Enters(f, A, e)
  <2>1. e.name = path[comp] /\ e.size = Len(data)
    BY <1>10 DEF FileEntry
  <2>2. Fills(A, s)
    BY <1>1, <1>4, <1>6, <1>7, FillPartFills
  <2>3. comp = Len(path)
    BY DEF PutThere, AtFile
  <2>4. FollowChain(f, e.start) = s
    BY <1>12, <1>13
  <2> QED
    BY <1>4, <1>12, <2>1, <2>2, <2>3, <2>4 DEF Enters
<1>16. Decided(f, ToSet(s), A, e, next, slot)
  BY <1>8, <1>11, <1>14, <1>15 DEF Decided
<1> QED
  BY <1>16

LEMMA PutThereStep ==
    ASSUME IInv, PutThere
    PROVE  IInv'
<1>1. Deciding /\ UNCHANGED <<fat, block, path, data, comp, dir>>
  BY Decides DEF PutThere, image
<1>2. PICK f, O, A, e, next, slot : Decided(f, O, A, e, next, slot)
  BY PutThereDecides
<1> QED
  BY <1>1, <1>2, SlotLinks DEF Decided

LEMMA NoBufferStep ==
    ASSUME IInv, NoBuffer
    PROVE  IInv'
<1>1. Deciding
  BY Decides DEF NoBuffer
<1>2. /\ UNCHANGED <<fat, block, path, data, comp, dir>> /\ Len(FreeBlocks(mem)) >= Needed
      /\ pc' = "writing" /\ mem' = Chained(FileBlocks) /\ todo' = ChainWrites(FileBlocks)
      /\ after'.do = "fail"
  BY DEF NoBuffer, image
<1>3. PICK s : s = FileBlocks
  OBVIOUS
<1>4. PICK n \in Nat : n = Needed
  BY <1>1, NeededPositive
<1>5. PICK f : f = Chained(s)
  OBVIOUS
<1>6. Taking(s, n, f)
  BY <1>1, <1>2, <1>3, <1>4, <1>5, FileTakes
<1>7. todo' = ChainPart(s, n, f) /\ mem' = f
  BY <1>2, <1>3, <1>4, <1>5 DEF ChainWrites, ChainPart
<1>8. OwnPlan(f, ToSet(s), todo')
  BY <1>1, <1>6, <1>7, ChainPartPlan
<1>9. TypeOK' /\ Base' /\ Working'
  BY <1>1, <1>2, <1>7, <1>8, PlanFails
<1> QED
  BY <1>2, <1>9 DEF IInv

LEMMA WriteKeeps ==
    ASSUME IInv, Write
    PROVE  IInv'
<1>1. TypeOK /\ Base /\ Working
  BY DEF IInv, Write
<1>2. TypeOK' /\ Base' /\ Working' /\ pc' = "writing"
  BY <1>1, WriteStep
<1> QED
  BY <1>2 DEF IInv

LEMMA Stutter ==
    ASSUME IInv, UNCHANGED vars
    PROVE  IInv'
<1>1. UNCHANGED <<fat, block, pc, mem, path, data, comp, dir, todo, after, rc>>
  BY DEF vars, image, program, history
<1>2. TypeOK' /\ Base'
  BY <1>1 DEF IInv, TypeOK, Base
<1>3. Working => Working'
  BY <1>1 DEF Working, Ahead, Extending, Filling, Linking, EntryReady, Here0, OldLast, NewLast,
              Pending, IsFat, IsBlock, IsEntry
<1> QED
  BY <1>1, <1>2, <1>3 DEF IInv

LEMMA NothingFirst ==
    ASSUME Init
    PROVE  /\ fat \in Fats /\ mem \in Fats /\ InUse(block) = {}
           /\ fat[FREE] = RESERVED /\ fat[RESERVED] = RESERVED /\ fat[Root] = EOF
<1>1. /\ fat = [b \in Blocks |-> IF b < Root THEN RESERVED ELSE IF b = Root THEN EOF ELSE FREE]
      /\ block = [b \in Blocks |-> IF b = Root THEN EmptyDir ELSE Unwritten(b)]
      /\ pc = "none" /\ mem = [b \in Blocks |-> FREE] /\ todo = <<>>
  BY DEF Init
<1>2. fat \in Fats /\ mem \in Fats
  BY <1>1, Numbers DEF Fats
<1>3. fat[FREE] = RESERVED /\ fat[RESERVED] = RESERVED /\ fat[Root] = EOF
  BY <1>1, Numbers
<1>4. InUse(block) = {}
  <2> SUFFICES ASSUME NEW p \in InUse(block) PROVE FALSE
    OBVIOUS
  <2>1. p.block \in Blocks /\ p.index \in Slots
    BY DEF InUse
  <2>2. Plain(block[p.block])
    <3>1. block[p.block] = EmptyDir \/ block[p.block] = Unwritten(p.block)
      BY <1>1, <2>1
    <3> QED
      BY <3>1, EmptyPlain, UnwrittenPlain
  <2>3. EntryAt(block, p) \in {NoEntry, Foreign}
    BY <2>1, <2>2 DEF Plain, EntryAt
  <2> QED
    BY <2>3 DEF InUse, NoEntry
<1> QED
  BY <1>2, <1>3, <1>4

LEMMA InitSound ==
    ASSUME Init
    PROVE  torn = <<>> /\ IInv
<1>1. /\ torn = <<>> /\ block = [b \in Blocks |-> IF b = Root THEN EmptyDir ELSE Unwritten(b)]
      /\ pc = "none" /\ todo = <<>>
  BY DEF Init
<1>2. fat \in Fats /\ mem \in Fats
  BY NothingFirst
<1>3. fat[FREE] = RESERVED /\ fat[RESERVED] = RESERVED /\ fat[Root] = EOF
  BY NothingFirst
<1>4. InUse(block) = {}
  BY NothingFirst
<1>5. Sound(fat, block)
  <2>1. PICK s : s = <<Root>>
    OBVIOUS
  <2>2. s \in Seq(Blocks) /\ Len(s) = 1 /\ s[1] = Root
    BY <2>1, Numbers
  <2>3. IsChain(fat, s)
    BY <1>3, <2>2, Numbers DEF IsChain, IsPath
  <2>4. Owned(fat, block, RootPlace) = s
    BY <1>2, <2>2, <2>3, ChainFollowed DEF Owned, StartOf
  <2>5. Owners(block) = {RootPlace}
    BY <1>4 DEF Owners
  <2> QED
    BY <1>4, <2>3, <2>4, <2>5 DEF Sound
<1>6. TypeOK
  <2>1. todo \in Seq(ToSet(todo)) /\ DOMAIN todo = {} /\ DOMAIN block = Blocks
    BY <1>1, NoWrites
  <2> QED
    BY <1>1, <1>2, <1>4, <2>1 DEF TypeOK
<1>7. Base
  BY <1>3, <1>4 DEF Base
<1> QED
  BY <1>1, <1>5, <1>6, <1>7 DEF IInv

----------------------------------------------------------------------------
(* The theorems.                                                           *)

LEMMA LostStays ==
    ASSUME lost, [Next]_vars
    PROVE  lost'
<1>1. (lost' = lost) \/ lost' = TRUE
  <2>1. CASE UNCHANGED vars
    BY <2>1 DEF vars, history
  <2>2. CASE \E p \in Paths, content \in Contents : Start(p, content)
    BY <2>2 DEF Start
  <2>3. CASE Descend
    BY <2>3 DEF Descend
  <2>4. CASE MakeDir
    BY <2>4 DEF MakeDir
  <2>5. CASE PutThere
    BY <2>5 DEF PutThere
  <2>6. CASE Refused
    BY <2>6 DEF Refused
  <2>7. CASE NoBuffer
    BY <2>7 DEF NoBuffer
  <2>8. CASE Write
    BY <2>8 DEF Write, history
  <2>9. CASE Proceed
    BY <2>9 DEF Proceed
  <2>10. CASE WriteFails
    BY <2>10 DEF WriteFails
  <2>11. CASE WriteLost
    BY <2>11 DEF WriteLost
  <2>12. CASE Kill
    BY <2>12 DEF Kill
  <2>13. CASE LeftAlone
    BY <2>13 DEF LeftAlone, vars, history
  <2> QED
    BY <2>1, <2>2, <2>3, <2>4, <2>5, <2>6, <2>7, <2>8, <2>9, <2>10, <2>11, <2>12, <2>13 DEF Next
<1> QED
  BY <1>1

LEMMA TornStays ==
    ASSUME TornByKill, [Next]_vars
    PROVE  TornByKill'
<1> SUFFICES torn' = torn /\ (failedOnce => failedOnce')
  BY DEF TornByKill
<1>1. torn # <<>>
  BY DEF TornByKill
<1>2. ASSUME NEW how, Ended(how) PROVE torn' = torn /\ (failedOnce => failedOnce')
  BY <1>1, <1>2 DEF Ended
<1>3. CASE UNCHANGED vars
  BY <1>3 DEF vars, history
<1>4. CASE \E p \in Paths, content \in Contents : Start(p, content)
  BY <1>4 DEF Start
<1>5. CASE Descend
  BY <1>5 DEF Descend
<1>6. CASE MakeDir
  BY <1>6 DEF MakeDir
<1>7. CASE PutThere
  BY <1>7 DEF PutThere
<1>8. CASE Refused
  BY <1>2, <1>8 DEF Refused
<1>9. CASE NoBuffer
  BY <1>9 DEF NoBuffer
<1>10. CASE Write
  BY <1>10 DEF Write, history
<1>11. CASE Proceed
  BY <1>2, <1>11 DEF Proceed
<1>12. CASE WriteFails
  BY <1>2, <1>12 DEF WriteFails
<1>13. CASE WriteLost
  BY <1>13 DEF WriteLost
<1>14. CASE Kill
  BY <1>2, <1>14 DEF Kill
<1>15. CASE LeftAlone
  BY <1>15 DEF LeftAlone, vars, history
<1> QED
  BY <1>3, <1>4, <1>5, <1>6, <1>7, <1>8, <1>9, <1>10, <1>11, <1>12, <1>13, <1>14, <1>15 DEF Next

LEMMA StepKeeps ==
    ASSUME IInv, torn = <<>>, [Next]_vars
    PROVE  lost' \/ TornByKill' \/ (torn' = <<>> /\ IInv')
<1>1. CASE UNCHANGED vars
  BY <1>1, Stutter DEF vars, history
<1>2. CASE \E p \in Paths, content \in Contents : Start(p, content)
  BY <1>2, StartStep DEF Start
<1>3. CASE Descend
  BY <1>3, DescendStep DEF Descend
<1>4. CASE MakeDir
  BY <1>4, MakeDirStep DEF MakeDir
<1>5. CASE PutThere
  BY <1>5, PutThereStep DEF PutThere
<1>6. CASE Refused
  BY <1>6, RefusedStep
<1>7. CASE NoBuffer
  BY <1>7, NoBufferStep DEF NoBuffer
<1>8. CASE Write
  BY <1>8, WriteKeeps DEF Write, history
<1>9. CASE Proceed
  BY <1>9, ProceedStep
<1>10. CASE WriteFails
  BY <1>10, WriteFailsStep
<1>11. CASE WriteLost
  BY <1>11 DEF WriteLost
<1>12. CASE Kill
  BY <1>12, KillStep
<1>13. CASE LeftAlone
  BY <1>13, Stutter DEF LeftAlone, vars, history
<1> QED
  BY <1>1, <1>2, <1>3, <1>4, <1>5, <1>6, <1>7, <1>8, <1>9, <1>10, <1>11, <1>12, <1>13 DEF Next

(* The inductive invariant: as long as no write was lost unnoticed and no  *)
(* kill has left the image torn, the FAT in memory has every chain whole   *)
(* and apart from the others, and the image is behind it by exactly the    *)
(* writes still to be made.                                                *)
THEOREM Inductive == Spec => []Inv
<1>1. Init => Inv
  BY InitSound DEF Inv
<1>2. Inv /\ [Next]_vars => Inv'
  BY LostStays, TornStays, StepKeeps DEF Inv
<1> QED
  BY <1>1, <1>2, PTL DEF Spec

LEMMA IInvState ==
    ASSUME IInv
    PROVE  /\ fat \in Fats /\ Typed(block)
           /\ \/ Sound(fat, block)
              \/ Overrun(fat, block) /\ pc = "writing"
<1>1. TypeOK /\ Base
  BY DEF IInv
<1>2. fat \in Fats /\ Typed(block)
  BY <1>1 DEF TypeOK, Typed
<1>3. CASE pc = "none"
  BY <1>2, <1>3 DEF IInv
<1>4. CASE pc = "deciding"
  BY <1>2, <1>4 DEF IInv, Working
<1>5. CASE pc = "writing"
  <2>1. Working
    BY <1>5 DEF IInv
  <2> QED
    BY <1>1, <1>2, <1>5, <2>1, DiskSound
<1> QED
  BY <1>1, <1>3, <1>4, <1>5 DEF TypeOK

(* No block is in two places and every chain is as long as its entry says, *)
(* for every image, every file and every series of puts with kills and     *)
(* failures between any two writes, as long as no write was lost unnoticed *)
(* and no kill has left the image torn.                                    *)
THEOREM ChainsStaySound == Spec => [](lost \/ ChainsSound)
<1>1. Inv => lost \/ ChainsSound
  <2> SUFFICES ASSUME IInv PROVE ChainsSound
    BY DEF Inv, TornByKill, ChainsSound
  <2>1. CASE Sound(fat, block)
    BY <2>1, IInvState, SoundChains
  <2>2. CASE Overrun(fat, block)
    <3>1. Torn
      BY <2>2, IInvState, OverrunTorn
    <3> QED
      BY <3>1 DEF ChainsSound
  <2> QED
    BY <2>1, <2>2, IInvState
<1> QED
  BY <1>1, Inductive, PTL

(* Until the image has been left torn or a write was lost, no entry of a   *)
(* file leads into a free block, and a directory's does only between the   *)
(* two writes that extend it; and without a lost write the diskput that    *)
(* first left the image torn is one that was killed.                       *)
THEOREM OnlyKillsTear == Spec => []TornOnlyByKill
<1>1. Inv => TornOnlyByKill
  <2> SUFFICES ASSUME IInv, torn = <<>>, Torn
               PROVE  /\ pc = "writing"
                      /\ \A p \in Linked : RunsOn(ChainOf(p)) => EntryAt(block, p).dir
    BY DEF Inv, TornByKill, TornOnlyByKill
  <2>1. ~Sound(fat, block)
    BY IInvState, SoundNotTorn
  <2> QED
    BY <2>1, IInvState, OverrunTorn
<1> QED
  BY <1>1, Inductive, PTL

----------------------------------------------------------------------------
(* No block is lost.                                                       *)
Marked(f) == {b \in Blocks : f[b] \notin {FREE, RESERVED}}

AllReached(f, blk) == \A p \in InUse(blk) : Reached(f, blk, p)

(* The blocks the last write of todo is to link.                           *)
Awaited == IF todo = <<>> THEN {} ELSE ToSet(FollowChain(mem, todo[Len(todo)].entry.start))

(* Every entry is on a way down from the root, and every block marked as   *)
(* used is in a chain, or is just about to be.                             *)
NoStraysIn(f, blk, awaited) == AllReached(f, blk) /\ Marked(f) \subseteq Used(f, blk) \cup awaited

NoStrays == IF pc = "none" THEN NoStraysIn(fat, block, {}) ELSE NoStraysIn(mem, block, Awaited)

Giving == pc = "writing" /\ after.do = "fail"

Tidy == failedOnce \/ Giving \/ NoStrays

(* What every entry has been reached by, it is still reached by.           *)
LEMMA StillReached ==
    ASSUME NEW f, NEW blk, NEW g, NEW new, Typed(blk), Kept(f, blk, g, new), AllReached(f, blk)
    PROVE  \A p \in InUse(blk) : Reached(g, new, p)
BY ReachedKept DEF AllReached

(* The blocks a decision takes are those it links.                         *)
LEMMA OwnMarked ==
    ASSUME Deciding, NEW f, NEW O, NEW A, OwnPlan(f, O, A), NoStraysIn(mem, block, {})
    PROVE  NoStraysIn(f, block, O)
<1>1. /\ f \in Fats /\ mem \in Fats /\ Typed(block) /\ Used(f, block) = Used(mem, block)
      /\ Kept(mem, block, f, block)
  BY PlanBase
<1>2. AllReached(f, block)
  BY <1>1, StillReached DEF NoStraysIn, AllReached
<1>3. ASSUME NEW x \in Marked(f), x \notin O PROVE x \in Used(f, block)
  <2>1. x \in Blocks /\ f[x] = mem[x]
    BY <1>3 DEF OwnPlan, Marked
  <2>2. x \in Marked(mem)
    BY <1>3, <2>1 DEF Marked
  <2> QED
    BY <1>1, <2>2 DEF NoStraysIn
<1> QED
  BY <1>2, <1>3 DEF NoStraysIn

LEMMA GrownMarked ==
    ASSUME Deciding, NEW f, NEW O, NEW A, OwnPlan(f, O, A), NEW e, NEW next, EntryPlan(f, O, e, next),
           NEW new \in Blocks, f[new] = FREE, NEW g, g = NewBlockEnded(f, Last(FollowChain(f, dir)), new),
           NoStraysIn(f, block, O)
    PROVE  NoStraysIn(g, block, O) /\ FollowChain(g, e.start) = FollowChain(f, e.start)
<1>1. PICK s : s = FollowChain(f, dir)
  OBVIOUS
<1>2. g = NewBlockEnded(f, Last(s), new)
  BY <1>1
<1>3. /\ g \in Fats /\ Used(g, block) = Used(f, block) \cup {new} /\ Kept(f, block, g, block)
      /\ Last(s) \in Used(f, block) /\ new \notin O
      /\ \A b \in Blocks : b # Last(s) /\ b # new => g[b] = f[b]
  BY <1>1, <1>2, PlanGrown
<1>4. /\ f \in Fats /\ Typed(block) /\ O \cap Used(f, block) = {}
      /\ \A b \in O : b \in Blocks
  BY PlanBase
<1>5. AllReached(g, block)
  BY <1>3, <1>4, StillReached DEF NoStraysIn, AllReached
<1>6. Marked(g) \subseteq Used(g, block) \cup O
  <2> SUFFICES ASSUME NEW x \in Marked(g), x # Last(s), x # new PROVE x \in Used(f, block) \cup O
    BY <1>3
  <2>1. x \in Blocks /\ f[x] = g[x]
    BY <1>3 DEF Marked
  <2>2. x \in Marked(f)
    BY <2>1 DEF Marked
  <2> QED
    BY <2>2 DEF NoStraysIn
<1>7. FollowChain(g, e.start) = FollowChain(f, e.start)
  <2>1. PICK b \in Blocks : b = e.start
    BY DEF EntryPlan, EntrySet
  <2>2. IsChain(f, FollowChain(f, b)) /\ ToSet(FollowChain(f, b)) \subseteq O
    BY <2>1 DEF EntryPlan
  <2>3. \A x \in ToSet(FollowChain(f, b)) : g[x] = f[x]
    BY <1>3, <1>4, <2>2
  <2> QED
    BY <1>3, <1>4, <2>1, <2>2, <2>3, SameChain
<1> QED
  BY <1>5, <1>6, <1>7 DEF NoStraysIn

(* After a decision only the blocks it is about to link are in no chain.   *)
LEMMA LinkNoStrays ==
    ASSUME Deciding, NEW f, NEW O, NEW A, OwnPlan(f, O, A), NEW e, NEW next, EntryPlan(f, O, e, next),
           NEW slot \in SlotPlans(f, A), Link(f, slot, A, e, next), UNCHANGED block,
           NoStraysIn(mem, block, {})
    PROVE  Giving' \/ NoStrays'
<1>1. PICK unread : slot = SlotPlan(f, block, unread)
  BY SlotSeen DEF SlotPlans
<1>2. pc' = "writing" /\ mem' = slot.fat
  BY DEF Link
<1>3. f \in Fats /\ dir \in Blocks /\ A \in Seq(ToSet(A))
  BY DEF OwnPlan, Deciding, TypeOK
<1>4. slot.ok => todo' = (A \o slot.writes) \o <<EntryWrite(slot.at, e)>>
  BY DEF Link, InOrder
<1>5. ~slot.ok /\ slot.do = "fail" => Giving'
  BY <1>2 DEF Link, Giving
<1>6. NoStraysIn(f, block, O)
  BY OwnMarked
<1>7. ASSUME NEW S, NEW W \in Seq(S), slot.ok, slot.writes = W,
             FollowChain(slot.fat, e.start) = FollowChain(f, e.start), NoStraysIn(slot.fat, block, O)
      PROVE  NoStrays'
  <2>1. PICK x : x = EntryWrite(slot.at, e)
    OBVIOUS
  <2>2. Laid(todo', A, W, x)
    BY <1>3, <1>4, <1>7, <2>1, LaidOut
  <2>3. todo' # <<>> /\ todo'[Len(todo')] = x /\ x.entry = e
    BY <2>1, <2>2 DEF Laid, EntryWrite
  <2>4. Awaited' = ToSet(FollowChain(f, e.start)) /\ ToSet(FollowChain(f, e.start)) = O
    BY <1>2, <1>7, <2>3 DEF Awaited, EntryPlan
  <2>5. NoStraysIn(mem', block', Awaited')
    BY <1>2, <1>7, <2>4 DEF NoStraysIn
  <2> QED
    BY <1>2, <2>5 DEF NoStrays
<1>8. PICK free : free = FreeSlot(f, block, dir, unread)
  OBVIOUS
<1>9. PICK new : new = FreeBlocks(f)
  OBVIOUS
<1>10. CASE free # <<>>
  <2>1. slot = [ok |-> TRUE, at |-> free[1], fat |-> f, writes |-> <<>>]
    BY <1>1, <1>8, <1>10 DEF SlotPlan
  <2>2. slot.ok /\ slot.fat = f /\ slot.writes = <<>>
    BY <2>1
  <2> QED
    BY <1>6, <1>7, <2>2, NoWrites
<1>11. CASE free = <<>> /\ new # <<>>
  <2>1. PICK g : g = NewBlockEnded(f, Last(FollowChain(f, dir)), new[1])
    OBVIOUS
  <2>2. PICK W : W = GrowWrites(g, Last(FollowChain(f, dir)), new[1])
    OBVIOUS
  <2>3. slot = [ok |-> TRUE, at |-> [block |-> new[1], index |-> 0], fat |-> g, writes |-> W]
    BY <1>1, <1>8, <1>9, <1>11, <2>1, <2>2, DirectoryEnds DEF SlotPlan, GrowWrites
  <2>4. slot.ok /\ slot.fat = g /\ slot.writes = W
    BY <2>3
  <2>5. PICK b \in Blocks : b = new[1] /\ f[b] = FREE
    BY <1>9, <1>11, FirstFree
  <2>6. W \in Seq({W[1], W[2], W[3]})
    BY <2>2 DEF GrowWrites
  <2>7. NoStraysIn(g, block, O) /\ FollowChain(g, e.start) = FollowChain(f, e.start)
    BY <1>6, <2>1, <2>5, GrownMarked
  <2> QED
    BY <1>7, <2>4, <2>6, <2>7
<1>12. CASE free = <<>> /\ new = <<>>
  <2>1. slot = [ok |-> FALSE, do |-> "fail", fat |-> f, writes |-> <<>>]
    BY <1>1, <1>8, <1>9, <1>12 DEF SlotPlan
  <2> QED
    BY <1>5, <2>1
<1> QED
  BY <1>10, <1>11, <1>12

(* The steps.                                                              *)
LEMMA DecidesNoStrays ==
    ASSUME IInv, Tidy, MakeDir \/ PutThere
    PROVE  Tidy'
<1>1. pc = "deciding" /\ failedOnce' = failedOnce /\ rc' = rc /\ block' = block
  BY DEF MakeDir, PutThere, image
<1>2. Deciding
  BY <1>1, Decides
<1>3. PICK f, O, A, e, next, slot : Decided(f, O, A, e, next, slot)
  BY MakeDirDecides, PutThereDecides
<1>4. CASE failedOnce
  BY <1>1, <1>4 DEF Tidy
<1>5. CASE ~failedOnce
  <2>1. NoStrays
    BY <1>1, <1>5 DEF Tidy, Giving
  <2>2. todo = <<>>
    BY <1>1, <1>2 DEF Deciding, TypeOK
  <2>3. NoStraysIn(mem, block, {})
    BY <1>1, <2>1, <2>2 DEF NoStrays, Awaited
  <2>4. Giving' \/ NoStrays'
    BY <1>1, <1>2, <1>3, <2>3, LinkNoStrays DEF Decided
  <2> QED
    BY <1>1, <2>1, <2>4 DEF Tidy
<1> QED
  BY <1>4, <1>5

(* A write that is not the last leaves what is awaited.                    *)
LEMMA StillAwaited ==
    ASSUME TypeOK, Linking, pc = "writing", NEW m, Shift(m), after.do # "fail", ~IsEntry(1), mem' = mem
    PROVE  Awaited' = Awaited
<1>1. todo # <<>>
  BY LenProperties, EmptySeq DEF Shift
<1>2. IsEntry(Len(todo))
  BY <1>1 DEF Linking
<1>3. m # 0
  BY <1>2 DEF Shift
<1>4. todo' # <<>> /\ todo'[Len(todo')] = todo[Len(todo)]
  BY <1>3, RestTyped DEF Shift
<1> QED
  BY <1>1, <1>4 DEF Awaited

LEMMA WriteNoStrays ==
    ASSUME IInv, Tidy, Write
    PROVE  Tidy'
<1>1. /\ pc = "writing" /\ todo # <<>> /\ todo' = Tail(todo)
      /\ block' = BlockAfter(Head(todo))
      /\ UNCHANGED <<pc, mem, after, rc, failedOnce>>
  BY DEF Write, history
<1>2. TypeOK /\ Filling /\ Linking /\ Typed(block) /\ Sound(mem, block)
  BY <1>1 DEF IInv, Working, TypeOK, Typed
<1>3. PICK m : Shift(m)
  BY <1>1, <1>2, Shifted
<1>4. Head(todo) = todo[1] /\ 1 \in DOMAIN todo
  BY <1>3 DEF Shift
<1>5. CASE failedOnce \/ Giving
  BY <1>1, <1>5 DEF Tidy, Giving
<1>6. CASE ~(failedOnce \/ Giving)
  <2>1. NoStraysIn(mem, block, Awaited) /\ after.do # "fail"
    BY <1>1, <1>6 DEF Tidy, Giving, NoStrays
  <2> SUFFICES NoStraysIn(mem, block', Awaited')
    BY <1>1, <2>1 DEF Tidy, NoStrays
  <2>2. CASE todo[1].op = "fat"
    <3>1. block' = block /\ ~IsEntry(1)
      BY <1>1, <1>4, <2>2 DEF BlockAfter, IsEntry
    <3>2. Awaited' = Awaited
      BY <1>1, <1>2, <1>3, <2>1, <3>1, StillAwaited
    <3> QED
      BY <2>1, <3>1, <3>2
  <2>3. CASE todo[1].op = "block"
    <3>1. block' = [block EXCEPT ![todo[1].at] = todo[1].bytes] /\ IsBlock(1) /\ ~IsEntry(1)
      BY <1>1, <1>4, <2>3 DEF BlockAfter, IsBlock, IsEntry
    <3>2. SameView(block, block')
      BY <1>2, <3>1, BlockWriteView
    <3>3. Awaited' = Awaited
      BY <1>1, <1>2, <1>3, <2>1, <3>1, StillAwaited
    <3>4. Used(mem, block') = Used(mem, block)
      BY <1>2, <3>2, SoundViewed
    <3>5. AllReached(mem, block')
      <4>1. Kept(mem, block, mem, block')
        BY <3>2, ViewKept DEF SameView
      <4>2. \A p \in InUse(block) : Reached(mem, block', p)
        BY <1>2, <2>1, <4>1, StillReached DEF NoStraysIn
      <4> QED
        BY <3>2, <4>2 DEF SameView, AllReached
    <3> QED
      BY <2>1, <3>3, <3>4, <3>5 DEF NoStraysIn
  <2>4. CASE todo[1].op = "entry"
    <3>1. IsEntry(1)
      BY <1>4, <2>4 DEF IsEntry
    <3>2. 1 = Len(todo) /\ DOMAIN todo = {1} /\ todo' = <<>>
      <4>1. 1 = Len(todo)
        BY <1>2, <3>1 DEF Linking, IsEntry
      <4> QED
        BY <1>3, <4>1 DEF Shift
    <3>3. PICK w : w = todo[1] /\ block' = EntryPut(w)
      BY <1>1, <1>4, <2>4 DEF BlockAfter, EntryPut
    <3>4. Made(w.at, w.entry) /\ EntryReady(w)
      BY <1>2, <3>1, <3>2, <3>3, EntryMade
    <3>5. PICK at, e, own : at = w.at /\ e = w.entry /\ own = FollowChain(mem, e.start)
      OBVIOUS
    <3>6. OneMore(block, block', at) /\ Typed(block') /\ EntryAt(block', at) = e /\ at \notin InUse(block)
      BY <3>4, <3>5 DEF Made
    <3>7. /\ IsChain(mem, own) /\ Fits(e, own) /\ ToSet(own) \cap Used(mem, block) = {}
          /\ at.block \in ToSet(FollowChain(mem, dir))
      BY <3>4, <3>5 DEF EntryReady, Here0
    <3>8. Used(mem, block') = Used(mem, block) \cup ToSet(own)
      <4>1. own = FollowChain(mem, EntryAt(block', at).start) /\ Fits(EntryAt(block', at), own)
        BY <3>5, <3>6, <3>7
      <4>2. Typed(block) /\ Sound(mem, block)
        BY <1>2
      <4>3. Sound(mem, block') /\ Used(mem, block') = Used(mem, block) \cup ToSet(own)
        BY <3>6, <3>7, <4>1, <4>2, SoundAdded
      <4> QED
        BY <4>3
    <3>9. Awaited = ToSet(own) /\ Awaited' = {}
      BY <1>1, <3>2, <3>3, <3>5 DEF Awaited
    <3>10. AllReached(mem, block')
      <4>1. InUse(block') = InUse(block) \cup {at} /\ Kept(mem, block, mem, block')
        BY <3>6, ViewKept DEF OneMore
      <4>2. \A p \in InUse(block) : Reached(mem, block', p)
        BY <1>2, <2>1, <4>1, StillReached DEF NoStraysIn
      <4>3. Reached(mem, block', at)
        <5>1. comp \in 1..MaxDepth /\ comp \in Nat \ {0} /\ dir \in Blocks
          BY <1>1, <1>2, CompPositive, CompDeep DEF TypeOK
        <5>2. WayTo(mem, block, dir, comp)
          BY <1>1 DEF IInv, Working
        <5>3. WayTo(mem, block', dir, comp)
          BY <1>2, <4>1, <5>1, <5>2, WayKept
        <5> QED
          BY <3>7, <5>1, <5>3 DEF Reached
      <4> QED
        BY <4>1, <4>2, <4>3 DEF AllReached
    <3> QED
      BY <2>1, <3>8, <3>9, <3>10 DEF NoStraysIn
  <2>5. IsWrite(todo[1])
    BY <1>2, <1>4 DEF TypeOK
  <2> QED
    BY <2>2, <2>3, <2>4, <2>5 DEF IsWrite
<1> QED
  BY <1>5, <1>6

LEMMA ProceedNoStrays ==
    ASSUME IInv, Tidy, Proceed
    PROVE  Tidy'
<1>1. /\ TypeOK /\ Working /\ pc = "writing" /\ todo = <<>> /\ UNCHANGED <<fat, block>>
  BY DEF IInv, Proceed, image
<1>2. fat = mem
  BY <1>1, AllWritten
<1>3. CASE failedOnce
  BY <1>3 DEF Tidy, Proceed, Ended
<1>4. CASE ~failedOnce /\ after.do = "fail"
  BY <1>4 DEF Tidy, Proceed, Ended
<1>5. CASE ~failedOnce /\ after.do # "fail"
  <2>1. NoStraysIn(mem, block, {})
    BY <1>1, <1>5 DEF Tidy, Giving, NoStrays, Awaited
  <2>2. CASE after.do = "descend"
    <3>1. pc' = "deciding" /\ UNCHANGED <<mem, todo, rc>>
      BY <2>2 DEF Proceed
    <3>2. Awaited' = {}
      BY <1>1, <3>1 DEF Awaited
    <3>3. NoStrays'
      BY <1>1, <2>1, <3>1, <3>2 DEF NoStrays
    <3> QED
      BY <2>1, <3>1, <3>3 DEF Tidy
  <2>3. CASE after.do # "descend"
    <3>1. after.do = "succeed"
      BY <1>1, <1>5, <2>3 DEF TypeOK
    <3>2. pc' = "none" /\ rc' = "ok"
      BY <3>1 DEF Proceed, Ended, NoDiskput
    <3>3. NoStrays'
      BY <1>1, <1>2, <2>1, <3>2 DEF NoStrays
    <3> QED
      BY <3>2, <3>3 DEF Tidy
  <2> QED
    BY <2>2, <2>3
<1> QED
  BY <1>3, <1>4, <1>5

LEMMA StartNoStrays ==
    ASSUME Tidy, NEW p \in Paths, NEW content \in Contents, TypeOK, Start(p, content)
    PROVE  Tidy'
<1>1. /\ pc = "none" /\ pc' = "deciding" /\ mem' = fat /\ rc' = "none"
      /\ UNCHANGED <<block, todo, failedOnce>>
  BY DEF Start, image
<1>2. todo' = <<>>
  BY <1>1 DEF TypeOK
<1>3. CASE failedOnce
  BY <1>1, <1>3 DEF Tidy
<1>4. CASE NoStraysIn(fat, block, {})
  <2>1. NoStrays'
    BY <1>1, <1>2, <1>4 DEF NoStrays, Awaited
  <2> QED
    BY <1>1, <2>1 DEF Tidy
<1> QED
  BY <1>1, <1>3, <1>4 DEF Tidy, Giving, NoStrays

(* A step that touches nothing the invariant is about.                     *)
LEMMA StraysSame ==
    ASSUME Tidy, UNCHANGED <<fat, block, pc, mem, todo, rc, failedOnce>>,
           Giving => Giving'
    PROVE  Tidy'
<1>1. Awaited' = Awaited
  BY DEF Awaited
<1>2. NoStrays' = NoStrays
  BY <1>1 DEF NoStrays
<1> QED
  BY <1>2 DEF Tidy

LEMMA EndedFailed ==
    ASSUME NEW how, how # "ok", Ended(how)
    PROVE  Tidy'
BY DEF Ended, Tidy

LEMMA NoStraysStep ==
    ASSUME IInv, Tidy, [Next]_vars
    PROVE  lost' \/ Tidy'
<1>1. CASE UNCHANGED vars
  BY <1>1, StraysSame DEF vars, image, program, history, Giving
<1>2. CASE \E p \in Paths, content \in Contents : Start(p, content)
  BY <1>2, StartNoStrays DEF IInv
<1>3. CASE Descend
  <2>1. UNCHANGED <<fat, block, pc, mem, todo, rc, failedOnce>> /\ (Giving => Giving')
    BY <1>3 DEF Descend, Giving, image
  <2> QED
    BY <2>1, StraysSame
<1>4. CASE MakeDir
  BY <1>4, DecidesNoStrays
<1>5. CASE PutThere
  BY <1>5, DecidesNoStrays
<1>6. CASE Refused
  BY <1>6, EndedFailed DEF Refused
<1>7. CASE NoBuffer
  BY <1>7 DEF NoBuffer, Tidy, Giving
<1>8. CASE Write
  BY <1>8, WriteNoStrays
<1>9. CASE Proceed
  BY <1>9, ProceedNoStrays
<1>10. CASE WriteFails
  BY <1>10, EndedFailed DEF WriteFails
<1>11. CASE WriteLost
  BY <1>11 DEF WriteLost
<1>12. CASE Kill
  BY <1>12, EndedFailed DEF Kill
<1>13. CASE LeftAlone
  BY <1>13, StraysSame DEF LeftAlone, vars, image, program, history, Giving
<1> QED
  BY <1>1, <1>2, <1>3, <1>4, <1>5, <1>6, <1>7, <1>8, <1>9, <1>10, <1>11, <1>12, <1>13 DEF Next

LEMMA NoStraysFirst ==
    ASSUME Init
    PROVE  Tidy
<1>1. /\ fat = [b \in Blocks |-> IF b < Root THEN RESERVED ELSE IF b = Root THEN EOF ELSE FREE]
      /\ pc = "none" /\ rc = "none"
  BY DEF Init
<1>2. InUse(block) = {} /\ fat \in Fats
  BY NothingFirst
<1>3. Marked(fat) \subseteq {Root}
  BY <1>1 DEF Marked
<1>4. Root \in Used(fat, block)
  <2>1. Root \in ToSet(FollowChain(fat, Root))
    BY <1>2, Numbers, ChainStarts
  <2> QED
    BY <2>1 DEF Used, Owners, Owned, StartOf
<1>5. NoStraysIn(fat, block, {})
  BY <1>2, <1>3, <1>4 DEF NoStraysIn, AllReached
<1> QED
  BY <1>1, <1>5 DEF Tidy, NoStrays

(* Then the blocks marked as used are those of what is linked.             *)
LEMMA ReachedLinked ==
    ASSUME fat \in Fats, Typed(block), NEW p \in InUse(block), Reached(fat, block, p)
    PROVE  p \in Linked /\ ChainOf(p) = Owned(fat, block, p)
<1>1. p \in AllPlaces /\ EntryAt(block, p).inUse /\ p # RootPlace
  BY OwnersTyped DEF InUse, AllPlaces
<1>2. PICK n \in 1..MaxDepth, c \in Blocks :
          WayTo(fat, block, c, n) /\ p.block \in ToSet(FollowChain(fat, c))
  BY <1>1 DEF Reached
<1>3. c \in DirsAt[n - 1] /\ n - 1 \in 0..(MaxDepth - 1)
  BY <1>2, WayDown, DiskputAssumption
<1>4. EntryAt(block, p).inUse /\ EntryAt(block, p) = EntryAt(block, p)
  BY <1>1, EntryMeaning
<1>5. p \in EntriesOf(c)
  BY <1>1, <1>2, <1>4, EntriesMeaning
<1>6. p \in Linked
  BY <1>3, <1>5 DEF Linked
<1>7. ChainOf(p) = Owned(fat, block, p)
  BY <1>4, OwnersTyped DEF ChainOf, Owned
<1> QED
  BY <1>6, <1>7

LEMMA AllLinked ==
    ASSUME fat \in Fats, Typed(block), Sound(fat, block), NoStraysIn(fat, block, {})
    PROVE  Marked(fat) = Reachable
<1>1. Used(fat, block) \subseteq Marked(fat)
  BY UsedMarked DEF Marked
<1>2. Marked(fat) = Used(fat, block)
  BY <1>1 DEF NoStraysIn
<1>3. ASSUME NEW p \in Owners(block) PROVE ToSet(Owned(fat, block, p)) \subseteq Reachable
  <2>1. CASE p = RootPlace
    BY <2>1, RootOwned DEF Reachable
  <2>2. CASE p # RootPlace
    <3>1. p \in InUse(block)
      BY <2>2 DEF Owners
    <3>2. p \in Linked /\ ChainOf(p) = Owned(fat, block, p)
      BY <3>1, ReachedLinked DEF NoStraysIn, AllReached
    <3> QED
      BY <3>2 DEF Reachable
  <2> QED
    BY <2>1, <2>2
<1>4. ToSet(RootChain) \subseteq Used(fat, block)
  BY RootOwned DEF Used
<1>5. ASSUME NEW p \in Linked PROVE ToSet(ChainOf(p)) \subseteq Used(fat, block)
  <2>1. CASE p \in InUse(block) /\ ChainOf(p) = Owned(fat, block, p)
    BY <2>1 DEF Used, Owners
  <2>2. CASE ChainOf(p) = <<>>
    BY <2>2 DEF ToSet
  <2> QED
    BY <2>1, <2>2, LinkedMeaning
<1>6. Used(fat, block) \subseteq Reachable
  BY <1>3 DEF Used
<1>7. Reachable \subseteq Used(fat, block)
  BY <1>4, <1>5 DEF Reachable
<1> QED
  BY <1>2, <1>6, <1>7

LEMMA CountMarked ==
    ASSUME fat \in Fats
    PROVE  CountFat(fat).allocated = Cardinality(Marked(fat))
<1>1. PICK F, R : F = {b \in Blocks : fat[b] = FREE} /\ R = {b \in Blocks : fat[b] = RESERVED}
  OBVIOUS
<1>2. IsFiniteSet(Blocks) /\ Cardinality(Blocks) = NBlocks
  <2>1. PICK n \in Nat : n = NBlocks /\ n > 2 /\ Blocks = 0..(n - 1)
    BY Numbers
  <2>2. IsFiniteSet(0..(n - 1)) /\ Cardinality(0..(n - 1)) = n
    <3>1. 0 \in Int /\ n - 1 \in Int /\ ~(0 > n - 1) /\ n - 1 - 0 + 1 = n
      BY <2>1
    <3> QED
      BY <3>1, FS_Interval
  <2> QED
    BY <2>1, <2>2
<1>3. IsFiniteSet(F) /\ IsFiniteSet(R) /\ F \subseteq Blocks /\ R \subseteq Blocks
  BY <1>1, <1>2, FS_Subset
<1>4. F \cap R = {} /\ (Blocks \ F) \cap R = R /\ Marked(fat) = (Blocks \ F) \ R /\ Blocks \cap F = F
  BY <1>1, Numbers DEF Marked
<1>5. IsFiniteSet(Blocks \ F) /\ Cardinality(Blocks \ F) = NBlocks - Cardinality(F)
  BY <1>2, <1>4, FS_Difference
<1>6. Cardinality(Marked(fat)) = (NBlocks - Cardinality(F)) - Cardinality(R)
  BY <1>4, <1>5, FS_Difference
<1>7. CountFat(fat).allocated = NBlocks - Cardinality(F) - Cardinality(R)
  BY <1>1 DEF CountFat
<1> QED
  BY <1>6, <1>7

(* The first invariant, and with it that no block is lost as long as       *)
(* nothing was.                                                            *)
LostOrTidy == lost \/ TornByKill \/ (torn = <<>> /\ IInv /\ Tidy)

LEMMA TidyState ==
    ASSUME IInv, Tidy, pc # "writing", ~failedOnce
    PROVE  fat \in Fats /\ Typed(block) /\ Sound(fat, block) /\ NoStraysIn(fat, block, {})
<1>1. TypeOK /\ fat \in Fats /\ Typed(block)
  BY DEF IInv, TypeOK, Typed
<1>2. NoStrays
  BY DEF Tidy, Giving
<1>3. CASE pc = "none"
  BY <1>1, <1>2, <1>3 DEF IInv, NoStrays
<1>4. CASE pc = "deciding"
  <2>1. Working /\ mem = fat /\ todo = <<>> /\ pc # "none"
    BY <1>1, <1>4 DEF IInv, Working, TypeOK
  <2>2. Sound(fat, block)
    BY <2>1 DEF Working
  <2>3. NoStraysIn(fat, block, {})
    BY <1>2, <2>1 DEF NoStrays, Awaited
  <2> QED
    BY <1>1, <2>2, <2>3
<1> QED
  BY <1>1, <1>3, <1>4 DEF TypeOK

(* A diskput that succeeds has linked every block it took: as long as none *)
(* failed or was killed and no write was lost, the blocks that diskinfo    *)
(* counts as allocated are, whenever nothing is being written, those of    *)
(* the root and of what can be reached below it.                           *)
THEOREM NothingLeaks == Spec => []SuccessLeaksNothing
<1>1. Init => LostOrTidy
  BY InitSound, NoStraysFirst DEF LostOrTidy
<1>2. LostOrTidy /\ [Next]_vars => LostOrTidy'
  BY LostStays, TornStays, StepKeeps, NoStraysStep DEF LostOrTidy
<1>3. LostOrTidy => SuccessLeaksNothing
  <2> SUFFICES ASSUME IInv, Tidy, pc # "writing", ~failedOnce
               PROVE  CountFat(fat).allocated = Cardinality(Reachable)
    BY DEF LostOrTidy, TornByKill, SuccessLeaksNothing
  <2> QED
    BY TidyState, AllLinked, CountMarked
<1> QED
  BY <1>1, <1>2, <1>3, PTL DEF Spec

----------------------------------------------------------------------------
(* What a directory shows: the entries in use, in their order.  A search   *)
(* finds the first with the name.                                          *)

(* Position j of the directory d holds an entry in use, and which.         *)
Shows(f, blk, d, j) == j \in DOMAIN Places(f, d) /\ Places(f, d)[j] \in InUse(blk)
ShownAt(f, blk, d, j) == EntryAt(blk, Places(f, d)[j])

SameLook(f, blk, g, new, d) ==
    \A j \in Nat : /\ Shows(f, blk, d, j) <=> Shows(g, new, d, j)
                   /\ Shows(f, blk, d, j) => ShownAt(f, blk, d, j) = ShownAt(g, new, d, j)

Hits(f, blk, d, name) == {j \in Nat : Shows(f, blk, d, j) /\ ShownAt(f, blk, d, j).name = name}

LEMMA NamedFirst ==
    ASSUME NEW f \in Fats, NEW blk, NEW d \in Blocks, NEW name \in Names
    PROVE  /\ Hits(f, blk, d, name) = {} => Named(f, blk, d, name) = NoEntry
           /\ Hits(f, blk, d, name) # {} =>
                 /\ Min(Hits(f, blk, d, name)) \in Hits(f, blk, d, name)
                 /\ Named(f, blk, d, name) = ShownAt(f, blk, d, Min(Hits(f, blk, d, name)))
<1> DEFINE there(place) == EntryAt(blk, place).inUse /\ EntryAt(blk, place).name = name
           hits == {j \in DOMAIN Places(f, d) : Places(f, d)[j].block \notin {} /\ there(Places(f, d)[j])}
<1>1. Named(f, blk, d, name) = IF hits = {} THEN NoEntry ELSE EntryAt(blk, Places(f, d)[Min(hits)])
  BY DEF Named, NamedReading, FirstPlace
<1>2. Foreign.name = <<>> /\ name # <<>>
  BY NamesAssumption DEF Foreign, FileEntry
<1>3. ASSUME NEW j \in DOMAIN Places(f, d)
      PROVE  /\ j \in Nat
             /\ there(Places(f, d)[j]) <=> Places(f, d)[j] \in InUse(blk) /\ ShownAt(f, blk, d, j).name = name
             /\ Places(f, d)[j] \in InUse(blk) => EntryAt(blk, Places(f, d)[j]) = ShownAt(f, blk, d, j)
  <2>1. j \in Nat
    BY PlacesTyped
  <2>2. PICK p \in AllPlaces : p = Places(f, d)[j]
    BY PlacesTyped
  <2>3. p \in InUse(blk) => EntryAt(blk, p) = EntryAt(blk, p) /\ EntryAt(blk, p).inUse
    BY <2>2 DEF InUse, EntryAt
  <2>4. EntryAt(blk, p).inUse => p \in InUse(blk) \/ EntryAt(blk, p) = Foreign
    BY EntryMeaning
  <2> QED
    BY <1>2, <2>1, <2>2, <2>3, <2>4 DEF ShownAt
<1>4. hits = Hits(f, blk, d, name)
  BY <1>3 DEF Hits, Shows
<1> HIDE DEF hits
<1>5. Hits(f, blk, d, name) \in SUBSET Nat
  BY DEF Hits
<1>6. ASSUME hits # {} PROVE Min(hits) \in hits
  BY <1>4, <1>5, <1>6, SmallestHit
<1>7. ASSUME hits # {} PROVE EntryAt(blk, Places(f, d)[Min(hits)]) = ShownAt(f, blk, d, Min(hits))
  <2>1. PICK j : j = Min(hits) /\ j \in Hits(f, blk, d, name)
    BY <1>4, <1>6, <1>7
  <2>2. j \in DOMAIN Places(f, d) /\ Places(f, d)[j] \in InUse(blk)
    BY <2>1 DEF Hits, Shows
  <2> QED
    BY <1>3, <2>1, <2>2
<1> QED
  BY <1>1, <1>4, <1>6, <1>7

LEMMA LookHits ==
    ASSUME NEW f, NEW blk, NEW g, NEW new, NEW d, NEW name, SameLook(f, blk, g, new, d)
    PROVE  /\ Hits(f, blk, d, name) = Hits(g, new, d, name)
           /\ \A j \in Hits(f, blk, d, name) : ShownAt(f, blk, d, j) = ShownAt(g, new, d, j)
BY DEF SameLook, Hits

LEMMA LookNamed ==
    ASSUME NEW f \in Fats, NEW blk, NEW g \in Fats, NEW new, NEW d \in Blocks, NEW name \in Names,
           SameLook(f, blk, g, new, d)
    PROVE  Named(f, blk, d, name) = Named(g, new, d, name)
<1>1. PICK h : h = Hits(f, blk, d, name) /\ h = Hits(g, new, d, name)
  BY LookHits
<1>2. CASE h = {}
  BY <1>1, <1>2, NamedFirst
<1>3. CASE h # {}
  <2>1. Min(h) \in h /\ Named(f, blk, d, name) = ShownAt(f, blk, d, Min(h))
    BY <1>1, <1>3, NamedFirst
  <2>2. Named(g, new, d, name) = ShownAt(g, new, d, Min(h))
    BY <1>1, <1>3, NamedFirst
  <2>3. \A j \in h : ShownAt(f, blk, d, j) = ShownAt(g, new, d, j)
    BY <1>1 DEF SameLook, Hits
  <2>4. ShownAt(f, blk, d, Min(h)) = ShownAt(g, new, d, Min(h))
    BY <2>1, <2>3
  <2> QED
    BY <2>1, <2>2, <2>4
<1> QED
  BY <1>2, <1>3

(* What Named finds is an entry in use of the directory.                   *)
LEMMA NamedShown ==
    ASSUME NEW f \in Fats, NEW blk, Typed(blk), NEW d \in Blocks, NEW name \in Names,
           NEW e, e = Named(f, blk, d, name), e.inUse
    PROVE  \E p \in InUse(blk) : /\ p.block \in ToSet(FollowChain(f, d))
                                 /\ e = EntryAt(blk, p) /\ e.name = name /\ e \in EntrySet
<1>1. PICK h : h = Hits(f, blk, d, name)
  OBVIOUS
<1>2. h # {}
  BY <1>1, NamedFirst DEF NoEntry
<1>3. PICK j : j = Min(h) /\ j \in h /\ e = ShownAt(f, blk, d, j)
  BY <1>1, <1>2, NamedFirst
<1>4. j \in DOMAIN Places(f, d) /\ Places(f, d)[j] \in InUse(blk) /\ e.name = name
  BY <1>1, <1>3 DEF Hits, Shows
<1>5. Places(f, d)[j].block \in ToSet(FollowChain(f, d))
  BY <1>4, PlacesTyped
<1>6. e \in EntrySet
  BY <1>3, <1>4 DEF Typed, ShownAt
<1> QED
  BY <1>3, <1>4, <1>5, <1>6 DEF ShownAt

----------------------------------------------------------------------------
(* What diskget finds, from the root down.                                 *)

(* From one directory to the next by name.                                 *)
StepDown(f, blk, d, name) ==
    IF d = EOF THEN EOF
    ELSE LET e == Named(f, blk, d, name)
         IN  IF e.inUse /\ e.dir THEN e.start ELSE EOF

IsResolve(c, f, blk, names, n) ==
    c = [i \in 0..n |-> IF i = 0 THEN Root ELSE StepDown(f, blk, c[i - 1], names[i])]

Resolves(c, f, blk, names, n) ==
    c[0] = Root /\ \A i \in 1..n : c[i] = StepDown(f, blk, c[i - 1], names[i])

LEMMA ResolveExists ==
    ASSUME NEW f, NEW blk, NEW names, NEW N \in Nat
    PROVE  \E c : IsResolve(c, f, blk, names, N)
<1> DEFINE Bad == {n \in 0..N : ~ \E c : IsResolve(c, f, blk, names, n)}
           Row(c, i) == IF i = 0 THEN Root ELSE StepDown(f, blk, c[i - 1], names[i])
<1> SUFFICES ASSUME Bad # {} PROVE FALSE
  OBVIOUS
<1>1. PICK n \in Bad : \A m \in Bad : n <= m
  <2>1. Bad \in SUBSET Nat
    OBVIOUS
  <2> HIDE DEF Bad
  <2> QED
    BY <2>1, Least
<1>2. CASE n = 0
  <2> DEFINE c == [i \in 0..0 |-> Root]
  <2>1. \A i \in 0..0 : i = 0
    OBVIOUS
  <2>2. \A i \in 0..0 : Row(c, i) = Root
    BY <2>1
  <2>3. IsResolve(c, f, blk, names, 0)
    BY <2>2 DEF IsResolve
  <2> QED
    BY <1>2, <2>3
<1>3. CASE n # 0
  <2>1. n \in 1..N /\ n - 1 \in 0..N /\ ~(n <= n - 1)
    BY <1>3
  <2>2. PICK c : IsResolve(c, f, blk, names, n - 1)
    <3>1. n - 1 \notin Bad
      BY <1>1, <2>1
    <3> QED
      BY <2>1, <3>1
  <2> DEFINE top == Row(c, n)
             h == [i \in 0..n |-> IF i = n THEN top ELSE c[i]]
  <2>3. \A i \in 0..(n - 1) : c[i] = Row(c, i)
    BY <2>2 DEF IsResolve
  <2>4. ASSUME NEW i \in 0..n PROVE h[i] = Row(h, i)
    <3>1. i # 0 => h[i - 1] = c[i - 1]
      BY <2>1
    <3>2. Row(h, i) = Row(c, i)
      <4> HIDE DEF h
      <4> QED
        BY <3>1
    <3>3. CASE i = n
      <4>1. h[i] = top
        BY <3>3
      <4> QED
        BY <3>2, <3>3, <4>1
    <3>4. CASE i # n
      <4>1. i \in 0..(n - 1) /\ h[i] = c[i]
        BY <2>1, <3>4
      <4> HIDE DEF h
      <4> QED
        BY <2>3, <3>2, <4>1
    <3> QED
      BY <3>3, <3>4
  <2>5. h = [i \in 0..n |-> Row(h, i)]
    BY <2>4
  <2>6. IsResolve(h, f, blk, names, n)
    BY <2>5 DEF IsResolve
  <2> QED
    BY <2>6
<1> QED
  BY <1>2, <1>3

LEMMA Resolution ==
    ASSUME NEW f, NEW blk, NEW names, NEW n \in Nat, Len(names) = n
    PROVE  \E c : Resolves(c, f, blk, names, n) /\ ResolveDir(f, blk, names) = c[n]
<1> DEFINE c == CHOOSE c : c = [i \in 0..n |->
                    IF i = 0 THEN Root
                    ELSE IF c[i - 1] = EOF THEN EOF
                    ELSE LET e == Named(f, blk, c[i - 1], names[i])
                         IN  IF e.inUse /\ e.dir THEN e.start ELSE EOF]
<1>1. ResolveDir(f, blk, names) = c[n]
  BY DEF ResolveDir
<1>2. \E h : IsResolve(h, f, blk, names, n)
  BY ResolveExists
<1>3. IsResolve(c, f, blk, names, n)
  BY <1>2 DEF IsResolve, StepDown
<1> HIDE DEF c
<1>4. c[0] = Root
  BY <1>3 DEF IsResolve
<1>5. ASSUME NEW i \in 1..n PROVE c[i] = StepDown(f, blk, c[i - 1], names[i])
  <2>1. i \in 0..n /\ i # 0
    OBVIOUS
  <2> QED
    BY <1>3, <2>1 DEF IsResolve
<1> QED
  BY <1>1, <1>4, <1>5 DEF Resolves

(* diskget finds a path by its directory and its last name.                *)
Read(f, blk, d, name) ==
    LET e == IF d = EOF THEN NoEntry ELSE Named(f, blk, d, name)
    IN  IF e.inUse /\ ~e.dir THEN {Extract(f, blk, e)} ELSE {}

LEMMA PathShape ==
    ASSUME NEW q \in Paths
    PROVE  \E n \in Nat : /\ Len(q) = n + 1 /\ n + 1 \in 1..MaxDepth
                          /\ \A i \in 1..(n + 1) : q[i] \in Names
                          /\ q \in [1..(n + 1) -> Names]
<1>1. PICK l \in 1..MaxDepth : q \in [1..l -> Names]
  BY DEF Paths
<1>2. MaxDepth \in Nat
  BY DiskputAssumption
<1>3. PICK n \in Nat : l = n + 1
  <2>1. l - 1 \in Nat /\ l = (l - 1) + 1
    BY <1>2
  <2> QED
    BY <2>1
<1>4. Len(q) = n + 1
  BY <1>1, <1>3
<1> QED
  BY <1>1, <1>3, <1>4

LEMMA GetMeaning ==
    ASSUME NEW f, NEW blk, NEW q \in Paths, NEW n \in Nat, Len(q) = n + 1
    PROVE  \E c : Resolves(c, f, blk, q, n) /\ Get(f, blk, q) = Read(f, blk, c[n], q[n + 1])
<1>1. \A i \in 1..n : q[i] \in Names
  BY PathShape
<1>2. PICK t : t = Front(q)
  OBVIOUS
<1>3. Len(t) = n /\ \A i \in 1..n : t[i] = q[i]
  <2>1. t = SubSeq(q, 1, n)
    BY <1>2 DEF Front
  <2>2. /\ Len(SubSeq(q, 1, n)) = IF 1 <= n THEN n - 1 + 1 ELSE 0
        /\ \A i \in 1..(n - 1 + 1) : SubSeq(q, 1, n)[i] = q[1 + i - 1]
    BY <1>1, SubSeqProperties
  <2>3. n - 1 + 1 = n /\ (~(1 <= n) => n = 0) /\ \A i \in 1..n : 1 + i - 1 = i
    OBVIOUS
  <2> QED
    BY <2>1, <2>2, <2>3
<1>4. PICK c : Resolves(c, f, blk, t, n) /\ ResolveDir(f, blk, t) = c[n]
  BY <1>3, Resolution
<1>5. Resolves(c, f, blk, q, n)
  BY <1>3, <1>4 DEF Resolves
<1>6. Get(f, blk, q) = Read(f, blk, c[n], q[n + 1])
  BY <1>2, <1>4 DEF Get, Read, Last
<1> QED
  BY <1>5, <1>6

(* A way by name leads to directories.                                     *)
LEMMA StepStarts ==
    ASSUME NEW f \in Fats, NEW blk, Typed(blk), NEW d \in Blocks, NEW name \in Names,
           NEW e, e = StepDown(f, blk, d, name), e # EOF
    PROVE  /\ e \in Blocks /\ IsStart(blk, e)
           /\ \E p \in InUse(blk) : /\ p.block \in ToSet(FollowChain(f, d))
                                    /\ EntryAt(blk, p).dir
                                    /\ EntryAt(blk, p).start = e
                                    /\ EntryAt(blk, p).name = name
<1>1. d # EOF
  BY Numbers
<1>2. PICK x : x = Named(f, blk, d, name)
  OBVIOUS
<1>3. x.inUse /\ x.dir /\ e = x.start
  BY <1>1, <1>2 DEF StepDown
<1>4. PICK p \in InUse(blk) : /\ p.block \in ToSet(FollowChain(f, d))
                              /\ x = EntryAt(blk, p) /\ x.name = name /\ x \in EntrySet
  BY <1>2, <1>3, NamedShown
<1>5. e \in Blocks
  BY <1>3, <1>4 DEF EntrySet
<1>6. p \in Owners(blk) /\ IsDir(blk, p) /\ StartOf(blk, p) = e
  BY <1>3, <1>4, OwnersTyped DEF IsDir
<1> QED
  BY <1>3, <1>4, <1>5, <1>6 DEF IsStart

LEMMA ResolveStarts ==
    ASSUME NEW f \in Fats, NEW blk, Typed(blk), NEW n \in Nat, NEW q, \A i \in 1..n : q[i] \in Names,
           NEW c, Resolves(c, f, blk, q, n)
    PROVE  \A i \in 0..n : c[i] = EOF \/ (c[i] \in Blocks /\ IsStart(blk, c[i]))
<1> DEFINE Good(i) == c[i] = EOF \/ (c[i] \in Blocks /\ IsStart(blk, c[i]))
           Bad == {i \in 0..n : ~Good(i)}
<1> SUFFICES ASSUME Bad # {} PROVE FALSE
  OBVIOUS
<1>1. PICK i \in Bad : \A m \in Bad : i <= m
  <2>1. Bad \in SUBSET Nat
    OBVIOUS
  <2> HIDE DEF Bad
  <2> QED
    BY <2>1, Least
<1>2. Good(0)
  BY RootStarts, Numbers DEF Resolves
<1>3. i \in 1..n /\ i - 1 \in 0..n /\ ~(i <= i - 1)
  BY <1>2
<1>4. Good(i - 1)
  BY <1>1, <1>3
<1>5. c[i] = StepDown(f, blk, c[i - 1], q[i])
  BY <1>3 DEF Resolves
<1>6. CASE c[i - 1] = EOF
  BY <1>5, <1>6 DEF StepDown
<1>7. CASE c[i - 1] # EOF
  BY <1>3, <1>4, <1>5, <1>7, StepStarts
<1> QED
  BY <1>6, <1>7

(* Images that diskget cannot tell apart.                                  *)
SameImage(f, blk, g, new) ==
    /\ \A d \in Blocks : IsStart(blk, d) => SameLook(f, blk, g, new, d)
    /\ \A p \in InUse(blk) : ~EntryAt(blk, p).dir =>
           Extract(f, blk, EntryAt(blk, p)) = Extract(g, new, EntryAt(blk, p))

LEMMA SameGet ==
    ASSUME NEW f \in Fats, NEW blk, Typed(blk), NEW g \in Fats, NEW new, SameImage(f, blk, g, new),
           NEW q \in Paths
    PROVE  Get(f, blk, q) = Get(g, new, q)
<1>1. PICK n \in Nat : Len(q) = n + 1 /\ \A i \in 1..(n + 1) : q[i] \in Names
  BY PathShape
<1>2. PICK c : Resolves(c, f, blk, q, n) /\ Get(f, blk, q) = Read(f, blk, c[n], q[n + 1])
  BY <1>1, GetMeaning
<1>3. PICK h : Resolves(h, g, new, q, n) /\ Get(g, new, q) = Read(g, new, h[n], q[n + 1])
  BY <1>1, GetMeaning
<1>4. \A i \in 1..n : q[i] \in Names
  BY <1>1
<1>5. \A i \in 0..n : c[i] = EOF \/ (c[i] \in Blocks /\ IsStart(blk, c[i]))
  BY <1>2, <1>4, ResolveStarts
<1>6. ASSUME NEW d \in Blocks, IsStart(blk, d), NEW name \in Names
      PROVE  Named(f, blk, d, name) = Named(g, new, d, name)
  BY <1>6, LookNamed DEF SameImage
<1>7. \A i \in 0..n : c[i] = h[i]
  <2> DEFINE Bad == {i \in 0..n : c[i] # h[i]}
  <2> SUFFICES ASSUME Bad # {} PROVE FALSE
    OBVIOUS
  <2>1. PICK i \in Bad : \A m \in Bad : i <= m
    <3>1. Bad \in SUBSET Nat
      OBVIOUS
    <3> HIDE DEF Bad
    <3> QED
      BY <3>1, Least
  <2>2. i \in 1..n /\ i - 1 \in 0..n /\ ~(i <= i - 1)
    BY <1>2, <1>3 DEF Resolves
  <2>3. c[i - 1] = h[i - 1]
    BY <2>1, <2>2
  <2>4. c[i] = StepDown(f, blk, c[i - 1], q[i]) /\ h[i] = StepDown(g, new, c[i - 1], q[i])
    BY <1>2, <1>3, <2>2, <2>3 DEF Resolves
  <2>5. CASE c[i - 1] = EOF
    BY <2>4, <2>5 DEF StepDown
  <2>6. CASE c[i - 1] # EOF
    <3>1. Named(f, blk, c[i - 1], q[i]) = Named(g, new, c[i - 1], q[i])
      BY <1>4, <1>5, <1>6, <2>2, <2>6
    <3> QED
      BY <2>4, <3>1 DEF StepDown
  <2> QED
    BY <2>5, <2>6
<1>8. PICK d : d = c[n] /\ d = h[n]
  BY <1>7
<1>9. CASE d = EOF
  BY <1>2, <1>3, <1>8, <1>9 DEF Read, NoEntry
<1>10. CASE d # EOF
  <2>1. d \in Blocks /\ IsStart(blk, d) /\ q[n + 1] \in Names
    <3>1. n \in 0..n /\ n + 1 \in 1..(n + 1)
      OBVIOUS
    <3>2. q[n + 1] \in Names
      BY <1>1, <3>1
    <3> QED
      BY <1>5, <1>8, <1>10, <3>1, <3>2
  <2>2. PICK e : e = Named(f, blk, d, q[n + 1]) /\ e = Named(g, new, d, q[n + 1])
    BY <1>6, <2>1
  <2>3. ASSUME e.inUse, ~e.dir PROVE Extract(f, blk, e) = Extract(g, new, e)
    <3>0. PICK name \in Names : name = q[n + 1]
      BY <2>1
    <3>1. \E p \in InUse(blk) : /\ p.block \in ToSet(FollowChain(f, d))
                                /\ e = EntryAt(blk, p) /\ e.name = name /\ e \in EntrySet
      <4>1. f \in Fats /\ Typed(blk) /\ d \in Blocks /\ e = Named(f, blk, d, name) /\ e.inUse
        BY <2>1, <2>2, <2>3, <3>0
      <4> QED
        BY <4>1, NamedShown
    <3>2. PICK p \in InUse(blk) : e = EntryAt(blk, p)
      BY <3>1
    <3> QED
      BY <2>3, <3>2 DEF SameImage
  <2> QED
    BY <1>2, <1>3, <1>8, <1>10, <2>2, <2>3 DEF Read
<1> QED
  BY <1>9, <1>10

----------------------------------------------------------------------------
(* Directories that grow at their end.                                     *)

(* Which block of a directory position j is in, and where in it.           *)
Row(j) == ((j - 1) \div EntriesPerBlock) + 1
Col(j) == (j - 1) % EntriesPerBlock

LEMMA RowMeaning ==
    ASSUME NEW j \in Nat, j > 0
    PROVE  /\ Row(j) \in Nat /\ Row(j) > 0 /\ Col(j) \in Slots
           /\ j = EntriesPerBlock * (Row(j) - 1) + Col(j) + 1
<1>1. PICK n \in Nat \ {0} : n = EntriesPerBlock
  BY ImageAssumption
<1>2. PICK a \in Nat : a = j - 1
  OBVIOUS
<1>3. a \div n \in Nat /\ a % n \in 0..(n - 1) /\ a = n * (a \div n) + (a % n)
  BY Division
<1>4. Row(j) = a \div n + 1 /\ Col(j) = a % n
  BY <1>1, <1>2 DEF Row, Col
<1>5. PICK q \in Nat : q = a \div n
  BY <1>3
<1>6. PICK r \in 0..(n - 1) : r = a % n
  BY <1>3
<1>7. Row(j) - 1 = q /\ Row(j) = q + 1
  BY <1>4, <1>5
<1>8. j = n * q + r + 1
  BY <1>2, <1>3, <1>5, <1>6
<1>9. Row(j) \in Nat /\ Row(j) > 0
  BY <1>7
<1>10. Col(j) = r /\ Col(j) \in Slots
  BY <1>1, <1>4, <1>6 DEF Slots
<1>11. j = EntriesPerBlock * (Row(j) - 1) + Col(j) + 1
  <2>1. EntriesPerBlock * (Row(j) - 1) = n * q
    BY <1>1, <1>7
  <2> QED
    BY <1>8, <1>10, <2>1
<1> QED
  BY <1>9, <1>10, <1>11

LEMMA RowOrder ==
    ASSUME NEW i \in Nat, i > 0, NEW j \in Nat, i < j
    PROVE  /\ Row(i) <= Row(j)
           /\ Row(i) = Row(j) => Col(i) < Col(j)
<1>1. PICK n \in Nat \ {0} : n = EntriesPerBlock
  BY ImageAssumption
<1>2. PICK p \in Nat : Row(i) = p + 1
  <2>1. Row(i) - 1 \in Nat /\ Row(i) = (Row(i) - 1) + 1
    BY RowMeaning
  <2> QED
    BY <2>1
<1>3. PICK q \in Nat : Row(j) = q + 1
  <2>1. j > 0
    OBVIOUS
  <2>2. Row(j) \in Nat /\ Row(j) > 0
    BY <2>1, RowMeaning
  <2>3. Row(j) - 1 \in Nat /\ Row(j) = (Row(j) - 1) + 1
    BY <2>2
  <2> QED
    BY <2>3
<1>4. PICK r \in 0..(n - 1) : r = Col(i) /\ i = n * p + r + 1
  <2>1. Col(i) \in 0..(n - 1) /\ i = n * (Row(i) - 1) + Col(i) + 1
    BY <1>1, RowMeaning DEF Slots
  <2>2. Row(i) - 1 = p
    BY <1>2
  <2> QED
    BY <2>1, <2>2
<1>5. PICK t \in 0..(n - 1) : t = Col(j) /\ j = n * q + t + 1
  <2>1. j > 0
    OBVIOUS
  <2>2. Col(j) \in 0..(n - 1) /\ j = n * (Row(j) - 1) + Col(j) + 1
    BY <1>1, <2>1, RowMeaning DEF Slots
  <2>3. Row(j) - 1 = q
    BY <1>3
  <2> QED
    BY <2>2, <2>3
<1>6. ASSUME p > q PROVE FALSE
  <2>1. n * p >= n * (q + 1)
    BY <1>6
  <2>2. n * (q + 1) = n * q + n
    OBVIOUS
  <2> QED
    BY <1>4, <1>5, <2>1, <2>2
<1>7. p <= q
  BY <1>6
<1>8. ASSUME p = q PROVE r < t
  BY <1>4, <1>5, <1>8
<1> QED
  BY <1>2, <1>3, <1>4, <1>5, <1>7, <1>8

LEMMA RowWithin ==
    ASSUME NEW j \in Nat, j > 0, NEW l \in Nat
    PROVE  j \in 1..(l * EntriesPerBlock) <=> Row(j) <= l
<1>1. PICK n \in Nat \ {0} : n = EntriesPerBlock
  BY ImageAssumption
<1>2. ASSUME j \in 1..(l * n) PROVE Row(j) <= l
  <2>1. (j - 1) \div n + 1 \in 1..l
    BY <1>2, Quotient
  <2> QED
    BY <1>1, <2>1 DEF Row
<1>3. ASSUME Row(j) <= l PROVE j \in 1..(l * n)
  <2>1. PICK p \in Nat : Row(j) = p + 1
    <3>1. Row(j) - 1 \in Nat /\ Row(j) = (Row(j) - 1) + 1
      BY RowMeaning
    <3> QED
      BY <3>1
  <2>2. PICK r \in 0..(n - 1) : j = n * p + r + 1
    <3>1. Col(j) \in 0..(n - 1) /\ j = n * (Row(j) - 1) + Col(j) + 1
      BY <1>1, RowMeaning DEF Slots
    <3>2. Row(j) - 1 = p
      BY <2>1
    <3> QED
      BY <3>1, <3>2
  <2>3. n * (p + 1) <= n * l
    BY <1>3, <2>1
  <2>4. n * (p + 1) = n * p + n
    OBVIOUS
  <2>5. n * l = l * n /\ l * n \in Nat
    OBVIOUS
  <2> QED
    BY <2>2, <2>3, <2>4, <2>5
<1> QED
  BY <1>1, <1>2, <1>3

(* A position is in a directory if its row is, and holds that place.       *)
LEMMA PlaceDomain ==
    ASSUME NEW f \in Fats, NEW d \in Blocks, NEW s, s = FollowChain(f, d), NEW j
    PROVE  j \in DOMAIN Places(f, d) <=> j \in Nat /\ j > 0 /\ Row(j) <= Len(s)
<1>1. s \in Seq(Blocks)
  BY ChainTyped
<1>2. PICK l \in Nat : l = Len(s) /\ DOMAIN s = 1..l
  BY <1>1, LenProperties
<1>3. DOMAIN Places(f, d) = 1..(l * EntriesPerBlock)
  BY <1>2 DEF Places
<1>4. PICK m \in Nat : m = l * EntriesPerBlock
  BY ImageAssumption
<1>5. j \in 1..m <=> j \in Nat /\ j > 0 /\ j \in 1..m
  OBVIOUS
<1> QED
  BY <1>2, <1>3, <1>4, <1>5, RowWithin

LEMMA PlaceIs ==
    ASSUME NEW f \in Fats, NEW d \in Blocks, NEW j \in DOMAIN Places(f, d)
    PROVE  /\ Places(f, d)[j] = [block |-> FollowChain(f, d)[Row(j)], index |-> Col(j)]
           /\ j \in Nat /\ j > 0 /\ Row(j) \in 1..Len(FollowChain(f, d))
           /\ Row(j) \in DOMAIN FollowChain(f, d) /\ Places(f, d)[j] \in AllPlaces
<1>1. PICK s \in Seq(Blocks) : s = FollowChain(f, d)
  BY ChainTyped
<1>2. PICK l \in Nat : l = Len(s) /\ DOMAIN s = 1..l
  BY <1>1, LenProperties
<1>3. Places(f, d) = [i \in 1..(l * EntriesPerBlock) |-> [block |-> s[Row(i)], index |-> Col(i)]]
  BY <1>1, <1>2 DEF Places, Row, Col
<1>4. j \in Nat /\ j > 0 /\ Row(j) <= l
  BY <1>1, <1>2, PlaceDomain
<1>5. Row(j) \in Nat /\ Row(j) > 0
  BY <1>4, RowMeaning
<1>6. Row(j) \in 1..l
  BY <1>4, <1>5
<1>7. Places(f, d)[j] = [block |-> s[Row(j)], index |-> Col(j)]
  BY <1>3
<1>8. Places(f, d)[j] \in AllPlaces
  BY PlacesTyped
<1> QED
  BY <1>1, <1>2, <1>4, <1>6, <1>7, <1>8

(* Chains that are the same as far as blocks with entries go.              *)
Overlaps(s, t, blk, m) ==
    /\ m \in Nat /\ m <= Len(s) /\ m <= Len(t)
    /\ \A i \in 1..m : s[i] = t[i]
    /\ \A p \in InUse(blk) : /\ \A i \in DOMAIN s : s[i] = p.block => i <= m
                             /\ \A i \in DOMAIN t : t[i] = p.block => i <= m

Alike(f, g, blk) ==
    \A d \in Blocks : IsStart(blk, d) => \E m : Overlaps(FollowChain(f, d), FollowChain(g, d), blk, m)

LEMMA AlikeBack ==
    ASSUME NEW f, NEW g, NEW blk, Alike(f, g, blk)
    PROVE  Alike(g, f, blk)
BY DEF Alike, Overlaps

LEMMA OverlapPlaces ==
    ASSUME NEW f \in Fats, NEW g \in Fats, NEW blk, NEW d \in Blocks, NEW m,
           Overlaps(FollowChain(f, d), FollowChain(g, d), blk, m),
           NEW j, Shows(f, blk, d, j)
    PROVE  \A i \in Nat : i > 0 /\ i <= j =>
               /\ i \in DOMAIN Places(f, d) /\ i \in DOMAIN Places(g, d)
               /\ Places(f, d)[i] = Places(g, d)[i]
<1>1. PICK s : s = FollowChain(f, d)
  OBVIOUS
<1>2. PICK t : t = FollowChain(g, d)
  OBVIOUS
<1>3. s \in Seq(Blocks) /\ t \in Seq(Blocks)
  BY <1>1, <1>2, ChainTyped
<1>4. Len(s) \in Nat /\ Len(t) \in Nat
  BY <1>3, LenProperties
<1>5. m \in Nat /\ m <= Len(s) /\ m <= Len(t) /\ \A i \in 1..m : s[i] = t[i]
  BY <1>1, <1>2 DEF Overlaps
<1>6. j \in DOMAIN Places(f, d) /\ Places(f, d)[j] \in InUse(blk)
  BY DEF Shows
<1>7. j \in Nat /\ j > 0 /\ Row(j) \in DOMAIN s /\ Places(f, d)[j].block = s[Row(j)]
  BY <1>1, <1>6, PlaceIs
<1>8. Row(j) <= m
  BY <1>1, <1>6, <1>7 DEF Overlaps
<1> SUFFICES ASSUME NEW i \in Nat, i > 0, i <= j
             PROVE  /\ i \in DOMAIN Places(f, d) /\ i \in DOMAIN Places(g, d)
                    /\ Places(f, d)[i] = Places(g, d)[i]
  OBVIOUS
<1>9. Row(i) <= Row(j) /\ Row(i) \in Nat /\ Row(i) > 0 /\ Row(j) \in Nat
  BY <1>7, RowOrder, RowMeaning
<1>10. Row(i) \in 1..m /\ Row(i) <= Len(s) /\ Row(i) <= Len(t)
  BY <1>4, <1>5, <1>8, <1>9
<1>11. i \in DOMAIN Places(f, d) /\ i \in DOMAIN Places(g, d)
  BY <1>1, <1>2, <1>10, PlaceDomain
<1>12. Places(f, d)[i] = [block |-> s[Row(i)], index |-> Col(i)]
  BY <1>1, <1>11, PlaceIs
<1>13. Places(g, d)[i] = [block |-> t[Row(i)], index |-> Col(i)]
  BY <1>2, <1>11, PlaceIs
<1> QED
  BY <1>5, <1>10, <1>11, <1>12, <1>13

LEMMA ShowsPositive ==
    ASSUME NEW f \in Fats, NEW blk, NEW d \in Blocks, NEW j, Shows(f, blk, d, j)
    PROVE  j \in Nat /\ j > 0 /\ j <= j
<1>1. j \in Nat /\ j > 0
  BY PlaceIs DEF Shows
<1> QED
  BY <1>1

LEMMA AlikeLook ==
    ASSUME NEW f \in Fats, NEW g \in Fats, NEW blk, Alike(f, g, blk), NEW d \in Blocks, IsStart(blk, d)
    PROVE  SameLook(f, blk, g, blk, d)
<1>1. PICK m : Overlaps(FollowChain(f, d), FollowChain(g, d), blk, m)
  BY DEF Alike
<1>2. Overlaps(FollowChain(g, d), FollowChain(f, d), blk, m)
  BY <1>1 DEF Overlaps
<1>3. ASSUME NEW j \in Nat, Shows(f, blk, d, j)
      PROVE  Shows(g, blk, d, j) /\ ShownAt(f, blk, d, j) = ShownAt(g, blk, d, j)
  <2>1. j \in Nat /\ j > 0 /\ j <= j
    BY <1>3, ShowsPositive
  <2>2. j \in DOMAIN Places(g, d) /\ Places(f, d)[j] = Places(g, d)[j]
    BY <1>1, <1>3, <2>1, OverlapPlaces
  <2> QED
    BY <1>3, <2>2 DEF Shows, ShownAt
<1>4. ASSUME NEW j \in Nat, Shows(g, blk, d, j) PROVE Shows(f, blk, d, j)
  <2>1. j \in Nat /\ j > 0 /\ j <= j
    BY <1>4, ShowsPositive
  <2>2. j \in DOMAIN Places(f, d) /\ Places(g, d)[j] = Places(f, d)[j]
    BY <1>2, <1>4, <2>1, OverlapPlaces
  <2> QED
    BY <1>4, <2>2 DEF Shows
<1> QED
  BY <1>3, <1>4 DEF SameLook

(* In a directory no free entry comes before one in use.                   *)
Packed(f, blk) ==
    \A d \in Blocks : IsStart(blk, d) =>
        \A i, j \in DOMAIN Places(f, d) : i < j /\ Shows(f, blk, d, j) => EntryAt(blk, Places(f, d)[i]).inUse

LEMMA AlikePacked ==
    ASSUME NEW f \in Fats, NEW g \in Fats, NEW blk, Alike(f, g, blk), Packed(f, blk)
    PROVE  Packed(g, blk)
<1> SUFFICES ASSUME NEW d \in Blocks, IsStart(blk, d), NEW i \in DOMAIN Places(g, d), NEW j \in DOMAIN Places(g, d),
                    i < j, Shows(g, blk, d, j)
             PROVE  EntryAt(blk, Places(g, d)[i]).inUse
  BY DEF Packed
<1>1. PICK m : Overlaps(FollowChain(g, d), FollowChain(f, d), blk, m)
  BY DEF Alike, Overlaps
<1>3. i \in Nat /\ i > 0 /\ j \in Nat /\ j > 0 /\ i <= j /\ j <= j
  <2>1. i \in Nat /\ i > 0 /\ j \in Nat /\ j > 0
    BY PlaceIs
  <2> QED
    BY <2>1
<1>4. i \in DOMAIN Places(f, d) /\ Places(g, d)[i] = Places(f, d)[i]
  BY <1>1, <1>3, OverlapPlaces
<1>5. j \in DOMAIN Places(f, d) /\ Places(g, d)[j] = Places(f, d)[j]
  BY <1>1, <1>3, OverlapPlaces
<1>6. Shows(f, blk, d, j)
  BY <1>5 DEF Shows
<1>7. EntryAt(blk, Places(f, d)[i]).inUse
  BY <1>4, <1>5, <1>6 DEF Packed
<1> QED
  BY <1>4, <1>7

----------------------------------------------------------------------------
(* The FAT on disk and that in memory lead to the same, but for what only  *)
(* the end of a directory being extended can tell.                         *)

(* In what follow_chain returns each block leads to the next.              *)
LinksOn(f, t) == \A i \in 1..(Len(t) - 1) : t[i + 1] = f[t[i]]

LEMMA FollowLinks ==
    ASSUME NEW f \in Fats, NEW b \in Blocks
    PROVE  LinksOn(f, FollowChain(f, b))
<1>1. PICK g : Walks(g, f) /\ \A d : FollowChain(f, d) = g[NBlocks][d]
  BY FollowWalks
<1> DEFINE Good(c) == \A d \in Blocks \cup {EOF} : LinksOn(f, g[c][d])
           Bad == {c \in 0..NBlocks : ~Good(c)}
<1> SUFFICES Bad = {}
  <2>1. NBlocks \in 0..NBlocks /\ b \in Blocks \cup {EOF}
    BY Numbers
  <2> QED
    BY <1>1, <2>1
<1> SUFFICES ASSUME Bad # {} PROVE FALSE
  OBVIOUS
<1>2. PICK c \in Bad : \A m \in Bad : c <= m
  <2>1. Bad \in SUBSET Nat
    OBVIOUS
  <2> HIDE DEF Bad
  <2> QED
    BY <2>1, Least
<1>3. PICK d \in Blocks \cup {EOF} : ~LinksOn(f, g[c][d])
  BY <1>2
<1>4. LinksOn(f, <<>>)
  BY DEF LinksOn
<1>5. c # 0 /\ d # EOF
  BY <1>1, <1>3, <1>4 DEF Walks
<1>6. c \in 1..NBlocks /\ c - 1 \in 0..NBlocks /\ ~(c <= c - 1) /\ d \in Blocks
  BY <1>5, Numbers
<1>7. f[d] \in Blocks \cup {EOF}
  BY <1>6 DEF Fats
<1>8. PICK u \in Seq(Blocks) : u = g[c - 1][f[d]]
  BY <1>1, <1>6, <1>7, FollowTyped
<1>9. LinksOn(f, u)
  BY <1>2, <1>6, <1>7, <1>8
<1>10. PICK m \in Nat : Len(u) = m
  BY LenProperties
<1>11. PICK t : t = g[c][d] /\ t = <<d>> \o u
  BY <1>1, <1>6, <1>8 DEF Walks
<1>12. Len(t) = m + 1 /\ t[1] = d /\ \A i \in 1..m : t[i + 1] = u[i]
  BY <1>6, <1>10, <1>11, ConsSeq
<1>13. m # 0 => u[1] = f[d]
  <2> SUFFICES ASSUME m # 0 PROVE u[1] = f[d]
    OBVIOUS
  <2>1. f[d] # EOF
    <3> SUFFICES ASSUME f[d] = EOF PROVE FALSE
      OBVIOUS
    <3>1. u = <<>>
      BY <1>1, <1>6, <1>8 DEF Walks
    <3> QED
      BY <1>10, <3>1
  <2>2. PICK x \in Blocks : x = f[d]
    BY <1>7, <2>1
  <2>3. c - 1 # 0
    <3> SUFFICES ASSUME c - 1 = 0 PROVE FALSE
      OBVIOUS
    <3>1. u = <<>>
      BY <1>1, <1>7, <1>8 DEF Walks
    <3> QED
      BY <1>10, <3>1
  <2>4. PICK k \in 1..NBlocks : k = c - 1 /\ k - 1 \in 0..NBlocks
    BY <1>6, <2>3, Numbers
  <2>5. f[x] \in Blocks \cup {EOF}
    BY DEF Fats
  <2>6. PICK v \in Seq(Blocks) : v = g[k - 1][f[x]]
    BY <1>1, <2>4, <2>5, FollowTyped
  <2>7. PICK l \in Nat : Len(v) = l
    BY LenProperties
  <2>8. u = <<x>> \o v
    BY <1>1, <1>8, <2>2, <2>4, <2>6 DEF Walks
  <2> QED
    BY <2>2, <2>7, <2>8, ConsSeq
<1>14. ASSUME NEW i \in 1..(Len(t) - 1) PROVE t[i + 1] = f[t[i]]
  <2>1. i \in 1..m
    BY <1>10, <1>12
  <2>2. CASE i = 1
    BY <1>12, <1>13, <2>1, <2>2
  <2>3. CASE i # 1
    <3>1. PICK k \in 1..m : k = i - 1 /\ i = k + 1 /\ k \in 1..(m - 1)
      BY <2>1, <2>3
    <3>2. t[i] = u[k] /\ t[i + 1] = u[i]
      BY <1>12, <2>1, <3>1
    <3>3. u[k + 1] = f[u[k]]
      BY <1>9, <1>10, <3>1 DEF LinksOn
    <3> QED
      BY <3>1, <3>2, <3>3
  <2> QED
    BY <2>2, <2>3
<1> QED
  BY <1>3, <1>11, <1>14 DEF LinksOn

LEMMA OverlapSame ==
    ASSUME NEW f \in Fats, NEW g \in Fats, NEW blk, NEW d \in Blocks, FollowChain(f, d) = FollowChain(g, d)
    PROVE  \E m : Overlaps(FollowChain(f, d), FollowChain(g, d), blk, m)
<1>1. PICK s \in Seq(Blocks) : s = FollowChain(f, d)
  BY ChainTyped
<1>2. PICK m \in Nat : m = Len(s) /\ DOMAIN s = 1..m
  BY LenProperties
<1>3. Overlaps(s, s, blk, m)
  BY <1>2 DEF Overlaps
<1> QED
  BY <1>1, <1>3

(* One block more, without an entry.                                       *)
LEMMA OverlapLonger ==
    ASSUME NEW f \in Fats, NEW g \in Fats, NEW blk, NEW d \in Blocks, NEW s, s = FollowChain(f, d),
           NEW t, t = FollowChain(g, d), NEW n, n = Len(s), Len(t) = n + 1, \A i \in 1..n : t[i] = s[i],
           \A p \in InUse(blk) : p.block # t[n + 1]
    PROVE  Overlaps(s, t, blk, n)
<1>1. s \in Seq(Blocks) /\ t \in Seq(Blocks)
  BY ChainTyped
<1>2. n \in Nat /\ DOMAIN s = 1..n /\ DOMAIN t = 1..(n + 1)
  BY <1>1, LenProperties
<1>3. n <= Len(s) /\ n <= Len(t) /\ \A i \in 1..n : s[i] = t[i]
  BY <1>2
<1>4. ASSUME NEW p \in InUse(blk) PROVE /\ \A i \in DOMAIN s : s[i] = p.block => i <= n
                                        /\ \A i \in DOMAIN t : t[i] = p.block => i <= n
  <2>1. \A i \in DOMAIN s : i <= n
    BY <1>2
  <2>2. \A i \in DOMAIN t : i <= n \/ i = n + 1
    BY <1>2
  <2> QED
    BY <2>1, <2>2
<1> QED
  BY <1>2, <1>3, <1>4 DEF Overlaps

(* A chain that runs on into a free block, and from there to the first two. *)
LEMMA OverlapRuns ==
    ASSUME NEW f \in Fats, NEW g \in Fats, NEW blk, NEW d \in Blocks, NEW s, s = FollowChain(f, d),
           IsChain(f, s), NEW n, n = Len(s), g[s[n]] = FREE, \A i \in 1..(n - 1) : g[s[i]] = f[s[i]],
           g[FREE] = RESERVED, g[RESERVED] = RESERVED,
           \A p \in InUse(blk) : p.block \notin {FREE, RESERVED}
    PROVE  Overlaps(s, FollowChain(g, d), blk, n)
<1>1. n \in 1..NBlocks /\ s \in Seq(Blocks) /\ s[1] = d /\ DOMAIN s = 1..n
  BY ChainFollowed, ChainStarts
<1>2. IsPath(g, s, n)
  BY <1>1 DEF IsChain, IsPath
<1>3. PICK t : t = FollowChain(g, d)
  OBVIOUS
<1>4. t \in Seq(Blocks) /\ Len(t) >= n /\ \A i \in 1..n : t[i] = s[i]
  BY <1>1, <1>2, <1>3, FollowsPath
<1>5. PICK l \in Nat : l = Len(t) /\ DOMAIN t = 1..l
  BY <1>4, LenProperties
<1>6. \A i \in 1..(l - 1) : t[i + 1] = g[t[i]]
  BY <1>3, <1>5, FollowLinks DEF LinksOn
<1>7. \A i \in (n + 1)..l : t[i] \in {FREE, RESERVED}
  <2> DEFINE Bad == {i \in (n + 1)..l : t[i] \notin {FREE, RESERVED}}
  <2> SUFFICES ASSUME Bad # {} PROVE FALSE
    OBVIOUS
  <2>1. PICK i \in Bad : \A m \in Bad : i <= m
    <3>1. Bad \in SUBSET Nat
      BY <1>1, Numbers
    <3> HIDE DEF Bad
    <3> QED
      BY <3>1, Least
  <2>2. PICK k \in 1..(l - 1) : k = i - 1 /\ i = k + 1 /\ k >= n /\ ~(i <= k)
    BY <1>1, Numbers
  <2>3. t[i] = g[t[k]]
    BY <1>6, <2>2
  <2>4. CASE k = n
    <3>1. t[k] = s[n]
      BY <1>1, <1>4, <2>4, Numbers
    <3> QED
      BY <2>1, <2>3, <3>1
  <2>5. CASE k # n
    <3>1. k \in (n + 1)..l /\ k \notin Bad
      BY <1>1, <2>1, <2>2, <2>5, Numbers
    <3>2. t[k] \in {FREE, RESERVED}
      BY <3>1
    <3> QED
      BY <2>1, <2>3, <3>2
  <2> QED
    BY <2>4, <2>5
<1>8. n \in Nat /\ n <= Len(s) /\ n <= Len(t) /\ \A i \in 1..n : s[i] = t[i]
  BY <1>1, <1>4, Numbers
<1>9. ASSUME NEW p \in InUse(blk) PROVE /\ \A i \in DOMAIN s : s[i] = p.block => i <= n
                                        /\ \A i \in DOMAIN t : t[i] = p.block => i <= n
  <2>1. \A i \in DOMAIN s : i <= n
    BY <1>1, Numbers
  <2>2. \A i \in DOMAIN t : i <= n \/ i \in (n + 1)..l
    BY <1>1, <1>5, Numbers
  <2> QED
    BY <1>7, <2>1, <2>2
<1> QED
  BY <1>3, <1>8, <1>9 DEF Overlaps

(* No entry is in the superblock or the FAT.                               *)
NoneLow(blk) == \A p \in InUse(blk) : p.block \notin {FREE, RESERVED}

(* Chains that a change of the FAT leaves alone.                           *)
LEMMA OwnedSame ==
    ASSUME NEW f \in Fats, NEW g \in Fats, NEW blk, Typed(blk), Sound(f, blk), NEW o \in Owners(blk),
           \A x \in ToSet(Owned(f, blk, o)) : g[x] = f[x]
    PROVE  Owned(g, blk, o) = Owned(f, blk, o)
<1>1. PICK b \in Blocks : b = StartOf(blk, o)
  BY OwnersTyped
<1>2. IsChain(f, FollowChain(f, b)) /\ \A x \in ToSet(FollowChain(f, b)) : g[x] = f[x]
  BY <1>1 DEF Sound, Owned
<1> QED
  BY <1>1, <1>2, SameChain DEF Owned

(* Images whose directories are alike, and whose files have their chains.  *)
AlikeFiles(f, g, blk) ==
    \A p \in InUse(blk) : ~EntryAt(blk, p).dir => Owned(g, blk, p) = Owned(f, blk, p)

(* A change of the FAT that only one directory sees.                       *)
LEMMA AlikeButOne ==
    ASSUME NEW f \in Fats, NEW g \in Fats, NEW blk, Typed(blk), Sound(f, blk),
           NEW o \in Owners(blk), IsDir(blk, o),
           \A x \in Used(f, blk) \ ToSet(Owned(f, blk, o)) : g[x] = f[x],
           \E m : Overlaps(Owned(f, blk, o), Owned(g, blk, o), blk, m)
    PROVE  Alike(f, g, blk) /\ AlikeFiles(f, g, blk)
<1>1. \A p \in Owners(blk) : p # o => Owned(g, blk, p) = Owned(f, blk, p)
  BY OthersSame
<1>2. ASSUME NEW d \in Blocks, IsStart(blk, d)
      PROVE  \E m : Overlaps(FollowChain(f, d), FollowChain(g, d), blk, m)
  <2>1. PICK p \in Owners(blk) : IsDir(blk, p) /\ StartOf(blk, p) = d
    BY <1>2 DEF IsStart
  <2>2. FollowChain(f, d) = Owned(f, blk, p) /\ FollowChain(g, d) = Owned(g, blk, p)
    BY <2>1 DEF Owned
  <2>3. CASE p = o
    BY <2>2, <2>3
  <2>4. CASE p # o
    BY <1>1, <2>1, <2>2, <2>4, OverlapSame
  <2> QED
    BY <2>3, <2>4
<1>3. ASSUME NEW p \in InUse(blk), ~EntryAt(blk, p).dir
      PROVE  Owned(g, blk, p) = Owned(f, blk, p)
  <2>1. p \in Owners(blk) /\ p # RootPlace
    BY OwnersTyped
  <2>2. p # o
    BY <1>3, <2>1 DEF IsDir
  <2> QED
    BY <1>1, <2>1, <2>2
<1> QED
  BY <1>2, <1>3 DEF Alike, AlikeFiles

LEMMA ExtractSame ==
    ASSUME NEW f, NEW blk, NEW g, NEW new, NEW e,
           FollowChain(g, e.start) = FollowChain(f, e.start),
           \A i \in DOMAIN FollowChain(f, e.start) :
               new[FollowChain(f, e.start)[i]] = blk[FollowChain(f, e.start)[i]]
    PROVE  Extract(f, blk, e) = Extract(g, new, e)
<1>1. PICK s : s = FollowChain(f, e.start) /\ s = FollowChain(g, e.start)
  OBVIOUS
<1>2. [i \in DOMAIN s |-> BytesOf(blk[s[i]])] = [i \in DOMAIN s |-> BytesOf(new[s[i]])]
  BY <1>1
<1> QED
  BY <1>1, <1>2 DEF Extract

LEMMA AlikeImage ==
    ASSUME NEW f \in Fats, NEW g \in Fats, NEW blk, Typed(blk), Alike(f, g, blk), AlikeFiles(f, g, blk)
    PROVE  SameImage(f, blk, g, blk)
<1>1. \A d \in Blocks : IsStart(blk, d) => SameLook(f, blk, g, blk, d)
  BY AlikeLook
<1>2. ASSUME NEW p \in InUse(blk), ~EntryAt(blk, p).dir
      PROVE  Extract(f, blk, EntryAt(blk, p)) = Extract(g, blk, EntryAt(blk, p))
  <2>1. PICK e : e = EntryAt(blk, p)
    OBVIOUS
  <2>2. Owned(g, blk, p) = Owned(f, blk, p) /\ StartOf(blk, p) = e.start
    BY <1>2, <2>1, OwnersTyped DEF AlikeFiles
  <2>3. FollowChain(g, e.start) = FollowChain(f, e.start)
    BY <2>2 DEF Owned
  <2> QED
    BY <2>1, <2>3, ExtractSame
<1> QED
  BY <1>1, <1>2 DEF SameImage

(* Blocks of files that are not written hold what they held.               *)
LEMMA ViewImage ==
    ASSUME NEW f \in Fats, NEW blk, NEW new, Typed(blk), SameView(blk, new),
           \A p \in InUse(blk) : ~EntryAt(blk, p).dir =>
               \A x \in ToSet(Owned(f, blk, p)) : new[x] = blk[x]
    PROVE  SameImage(f, blk, f, new)
<1>1. ASSUME NEW d \in Blocks PROVE SameLook(f, blk, f, new, d)
  BY DEF SameLook, Shows, ShownAt, SameView
<1>2. ASSUME NEW p \in InUse(blk), ~EntryAt(blk, p).dir
      PROVE  Extract(f, blk, EntryAt(blk, p)) = Extract(f, new, EntryAt(blk, p))
  <2>1. PICK e : e = EntryAt(blk, p)
    OBVIOUS
  <2>2. StartOf(blk, p) = e.start
    BY <2>1, OwnersTyped
  <2>3. \A x \in ToSet(FollowChain(f, e.start)) : new[x] = blk[x]
    BY <1>2, <2>2 DEF Owned
  <2>4. \A i \in DOMAIN FollowChain(f, e.start) :
            new[FollowChain(f, e.start)[i]] = blk[FollowChain(f, e.start)[i]]
    BY <2>3 DEF ToSet
  <2> QED
    BY <2>1, <2>4, ExtractSame
<1> QED
  BY <1>1, <1>2 DEF SameImage

(* What is on disk looks as what is in memory.                             *)
LEMMA DiskAlike ==
    ASSUME TypeOK, Base, Working, pc = "writing", NoneLow(block)
    PROVE  Alike(mem, fat, block) /\ AlikeFiles(mem, fat, block)
<1>1. fat \in Fats /\ mem \in Fats /\ Typed(block) /\ Sound(mem, block)
  BY DEF TypeOK, Working, Typed
<1>2. PICK o \in Owners(block) : /\ IsDir(block, o) /\ StartOf(block, o) = dir
                               /\ Owned(mem, block, o) = Here0 /\ Behind(Here0, Len(Here0))
  BY DiskBehind
<1>3. PICK s : s = Here0 /\ s = Owned(mem, block, o) /\ IsChain(mem, s)
  BY <1>1, <1>2 DEF Sound
<1>4. PICK n \in 1..NBlocks : n = Len(s)
  BY <1>3, ChainLength
<1>5. Behind(s, n) /\ n \in Nat
  BY <1>2, <1>3, <1>4, Numbers
<1>6. PICK d \in Blocks : d = dir /\ s = FollowChain(mem, d) /\ Owned(fat, block, o) = FollowChain(fat, d)
  BY <1>1, <1>2, <1>3, OwnersTyped DEF Owned
<1>7. PICK t : t = FollowChain(fat, d)
  OBVIOUS
<1>8. \A x \in Used(mem, block) \ ToSet(s) : fat[x] = mem[x]
  BY <1>5 DEF Behind
<1>9. \E m : Overlaps(s, t, block, m)
  <2>1. CASE \A x \in Used(mem, block) : fat[x] = mem[x]
    <3>1. ToSet(s) \subseteq Used(mem, block)
      BY <1>3 DEF Used
    <3>2. \A x \in ToSet(FollowChain(mem, d)) : fat[x] = mem[x]
      BY <1>6, <2>1, <3>1
    <3>3. FollowChain(fat, d) = FollowChain(mem, d)
      BY <1>1, <1>3, <1>6, <3>2, SameChain
    <3> QED
      BY <1>1, <1>6, <1>7, <3>3, OverlapSame
  <2>2. CASE /\ n > 1 /\ fat[s[n - 1]] = EOF /\ fat[s[n]] = FREE
             /\ \A k \in 1..(n - 2) : fat[s[k]] = mem[s[k]]
    <3>1. IsChain(fat, FollowChain(fat, d)) /\ Len(FollowChain(fat, d)) = n - 1
          /\ \A i \in 1..(n - 1) : FollowChain(fat, d)[i] = s[i]
      BY <1>1, <1>3, <1>4, <1>6, <2>2, ShorterChain
    <3>2. \A p \in InUse(block) : p.block # s[n]
      BY <2>2 DEF Base
    <3>3. PICK k \in Nat : k = n - 1 /\ n = k + 1
      BY <2>2, <1>5
    <3>4. Len(t) = k /\ Len(s) = k + 1 /\ (\A i \in 1..k : s[i] = t[i]) /\ \A p \in InUse(block) : p.block # s[k + 1]
      BY <1>4, <1>7, <3>1, <3>2, <3>3
    <3>5. Overlaps(t, s, block, k)
      BY <1>1, <1>6, <1>7, <3>4, OverlapLonger
    <3>6. Overlaps(s, t, block, k)
      BY <3>5 DEF Overlaps
    <3> QED
      BY <3>6
  <2>3. CASE /\ n > 1 /\ fat[s[n]] = FREE
             /\ \A k \in 1..(n - 1) : fat[s[k]] = mem[s[k]]
    <3>1. fat[FREE] = RESERVED /\ fat[RESERVED] = RESERVED
      BY DEF Base
    <3>2. Overlaps(s, FollowChain(fat, d), block, n)
      BY <1>1, <1>3, <1>4, <1>6, <2>3, <3>1, OverlapRuns DEF NoneLow
    <3> QED
      BY <1>7, <3>2
  <2> QED
    BY <1>5, <2>1, <2>2, <2>3 DEF Behind
<1>10. \E m : Overlaps(Owned(mem, block, o), Owned(fat, block, o), block, m)
  BY <1>3, <1>6, <1>7, <1>9
<1> QED
  BY <1>1, <1>2, <1>3, <1>8, <1>10, AlikeButOne

LEMMA DiskShows ==
    ASSUME TypeOK, Base, Working, pc = "writing", NoneLow(block)
    PROVE  \A q \in Paths : Get(fat, block, q) = Get(mem, block, q)
<1>1. fat \in Fats /\ mem \in Fats /\ Typed(block)
  BY DEF TypeOK, Typed
<1>2. SameImage(mem, block, fat, block)
  BY <1>1, DiskAlike, AlikeImage
<1> QED
  BY <1>1, <1>2, SameGet

----------------------------------------------------------------------------
(* Each directory has one name, and is in one directory.                   *)

(* A directory by its name in another, and a way down by names.            *)
SubNamed(f, blk, d, e, name) ==
    \E p \in InUse(blk) : /\ p.block \in ToSet(FollowChain(f, d))
                          /\ EntryAt(blk, p).dir
                          /\ EntryAt(blk, p).start = e
                          /\ EntryAt(blk, p).name = name

WayNamed(f, blk, d, c, k) ==
    \E r \in [0..k -> Blocks] : /\ r[0] = Root /\ r[k] = d
                                /\ \A i \in 1..k : SubNamed(f, blk, r[i - 1], r[i], c[i])

LEMMA SubNamedStarts ==
    ASSUME NEW f, NEW blk, Typed(blk), NEW d, NEW e, NEW name, SubNamed(f, blk, d, e, name)
    PROVE  IsStart(blk, e) /\ e \in Blocks
<1>1. PICK p \in InUse(blk) : EntryAt(blk, p).dir /\ EntryAt(blk, p).start = e
  BY DEF SubNamed
<1>2. p \in Owners(blk) /\ StartOf(blk, p) = e /\ IsDir(blk, p) /\ StartOf(blk, p) \in Blocks
  BY <1>1, OwnersTyped DEF IsDir
<1> QED
  BY <1>2 DEF IsStart

LEMMA OneOwner ==
    ASSUME NEW f \in Fats, NEW blk, Typed(blk), Sound(f, blk), NEW o \in Owners(blk), NEW p \in Owners(blk),
           NEW x, x \in ToSet(Owned(f, blk, o)), x \in ToSet(Owned(f, blk, p))
    PROVE  o = p
BY DEF Sound

LEMMA StartOwned ==
    ASSUME NEW f \in Fats, NEW blk, Typed(blk), NEW o \in Owners(blk)
    PROVE  StartOf(blk, o) \in ToSet(Owned(f, blk, o))
<1>1. StartOf(blk, o) \in Blocks
  BY OwnersTyped
<1> QED
  BY <1>1, ChainStarts DEF Owned

(* A directory is linked once.                                             *)
LEMMA NamedOnce ==
    ASSUME NEW f \in Fats, NEW blk, Typed(blk), Sound(f, blk),
           NEW d, NEW a, IsStart(blk, d), IsStart(blk, a), NEW e, NEW name, NEW other,
           SubNamed(f, blk, d, e, name), SubNamed(f, blk, a, e, other)
    PROVE  d = a /\ name = other
<1>1. PICK p \in InUse(blk) : /\ p.block \in ToSet(FollowChain(f, d))
                              /\ EntryAt(blk, p).start = e /\ EntryAt(blk, p).name = name
  BY DEF SubNamed
<1>2. PICK q \in InUse(blk) : /\ q.block \in ToSet(FollowChain(f, a))
                              /\ EntryAt(blk, q).start = e /\ EntryAt(blk, q).name = other
  BY DEF SubNamed
<1>3. p \in Owners(blk) /\ q \in Owners(blk) /\ StartOf(blk, p) = e /\ StartOf(blk, q) = e
  BY <1>1, <1>2, OwnersTyped
<1>4. e \in ToSet(Owned(f, blk, p)) /\ e \in ToSet(Owned(f, blk, q))
  BY <1>3, StartOwned
<1>5. p = q
  BY <1>3, <1>4, OneOwner
<1>6. PICK o \in Owners(blk) : StartOf(blk, o) = d
  BY DEF IsStart
<1>7. PICK u \in Owners(blk) : StartOf(blk, u) = a
  BY DEF IsStart
<1>8. p.block \in ToSet(Owned(f, blk, o)) /\ p.block \in ToSet(Owned(f, blk, u))
  BY <1>1, <1>2, <1>5, <1>6, <1>7 DEF Owned
<1>9. o = u
  BY <1>8, OneOwner
<1> QED
  BY <1>1, <1>2, <1>5, <1>6, <1>7, <1>9

LEMMA RootUnnamed ==
    ASSUME NEW f \in Fats, NEW blk, Typed(blk), Sound(f, blk), NEW d, NEW name
    PROVE  ~SubNamed(f, blk, d, Root, name)
<1> SUFFICES ASSUME SubNamed(f, blk, d, Root, name) PROVE FALSE
  OBVIOUS
<1>1. PICK p \in InUse(blk) : EntryAt(blk, p).start = Root
  BY DEF SubNamed
<1>2. p \in Owners(blk) /\ RootPlace \in Owners(blk) /\ p # RootPlace
  BY OwnersTyped
<1>3. StartOf(blk, p) = Root /\ StartOf(blk, RootPlace) = Root
  BY <1>1, OwnersTyped DEF StartOf
<1>4. Root \in ToSet(Owned(f, blk, p)) /\ Root \in ToSet(Owned(f, blk, RootPlace))
  BY <1>2, <1>3, StartOwned
<1> QED
  BY <1>2, <1>4, OneOwner

LEMMA WayNamedFirst ==
    ASSUME NEW f, NEW blk, NEW c
    PROVE  /\ WayNamed(f, blk, Root, c, 0)
           /\ \A d : WayNamed(f, blk, d, c, 0) => d = Root
<1>1. PICK r : r = [i \in 0..0 |-> Root]
  OBVIOUS
<1>2. r \in [0..0 -> Blocks] /\ r[0] = Root
  BY <1>1, Numbers
<1>3. \A i \in 1..0 : FALSE
  OBVIOUS
<1> QED
  BY <1>2, <1>3 DEF WayNamed

LEMMA WayNamedBack ==
    ASSUME NEW f, NEW blk, NEW d, NEW c, NEW k \in Nat, WayNamed(f, blk, d, c, k + 1)
    PROVE  \E a \in Blocks : WayNamed(f, blk, a, c, k) /\ SubNamed(f, blk, a, d, c[k + 1])
<1>1. PICK r \in [0..(k + 1) -> Blocks] : /\ r[0] = Root /\ r[k + 1] = d
                                          /\ \A i \in 1..(k + 1) : SubNamed(f, blk, r[i - 1], r[i], c[i])
  BY DEF WayNamed
<1>2. k \in 0..(k + 1) /\ k + 1 \in 1..(k + 1) /\ (k + 1) - 1 = k
  OBVIOUS
<1>3. SubNamed(f, blk, r[k], d, c[k + 1]) /\ r[k] \in Blocks
  BY <1>1, <1>2
<1>4. PICK u : u = [i \in 0..k |-> r[i]]
  OBVIOUS
<1>5. \A i \in 0..k : i \in 0..(k + 1)
  OBVIOUS
<1>6. u \in [0..k -> Blocks] /\ u[0] = Root /\ u[k] = r[k]
  BY <1>1, <1>4, <1>5
<1>7. ASSUME NEW i \in 1..k PROVE SubNamed(f, blk, u[i - 1], u[i], c[i])
  <2>1. i \in 1..(k + 1) /\ i \in 0..k /\ i - 1 \in 0..k
    OBVIOUS
  <2> QED
    BY <1>1, <1>4, <2>1
<1>8. WayNamed(f, blk, r[k], c, k)
  BY <1>6, <1>7 DEF WayNamed
<1> QED
  BY <1>3, <1>8

LEMMA WayNamedOn ==
    ASSUME NEW f, NEW blk, NEW d, NEW c, NEW k \in Nat, WayNamed(f, blk, d, c, k),
           NEW e \in Blocks, SubNamed(f, blk, d, e, c[k + 1])
    PROVE  WayNamed(f, blk, e, c, k + 1)
<1>1. PICK r \in [0..k -> Blocks] : /\ r[0] = Root /\ r[k] = d
                                    /\ \A i \in 1..k : SubNamed(f, blk, r[i - 1], r[i], c[i])
  BY DEF WayNamed
<1>2. PICK u : u = [i \in 0..(k + 1) |-> IF i = k + 1 THEN e ELSE r[i]]
  OBVIOUS
<1>3. \A i \in 0..(k + 1) : i = k + 1 \/ (i # k + 1 /\ i \in 0..k)
  OBVIOUS
<1>4. u \in [0..(k + 1) -> Blocks]
  BY <1>2, <1>3
<1>5. 0 \in 0..(k + 1) /\ 0 # k + 1 /\ k + 1 \in 0..(k + 1)
  OBVIOUS
<1>6. u[0] = Root /\ u[k + 1] = e
  BY <1>1, <1>2, <1>5
<1>7. ASSUME NEW i \in 1..(k + 1) PROVE SubNamed(f, blk, u[i - 1], u[i], c[i])
  <2>1. i \in 0..(k + 1) /\ i - 1 \in 0..(k + 1) /\ i - 1 # k + 1
    OBVIOUS
  <2>2. u[i - 1] = r[i - 1]
    BY <1>2, <2>1
  <2>3. CASE i = k + 1
    <3>1. i - 1 = k
      BY <2>3
    <3> QED
      BY <1>1, <1>6, <2>2, <2>3, <3>1
  <2>4. CASE i # k + 1
    <3>1. i \in 1..k /\ u[i] = r[i]
      BY <1>2, <2>1, <2>4
    <3> QED
      BY <1>1, <2>2, <3>1
  <2> QED
    BY <2>3, <2>4
<1> QED
  BY <1>4, <1>6, <1>7 DEF WayNamed

LEMMA WayNamedStarts ==
    ASSUME NEW f, NEW blk, Typed(blk), NEW d, NEW c, NEW k \in Nat, WayNamed(f, blk, d, c, k)
    PROVE  IsStart(blk, d) /\ d \in Blocks
<1>1. CASE k = 0
  BY <1>1, WayNamedFirst, RootStarts, Numbers
<1>2. CASE k # 0
  <2>1. PICK l \in Nat : k = l + 1
    <3>1. k - 1 \in Nat /\ k = (k - 1) + 1
      BY <1>2
    <3> QED
      BY <3>1
  <2>2. PICK a \in Blocks : SubNamed(f, blk, a, d, c[l + 1])
    BY <2>1, WayNamedBack
  <2> QED
    BY <2>2, SubNamedStarts
<1> QED
  BY <1>1, <1>2

(* There is one way to a directory.                                        *)
LEMMA WaysUnique ==
    ASSUME NEW f \in Fats, NEW blk, Typed(blk), Sound(f, blk), NEW c, NEW h, NEW k \in Nat
    PROVE  \A d \in Blocks, l \in Nat : WayNamed(f, blk, d, c, k) /\ WayNamed(f, blk, d, h, l) =>
               k = l /\ \A i \in 1..k : c[i] = h[i]
<1> DEFINE Good(n) == \A d \in Blocks, l \in Nat : WayNamed(f, blk, d, c, n) /\ WayNamed(f, blk, d, h, l) =>
                          n = l /\ \A i \in 1..n : c[i] = h[i]
           Bad == {n \in Nat : ~Good(n)}
<1> SUFFICES ASSUME Bad # {} PROVE FALSE
  OBVIOUS
<1>1. PICK n \in Bad : \A m \in Bad : n <= m
  <2>1. Bad \in SUBSET Nat
    OBVIOUS
  <2> HIDE DEF Bad
  <2> QED
    BY <2>1, Least
<1>2. PICK d \in Blocks, l \in Nat : /\ WayNamed(f, blk, d, c, n) /\ WayNamed(f, blk, d, h, l)
                                     /\ ~(n = l /\ \A i \in 1..n : c[i] = h[i])
  BY <1>1
<1>3. \A m \in Nat : m # 0 => \E j \in Nat : m = j + 1
  <2> SUFFICES ASSUME NEW m \in Nat, m # 0 PROVE \E j \in Nat : m = j + 1
    OBVIOUS
  <2>1. m - 1 \in Nat /\ m = (m - 1) + 1
    OBVIOUS
  <2> QED
    BY <2>1
<1>4. ASSUME NEW m \in Nat, m # 0, NEW names, WayNamed(f, blk, Root, names, m) PROVE FALSE
  <2>1. PICK j \in Nat : m = j + 1
    BY <1>3, <1>4
  <2>2. PICK a \in Blocks : SubNamed(f, blk, a, Root, names[j + 1])
    BY <1>4, <2>1, WayNamedBack
  <2> QED
    BY <2>2, RootUnnamed
<1>5. CASE n = 0
  <2>1. d = Root
    BY <1>2, <1>5, WayNamedFirst
  <2>2. l = 0
    BY <1>2, <1>4, <2>1
  <2> QED
    BY <1>2, <1>5, <2>2
<1>6. CASE n # 0
  <2>1. PICK j \in Nat : n = j + 1
    BY <1>3, <1>6
  <2>2. l # 0
    <3> SUFFICES ASSUME l = 0 PROVE FALSE
      OBVIOUS
    <3>1. d = Root
      BY <1>2, WayNamedFirst
    <3> QED
      BY <1>2, <1>4, <1>6, <3>1
  <2>3. PICK m \in Nat : l = m + 1
    BY <1>3, <2>2
  <2>4. PICK a \in Blocks : WayNamed(f, blk, a, c, j) /\ SubNamed(f, blk, a, d, c[j + 1])
    BY <1>2, <2>1, WayNamedBack
  <2>5. PICK b \in Blocks : WayNamed(f, blk, b, h, m) /\ SubNamed(f, blk, b, d, h[m + 1])
    BY <1>2, <2>3, WayNamedBack
  <2>6. IsStart(blk, a) /\ IsStart(blk, b)
    BY <2>4, <2>5, WayNamedStarts
  <2>7. a = b /\ c[j + 1] = h[m + 1]
    BY <2>4, <2>5, <2>6, NamedOnce
  <2>8. Good(j)
    <3>1. ~(n <= j)
      BY <2>1
    <3> QED
      BY <1>1, <3>1
  <2>9. j = m /\ \A i \in 1..j : c[i] = h[i]
    BY <2>4, <2>5, <2>7, <2>8
  <2>10. \A i \in 1..n : i \in 1..j \/ i = j + 1
    BY <2>1
  <2> QED
    BY <1>2, <2>1, <2>3, <2>7, <2>9, <2>10
<1> QED
  BY <1>5, <1>6

(* What resolve_dir follows is a way down.                                 *)
LEMMA ResolveWay ==
    ASSUME NEW f \in Fats, NEW blk, Typed(blk), NEW n \in Nat, NEW q, \A i \in 1..n : q[i] \in Names,
           NEW c, Resolves(c, f, blk, q, n)
    PROVE  c[n] # EOF => WayNamed(f, blk, c[n], q, n)
<1> DEFINE Good(i) == c[i] # EOF => WayNamed(f, blk, c[i], q, i)
           Bad == {i \in 0..n : ~Good(i)}
<1> SUFFICES Bad = {}
  <2>1. n \in 0..n
    OBVIOUS
  <2> QED
    BY <2>1
<1> SUFFICES ASSUME Bad # {} PROVE FALSE
  OBVIOUS
<1>1. PICK i \in Bad : \A m \in Bad : i <= m
  <2>1. Bad \in SUBSET Nat
    OBVIOUS
  <2> HIDE DEF Bad
  <2> QED
    BY <2>1, Least
<1>2. Good(0)
  BY WayNamedFirst DEF Resolves
<1>3. PICK k \in 0..n : i = k + 1 /\ i \in 1..n /\ ~(i <= k) /\ i - 1 = k /\ k \in Nat
  <2>1. i - 1 \in 0..n /\ i = (i - 1) + 1 /\ i \in 1..n /\ ~(i <= i - 1) /\ i - 1 \in Nat
    BY <1>2
  <2> QED
    BY <2>1
<1>4. Good(k)
  BY <1>1, <1>3
<1>5. c[i] = StepDown(f, blk, c[k], q[i]) /\ c[i] # EOF /\ q[i] \in Names
  BY <1>3 DEF Resolves
<1>6. c[k] # EOF
  BY <1>5 DEF StepDown
<1>7. c[k] \in Blocks
  BY <1>6, <1>3, ResolveStarts
<1>8. c[i] \in Blocks /\ SubNamed(f, blk, c[k], c[i], q[i])
  BY <1>5, <1>7, StepStarts DEF SubNamed
<1>9. WayNamed(f, blk, c[i], q, k + 1)
  BY <1>3, <1>4, <1>6, <1>8, WayNamedOn
<1> QED
  BY <1>3, <1>9

LEMMA SubNamedKept ==
    ASSUME NEW f, NEW blk, NEW g, NEW new, Kept(f, blk, g, new),
           NEW d, NEW e, NEW name, IsStart(blk, d), SubNamed(f, blk, d, e, name)
    PROVE  SubNamed(g, new, d, e, name)
<1>1. PICK o \in Owners(blk) : IsDir(blk, o) /\ StartOf(blk, o) = d
  BY DEF IsStart
<1>2. PICK p \in InUse(blk) : /\ p.block \in ToSet(FollowChain(f, d))
                              /\ EntryAt(blk, p).dir /\ EntryAt(blk, p).start = e
                              /\ EntryAt(blk, p).name = name
  BY DEF SubNamed
<1>3. /\ p \in InUse(new) /\ EntryAt(new, p) = EntryAt(blk, p)
      /\ p.block \in ToSet(FollowChain(g, d))
  BY <1>1, <1>2 DEF Kept
<1> QED
  BY <1>2, <1>3 DEF SubNamed

LEMMA WayNamedKept ==
    ASSUME NEW f, NEW blk, NEW g, NEW new, Typed(blk), Kept(f, blk, g, new),
           NEW d, NEW c, NEW k \in Nat, WayNamed(f, blk, d, c, k)
    PROVE  WayNamed(g, new, d, c, k)
<1>1. PICK r \in [0..k -> Blocks] : /\ r[0] = Root /\ r[k] = d
                                    /\ \A i \in 1..k : SubNamed(f, blk, r[i - 1], r[i], c[i])
  BY DEF WayNamed
<1>2. ASSUME NEW i \in 1..k PROVE SubNamed(g, new, r[i - 1], r[i], c[i])
  <2>1. IsStart(blk, r[i - 1])
    <3>1. CASE i = 1
      <4>1. i - 1 = 0
        BY <3>1
      <4> QED
        BY <1>1, <4>1, RootStarts
    <3>2. CASE i # 1
      <4>1. i - 1 \in 1..k
        BY <3>2
      <4>2. SubNamed(f, blk, r[(i - 1) - 1], r[i - 1], c[i - 1])
        BY <1>1, <4>1
      <4> QED
        BY <4>2, SubNamedStarts
    <3> QED
      BY <3>1, <3>2
  <2> QED
    BY <1>1, <2>1, SubNamedKept
<1> QED
  BY <1>1, <1>2 DEF WayNamed

----------------------------------------------------------------------------
(* One more entry, and what diskget finds then.                            *)
LEMMA MinIs ==
    ASSUME NEW S \in SUBSET Nat, NEW m \in S, \A y \in S : m <= y
    PROVE  Min(S) = m
<1>1. \E x \in S : \A y \in S : x =< y
  OBVIOUS
<1>2. Min(S) \in S /\ \A y \in S : Min(S) =< y
  BY <1>1 DEF Min
<1>3. Min(S) <= m /\ m <= Min(S)
  BY <1>2
<1>4. PICK k \in Nat : k = Min(S)
  BY <1>2
<1> QED
  BY <1>3, <1>4

(* The entry e is put at a free place behind all entries of a directory.   *)
Appended(f, blk, new, d, at, e) ==
    /\ f \in Fats /\ Typed(blk) /\ Typed(new) /\ Sound(f, blk)
    /\ d \in Blocks /\ IsStart(blk, d)
    /\ OneMore(blk, new, at) /\ at \notin InUse(blk)
    /\ at.block \in ToSet(FollowChain(f, d)) /\ at \in AllPlaces
    /\ EntryAt(new, at) = e /\ e \in EntrySet
    /\ \A b \in Blocks : b # at.block => new[b] = blk[b]
    /\ \A i, j \in DOMAIN Places(f, d) : Shows(f, blk, d, j) /\ Places(f, d)[i] = at => j < i
    /\ \A p \in InUse(new) : p.block \notin ToSet(FollowChain(f, e.start))

LEMMA OnlyHere ==
    ASSUME NEW f, NEW blk, NEW new, NEW d, NEW at, NEW e, Appended(f, blk, new, d, at, e)
    PROVE  /\ \A a \in Blocks : IsStart(blk, a) /\ a # d => at.block \notin ToSet(FollowChain(f, a))
           /\ \A p \in InUse(blk) : ~EntryAt(blk, p).dir => at.block \notin ToSet(Owned(f, blk, p))
<1>0. /\ f \in Fats /\ Typed(blk) /\ Sound(f, blk) /\ IsStart(blk, d)
      /\ at.block \in ToSet(FollowChain(f, d))
  BY DEF Appended
<1>1. PICK o \in Owners(blk) : IsDir(blk, o) /\ StartOf(blk, o) = d
  BY <1>0 DEF IsStart
<1>2. at.block \in ToSet(Owned(f, blk, o))
  BY <1>0, <1>1 DEF Owned
<1>3. ASSUME NEW a \in Blocks, IsStart(blk, a), a # d, at.block \in ToSet(FollowChain(f, a)) PROVE FALSE
  <2>1. PICK u \in Owners(blk) : StartOf(blk, u) = a
    BY <1>3 DEF IsStart
  <2>2. at.block \in ToSet(Owned(f, blk, u))
    BY <1>3, <2>1 DEF Owned
  <2>3. u = o
    BY <1>0, <1>2, <2>2, OneOwner
  <2> QED
    BY <1>1, <1>3, <2>1, <2>3
<1>4. ASSUME NEW p \in InUse(blk), ~EntryAt(blk, p).dir, at.block \in ToSet(Owned(f, blk, p)) PROVE FALSE
  <2>1. p \in Owners(blk) /\ p # RootPlace
    BY <1>0, OwnersTyped
  <2>2. p = o
    BY <1>0, <1>2, <1>4, <2>1, OneOwner
  <2> QED
    BY <1>1, <1>4, <2>1, <2>2 DEF IsDir
<1> QED
  BY <1>3, <1>4

(* What a search finds after that: the new entry, where it found nothing.  *)
LEMMA NamedAfter ==
    ASSUME NEW f, NEW blk, NEW new, NEW d, NEW at, NEW e, Appended(f, blk, new, d, at, e),
           NEW a \in Blocks, IsStart(blk, a), NEW name \in Names
    PROVE  \/ Named(f, new, a, name) = Named(f, blk, a, name)
           \/ /\ a = d /\ name = e.name /\ Named(f, blk, a, name) = NoEntry
              /\ Named(f, new, a, name) = e
<1>0. /\ f \in Fats /\ Typed(blk) /\ OneMore(blk, new, at) /\ at \notin InUse(blk)
      /\ at.block \in ToSet(FollowChain(f, d)) /\ at \in AllPlaces
      /\ EntryAt(new, at) = e /\ d \in Blocks
      /\ \A i, j \in DOMAIN Places(f, d) : Shows(f, blk, d, j) /\ Places(f, d)[i] = at => j < i
  BY DEF Appended
<1>1. ASSUME NEW j
      PROVE  /\ Shows(f, new, a, j) <=> Shows(f, blk, a, j) \/ (j \in DOMAIN Places(f, a) /\ Places(f, a)[j] = at)
             /\ Shows(f, blk, a, j) => ShownAt(f, new, a, j) = ShownAt(f, blk, a, j)
             /\ j \in DOMAIN Places(f, a) /\ Places(f, a)[j] = at => ShownAt(f, new, a, j) = e
  BY <1>0 DEF Shows, ShownAt, OneMore
<1>2. CASE a # d
  <2>1. at.block \notin ToSet(FollowChain(f, a))
    BY <1>2, OnlyHere
  <2>2. ~ \E j \in DOMAIN Places(f, a) : Places(f, a)[j] = at
    BY <1>0, <2>1, PlacesTyped
  <2>3. SameLook(f, blk, f, new, a)
    BY <1>1, <2>2 DEF SameLook
  <2> QED
    BY <1>0, <2>3, LookNamed
<1>3. CASE a = d
  <2>1. PICK H : H = Hits(f, blk, d, name) /\ H \in SUBSET Nat
    BY DEF Hits
  <2>2. PICK N : N = Hits(f, new, d, name) /\ N \in SUBSET Nat
    BY DEF Hits
  <2>3. \A j \in H : j \in N /\ ShownAt(f, new, d, j) = ShownAt(f, blk, d, j)
    BY <1>1, <1>3, <2>1, <2>2 DEF Hits
  <2>4. ASSUME NEW j \in N, j \notin H
        PROVE  j \in DOMAIN Places(f, d) /\ Places(f, d)[j] = at /\ name = e.name /\ ShownAt(f, new, d, j) = e
    BY <1>1, <1>3, <2>1, <2>2, <2>4 DEF Hits
  <2>5. CASE H # {}
    <3>1. Min(H) \in H /\ Named(f, blk, d, name) = ShownAt(f, blk, d, Min(H))
      BY <1>0, <2>1, <2>5, NamedFirst
    <3>2. PICK m \in H : m = Min(H)
      BY <3>1
    <3>3. \A y \in H : m <= y
      BY <2>1, <3>2, Least DEF Min
    <3>4. Shows(f, blk, d, m) /\ m \in DOMAIN Places(f, d) /\ m \in Nat
      BY <2>1, <3>2 DEF Hits, Shows
    <3>5. ASSUME NEW y \in N PROVE m <= y
      <4>1. y \notin H => m < y
        BY <1>0, <2>4, <3>4
      <4>2. y \in Nat
        BY <2>2
      <4> QED
        BY <3>3, <3>4, <4>1, <4>2
    <3>6. m \in N /\ Min(N) = m
      BY <2>2, <2>3, <3>2, <3>5, MinIs
    <3>7. Named(f, new, d, name) = ShownAt(f, new, d, m)
      BY <1>0, <2>2, <3>6, NamedFirst
    <3> QED
      BY <1>3, <2>3, <3>1, <3>2, <3>7
  <2>6. CASE H = {} /\ N = {}
    BY <1>0, <1>3, <2>1, <2>2, <2>6, NamedFirst
  <2>7. CASE H = {} /\ N # {}
    <3>1. Named(f, blk, d, name) = NoEntry
      BY <1>0, <2>1, <2>7, NamedFirst
    <3>2. Min(N) \in N /\ Named(f, new, d, name) = ShownAt(f, new, d, Min(N))
      BY <1>0, <2>2, <2>7, NamedFirst
    <3>3. ShownAt(f, new, d, Min(N)) = e /\ name = e.name
      BY <2>4, <2>7, <3>2
    <3> QED
      BY <1>3, <3>1, <3>2, <3>3
  <2> QED
    BY <2>5, <2>6, <2>7
<1> QED
  BY <1>2, <1>3

(* A new directory is empty.                                               *)
LEMMA NamedInNew ==
    ASSUME NEW f, NEW blk, NEW new, NEW d, NEW at, NEW e, Appended(f, blk, new, d, at, e), NEW name \in Names
    PROVE  e.start \in Blocks /\ Named(f, new, e.start, name) = NoEntry
<1>0. f \in Fats /\ e \in EntrySet /\ \A p \in InUse(new) : p.block \notin ToSet(FollowChain(f, e.start))
  BY DEF Appended
<1>1. PICK b \in Blocks : b = e.start
  BY <1>0 DEF EntrySet
<1>2. ASSUME NEW j, Shows(f, new, b, j) PROVE FALSE
  <2>1. j \in DOMAIN Places(f, b) /\ Places(f, b)[j] \in InUse(new)
    BY <1>2 DEF Shows
  <2>2. Places(f, b)[j].block \in ToSet(FollowChain(f, b))
    BY <1>0, <2>1, PlacesTyped
  <2> QED
    BY <1>0, <1>1, <2>1, <2>2
<1>3. Hits(f, new, b, name) = {}
  BY <1>2 DEF Hits
<1> QED
  BY <1>0, <1>1, <1>3, NamedFirst

LEMMA ExtractAfter ==
    ASSUME NEW f, NEW blk, NEW new, NEW d, NEW at, NEW e, Appended(f, blk, new, d, at, e),
           NEW p \in InUse(blk), ~EntryAt(blk, p).dir
    PROVE  Extract(f, new, EntryAt(blk, p)) = Extract(f, blk, EntryAt(blk, p))
<1>0. f \in Fats /\ Typed(blk) /\ \A b \in Blocks : b # at.block => new[b] = blk[b]
  BY DEF Appended
<1>1. PICK x : x = EntryAt(blk, p)
  OBVIOUS
<1>2. x.start \in Blocks /\ StartOf(blk, p) = x.start
  BY <1>0, <1>1, OwnersTyped
<1>3. at.block \notin ToSet(FollowChain(f, x.start))
  BY <1>2, OnlyHere DEF Owned
<1>4. FollowChain(f, x.start) \in Seq(Blocks)
  BY <1>0, <1>2, ChainTyped
<1>5. ToSet(FollowChain(f, x.start)) \subseteq Blocks
  BY <1>4, ToSetMeaning
<1>6. \A i \in DOMAIN FollowChain(f, x.start) :
          new[FollowChain(f, x.start)[i]] = blk[FollowChain(f, x.start)[i]]
  BY <1>0, <1>3, <1>5 DEF ToSet
<1> QED
  BY <1>1, <1>6, ExtractSame

(* diskget finds at most one file more, if it is a file, at the path that  *)
(* leads to the directory.                                                 *)
LEMMA GetAfter ==
    ASSUME NEW f, NEW blk, NEW new, NEW d, NEW at, NEW e, Appended(f, blk, new, d, at, e),
           NEW q \in Paths, NEW n \in Nat, Len(q) = n + 1
    PROVE  \/ Get(f, new, q) = Get(f, blk, q)
           \/ /\ Get(f, blk, q) = {} /\ Get(f, new, q) = {Extract(f, new, e)} /\ ~e.dir
              /\ WayNamed(f, blk, d, q, n) /\ q[n + 1] = e.name
<1>0. f \in Fats /\ Typed(blk) /\ e \in EntrySet /\ d \in Blocks
  BY DEF Appended
<1>1. \A i \in 1..(n + 1) : q[i] \in Names
  BY PathShape
<1>2. PICK c : Resolves(c, f, blk, q, n) /\ Get(f, blk, q) = Read(f, blk, c[n], q[n + 1])
  BY GetMeaning
<1>3. PICK h : Resolves(h, f, new, q, n) /\ Get(f, new, q) = Read(f, new, h[n], q[n + 1])
  BY GetMeaning
<1>4. \A i \in 1..n : q[i] \in Names
  BY <1>1
<1>5. \A i \in 0..n : c[i] = EOF \/ (c[i] \in Blocks /\ IsStart(blk, c[i]))
  BY <1>0, <1>2, <1>4, ResolveStarts
<1>6. ASSUME NEW name \in Names
      PROVE  /\ StepDown(f, blk, EOF, name) = EOF /\ StepDown(f, new, EOF, name) = EOF
             /\ StepDown(f, new, e.start, name) = EOF
  BY NamedInNew DEF StepDown, NoEntry
<1> DEFINE Good(i) == h[i] = c[i] \/ (e.dir /\ c[i] = EOF /\ h[i] = e.start)
           Bad == {i \in 0..n : ~Good(i)}
<1>7. \A i \in 0..n : Good(i)
  <2> SUFFICES ASSUME Bad # {} PROVE FALSE
    OBVIOUS
  <2>1. PICK i \in Bad : \A m \in Bad : i <= m
    <3>1. Bad \in SUBSET Nat
      OBVIOUS
    <3> HIDE DEF Bad
    <3> QED
      BY <3>1, Least
  <2>2. i \in 1..n /\ i - 1 \in 0..n /\ ~(i <= i - 1)
    BY <1>2, <1>3 DEF Resolves
  <2>3. Good(i - 1)
    BY <2>1, <2>2
  <2>4. c[i] = StepDown(f, blk, c[i - 1], q[i]) /\ h[i] = StepDown(f, new, h[i - 1], q[i]) /\ q[i] \in Names
    BY <1>2, <1>3, <1>4, <2>2 DEF Resolves
  <2>5. CASE h[i - 1] # c[i - 1]
    BY <1>6, <2>3, <2>4, <2>5
  <2>6. CASE h[i - 1] = c[i - 1] /\ c[i - 1] = EOF
    BY <1>6, <2>4, <2>6
  <2>7. CASE h[i - 1] = c[i - 1] /\ c[i - 1] # EOF
    <3>1. c[i - 1] \in Blocks /\ IsStart(blk, c[i - 1])
      BY <1>5, <2>2, <2>7
    <3>2. \/ Named(f, new, c[i - 1], q[i]) = Named(f, blk, c[i - 1], q[i])
          \/ Named(f, blk, c[i - 1], q[i]) = NoEntry /\ Named(f, new, c[i - 1], q[i]) = e
      BY <2>4, <3>1, NamedAfter
    <3>3. e.inUse
      BY <1>0 DEF EntrySet
    <3> QED
      BY <2>4, <2>7, <3>2, <3>3 DEF StepDown, NoEntry
  <2> QED
    BY <2>5, <2>6, <2>7
<1>8. Good(n)
  BY <1>7
<1>9. PICK name \in Names : name = q[n + 1]
  <2>1. n + 1 \in 1..(n + 1)
    OBVIOUS
  <2> QED
    BY <1>1, <2>1
<1>10. CASE h[n] # c[n]
  <2>1. Named(f, new, e.start, name) = NoEntry
    BY NamedInNew
  <2>2. c[n] = EOF /\ h[n] = e.start
    BY <1>8, <1>10
  <2>3. Get(f, blk, q) = {} /\ Get(f, new, q) = {}
    BY <1>2, <1>3, <1>9, <2>1, <2>2 DEF Read, NoEntry
  <2> QED
    BY <2>3
<1>11. CASE h[n] = c[n] /\ c[n] = EOF
  BY <1>2, <1>3, <1>11 DEF Read, NoEntry
<1>12. CASE h[n] = c[n] /\ c[n] # EOF
  <2>1. PICK a \in Blocks : a = c[n] /\ a = h[n] /\ a # EOF /\ IsStart(blk, a)
    <3>1. n \in 0..n
      OBVIOUS
    <3> QED
      BY <1>5, <1>12, <3>1
  <2>2. CASE Named(f, new, a, name) = Named(f, blk, a, name)
    <3>1. PICK x : x = Named(f, blk, a, name) /\ x = Named(f, new, a, name)
      BY <2>2
    <3>2. ASSUME x.inUse, ~x.dir PROVE Extract(f, blk, x) = Extract(f, new, x)
      <4>1. f \in Fats /\ Typed(blk) /\ a \in Blocks /\ x = Named(f, blk, a, name) /\ x.inUse
        BY <1>0, <3>1, <3>2
      <4>2. \E p \in InUse(blk) : /\ p.block \in ToSet(FollowChain(f, a))
                                  /\ x = EntryAt(blk, p) /\ x.name = name /\ x \in EntrySet
        BY <4>1, NamedShown
      <4>3. PICK p \in InUse(blk) : x = EntryAt(blk, p)
        BY <4>2
      <4> QED
        BY <3>2, <4>3, ExtractAfter
    <3>3. Get(f, blk, q) = IF x.inUse /\ ~x.dir THEN {Extract(f, blk, x)} ELSE {}
      BY <1>2, <1>9, <2>1, <3>1 DEF Read
    <3>4. Get(f, new, q) = IF x.inUse /\ ~x.dir THEN {Extract(f, new, x)} ELSE {}
      BY <1>3, <1>9, <2>1, <3>1 DEF Read
    <3>5. Get(f, new, q) = Get(f, blk, q)
      <4> HIDE DEF Good, Bad
      <4>1. CASE x.inUse /\ ~x.dir
        <5>1. Extract(f, blk, x) = Extract(f, new, x)
          BY <3>2, <4>1
        <5> QED
          BY <3>3, <3>4, <4>1, <5>1
      <4>2. CASE ~(x.inUse /\ ~x.dir)
        BY <3>3, <3>4, <4>2
      <4> QED
        BY <4>1, <4>2
    <3> QED
      BY <3>5
  <2>3. CASE /\ a = d /\ name = e.name /\ Named(f, blk, a, name) = NoEntry
             /\ Named(f, new, a, name) = e
    <3>1. Get(f, blk, q) = {}
      BY <1>2, <1>9, <2>1, <2>3 DEF Read, NoEntry
    <3>2. CASE e.dir
      <4>1. Get(f, new, q) = {}
        BY <1>3, <1>9, <2>1, <2>3, <3>2 DEF Read
      <4> QED
        BY <3>1, <4>1
    <3>3. CASE ~e.dir
      <4>1. e.inUse
        BY <1>0 DEF EntrySet
      <4>2. Get(f, new, q) = {Extract(f, new, e)}
        BY <1>3, <1>9, <2>1, <2>3, <3>3, <4>1 DEF Read
      <4>3. WayNamed(f, blk, d, q, n)
        BY <1>0, <1>2, <1>4, <2>1, <2>3, ResolveWay
      <4> QED
        BY <1>9, <2>3, <3>1, <3>3, <4>2, <4>3
    <3> QED
      BY <3>2, <3>3
  <2>4. \/ Named(f, new, a, name) = Named(f, blk, a, name)
        \/ /\ a = d /\ name = e.name /\ Named(f, blk, a, name) = NoEntry
           /\ Named(f, new, a, name) = e
    <3>1. Appended(f, blk, new, d, at, e) /\ a \in Blocks /\ IsStart(blk, a) /\ name \in Names
      BY <1>9, <2>1
    <3> QED
      BY <3>1, NamedAfter
  <2> QED
    BY <2>2, <2>3, <2>4
<1> QED
  BY <1>10, <1>11, <1>12

----------------------------------------------------------------------------
(* The bytes of a file, put together from its blocks.                      *)

(* The first parts of a sequence of sequences.                             *)
IsFlat(h, seqs, n) ==
    h = [i \in 1..n |-> IF i = 1 THEN seqs[i] ELSE h[i - 1] \o seqs[i]]

LEMMA FlatExists ==
    ASSUME NEW seqs, NEW N \in Nat, N > 0
    PROVE  \E h : IsFlat(h, seqs, N)
<1> DEFINE Bad == {n \in 1..N : ~ \E h : IsFlat(h, seqs, n)}
           Step(h, i) == IF i = 1 THEN seqs[i] ELSE h[i - 1] \o seqs[i]
<1> SUFFICES ASSUME Bad # {} PROVE FALSE
  OBVIOUS
<1>1. PICK n \in Bad : \A m \in Bad : n <= m
  <2>1. Bad \in SUBSET Nat
    OBVIOUS
  <2> HIDE DEF Bad
  <2> QED
    BY <2>1, Least
<1>2. CASE n = 1
  <2> DEFINE h == [i \in 1..1 |-> seqs[1]]
  <2>1. \A i \in 1..1 : i = 1
    OBVIOUS
  <2>2. \A i \in 1..1 : Step(h, i) = seqs[1]
    BY <2>1
  <2>3. IsFlat(h, seqs, 1)
    BY <2>2 DEF IsFlat
  <2> QED
    BY <1>2, <2>3
<1>3. CASE n # 1
  <2>1. n \in 1..N /\ n - 1 \in 1..N /\ ~(n <= n - 1)
    BY <1>3
  <2>2. PICK c : IsFlat(c, seqs, n - 1)
    <3>1. n - 1 \notin Bad
      BY <1>1, <2>1
    <3> QED
      BY <2>1, <3>1
  <2> DEFINE top == Step(c, n)
             h == [i \in 1..n |-> IF i = n THEN top ELSE c[i]]
  <2>3. \A i \in 1..(n - 1) : c[i] = Step(c, i)
    BY <2>2 DEF IsFlat
  <2>4. ASSUME NEW i \in 1..n PROVE h[i] = Step(h, i)
    <3>1. i # 1 => h[i - 1] = c[i - 1]
      BY <2>1
    <3>2. Step(h, i) = Step(c, i)
      <4> HIDE DEF h
      <4> QED
        BY <3>1
    <3>3. CASE i = n
      <4>1. h[i] = top
        BY <3>3
      <4> QED
        BY <3>2, <3>3, <4>1
    <3>4. CASE i # n
      <4>1. i \in 1..(n - 1) /\ h[i] = c[i]
        BY <2>1, <3>4
      <4> HIDE DEF h
      <4> QED
        BY <2>3, <3>2, <4>1
    <3> QED
      BY <3>3, <3>4
  <2>5. h = [i \in 1..n |-> Step(h, i)]
    BY <2>4
  <2>6. IsFlat(h, seqs, n)
    BY <2>5 DEF IsFlat
  <2> QED
    BY <2>6
<1> QED
  BY <1>2, <1>3

LEMMA Flattened ==
    ASSUME NEW seqs, NEW n \in Nat, n > 0, Len(seqs) = n
    PROVE  \E h : FlattenSeq(seqs) = h[n] /\ \A i \in 1..n : h[i] = IF i = 1 THEN seqs[i] ELSE h[i - 1] \o seqs[i]
<1> DEFINE h == CHOOSE h : h = [i \in 1..n |-> IF i = 1 THEN seqs[i] ELSE h[i - 1] \o seqs[i]]
<1>1. FlattenSeq(seqs) = h[n]
  BY DEF FlattenSeq
<1>2. \E g : IsFlat(g, seqs, n)
  BY FlatExists
<1>3. IsFlat(h, seqs, n)
  BY <1>2 DEF IsFlat
<1> HIDE DEF h
<1>4. \A i \in 1..n : h[i] = IF i = 1 THEN seqs[i] ELSE h[i - 1] \o seqs[i]
  BY <1>3 DEF IsFlat
<1> QED
  BY <1>1, <1>4

(* The chunks make up the file.                                            *)
LEMMA ChunksFlatten ==
    ASSUME data \in Seq(ToSet(data)), NEW seqs, seqs = [k \in 1..Needed |-> Chunk(k)]
    PROVE  FlattenSeq(seqs) = data
<1>1. PICK n \in Nat : n = Needed /\ n > 0
  BY NeededBlocks
<1>2. PICK D : D = ToSet(data) /\ data \in Seq(D)
  OBVIOUS
<1>3. Len(seqs) = n /\ \A k \in 1..n : seqs[k] = Chunk(k)
  <2>1. seqs \in [1..n -> {Chunk(k) : k \in 1..n}]
    BY <1>1
  <2> QED
    BY <1>1, <2>1, FunctionSeq
<1>4. PICK h : /\ FlattenSeq(seqs) = h[n]
               /\ \A i \in 1..n : h[i] = IF i = 1 THEN seqs[i] ELSE h[i - 1] \o seqs[i]
  <2>1. n \in Nat /\ n > 0 /\ Len(seqs) = n
    BY <1>1, <1>3
  <2> QED
    BY ONLY <2>1, Flattened
<1> DEFINE Good(k) == h[k] \in Seq(D) /\ Len(h[k]) = Upto(k) /\ \A i \in 1..Upto(k) : h[k][i] = data[i]
           Bad == {k \in 1..n : ~Good(k)}
<1>5. \A k \in 1..n : Good(k)
  <2> SUFFICES ASSUME Bad # {} PROVE FALSE
    OBVIOUS
  <2>1. PICK k \in Bad : \A m \in Bad : k <= m
    <3>1. Bad \in SUBSET Nat
      OBVIOUS
    <3> HIDE DEF Bad
    <3> QED
      BY <3>1, Least
  <2>2. PICK a \in Nat : a = (k - 1) * BlockSize
    BY <1>1, NeededBlocks
  <2>3. PICK c \in Nat : c = Upto(k) /\ a <= c
    BY <1>1, <2>2, NeededBlocks
  <2>4. PICK u : u = Chunk(k)
    OBVIOUS
  <2>5. /\ u \in Seq(D) /\ Len(u) = c - a
        /\ \A i \in 1..(c - a) : u[i] = data[a + i]
    <3>1. data \in Seq(ToSet(data)) /\ k \in 1..Needed /\ a = From(k) /\ c = Upto(k)
      BY <1>1, <2>2, <2>3 DEF From
    <3>2. /\ Chunk(k) \in Seq(ToSet(data)) /\ Len(Chunk(k)) = c - a
          /\ \A i \in 1..(c - a) : Chunk(k)[i] = data[a + i]
      BY <3>1, ChunkMeaning 
    <3> QED
      BY <1>2, <2>4, <3>2
  <2>6. CASE k = 1
    <3>1. a = 0
      <4>1. k - 1 = 0
        BY <2>6
      <4>2. BlockSize \in Nat
        BY ImageAssumption
      <4> QED
        BY <2>2, <4>1, <4>2
    <3>2. h[k] = u
      BY <1>3, <1>4, <2>4, <2>6
    <3>3. Len(u) = c /\ \A i \in 1..c : u[i] = data[i]
      BY <2>5, <3>1
    <3> QED
      BY <2>1, <2>3, <2>5, <3>2, <3>3
  <2>7. CASE k # 1
    <3>1. PICK j \in 1..n : j = k - 1 /\ ~(k <= j) /\ j # n
      BY <2>7
    <3>2. Good(j)
      BY <2>1, <3>1
    <3>3. Upto(j) = a
      BY <1>1, <2>2, <3>1 DEF Upto
    <3>4. PICK v : v = h[j]
      OBVIOUS
    <3>5. v \in Seq(D) /\ Len(v) = a /\ \A i \in 1..a : v[i] = data[i]
      BY <3>2, <3>3, <3>4
    <3>6. h[k] = v \o u
      BY <1>3, <1>4, <2>4, <2>7, <3>1, <3>4
    <3>7. /\ v \o u \in Seq(D) /\ Len(v \o u) = Len(v) + Len(u)
          /\ \A i \in 1..(Len(v) + Len(u)) : (v \o u)[i] = IF i <= Len(v) THEN v[i] ELSE u[i - Len(v)]
      BY <2>5, <3>5, ConcatProperties
    <3>8. Len(v) + Len(u) = c
      BY <2>3, <2>5, <3>5
    <3>9. ASSUME NEW i \in 1..c PROVE (v \o u)[i] = data[i]
      <4>1. CASE i <= a
        BY <3>5, <3>7, <3>8, <4>1
      <4>2. CASE ~(i <= a)
        <5>1. PICK x \in 1..(c - a) : x = i - a /\ a + x = i
          BY <4>2
        <5>2. (v \o u)[i] = u[x]
          BY <3>5, <3>7, <3>8, <4>2, <5>1
        <5> QED
          BY <2>5, <5>1, <5>2
      <4> QED
        BY <4>1, <4>2
    <3> QED
      BY <2>1, <2>3, <3>6, <3>7, <3>8, <3>9
  <2> QED
    BY <2>6, <2>7
<1>6. Good(n) /\ Upto(n) = Len(data)
  BY <1>1, <1>5 DEF Upto
<1>7. h[n] \in Seq(D) /\ Len(h[n]) = Len(data) /\ \A i \in 1..Len(h[n]) : h[n][i] = data[i]
  BY <1>6
<1>8. h[n] = data
  BY <1>2, <1>7, SeqEqual
<1> QED
  BY <1>4, <1>8

(* diskget finds the file in a chain whose blocks hold its chunks.         *)
LEMMA ExtractsData ==
    ASSUME data \in Seq(ToSet(data)), NEW f, NEW blk, NEW e, NEW s, s = FollowChain(f, e.start), s \in Seq(Blocks),
           Len(s) = Needed, \A k \in 1..Needed : blk[s[k]] = Chunk(k), e.size = Len(data)
    PROVE  Extract(f, blk, e) = data
<1>1. DOMAIN s = 1..Needed
  BY LenProperties
<1>2. \A k \in 1..Needed : BytesOf(blk[s[k]]) = Chunk(k)
  BY ChunkMeaning DEF BytesOf
<1>3. PICK seqs : seqs = [i \in DOMAIN s |-> BytesOf(blk[s[i]])]
  OBVIOUS
<1>4. seqs = [k \in 1..Needed |-> Chunk(k)]
  BY <1>1, <1>2, <1>3
<1>5. FlattenSeq(seqs) = data
  BY <1>4, ChunksFlatten
<1>6. PICK l \in Nat : l = Len(data)
  BY LenProperties
<1>7. Extract(f, blk, e) = SubSeq(data, 1, l)
  <2>1. (IF l < l THEN l ELSE l) = l
    OBVIOUS
  <2> QED
    BY <1>3, <1>5, <1>6, <2>1 DEF Extract
<1>8. \A i \in 1..l : data[i] \in ToSet(data)
  BY <1>6, ElementOfSeq
<1>9. /\ SubSeq(data, 1, l) \in Seq(ToSet(data))
      /\ Len(SubSeq(data, 1, l)) = IF 1 <= l THEN l - 1 + 1 ELSE 0
      /\ \A i \in 1..(l - 1 + 1) : SubSeq(data, 1, l)[i] = data[1 + i - 1]
  <2>1. 1 \in Int /\ l \in Int
    OBVIOUS
  <2> QED
    BY <1>8, <2>1, SubSeqProperties
<1>10. l - 1 + 1 = l /\ (~(1 <= l) => l = 0) /\ \A i \in 1..l : 1 + i - 1 = i
  OBVIOUS
<1>11. Len(SubSeq(data, 1, l)) = l /\ \A i \in 1..l : SubSeq(data, 1, l)[i] = data[i]
  BY <1>9, <1>10
<1>12. SubSeq(data, 1, l) = data
  BY <1>6, <1>9, <1>11, SeqEqual
<1> QED
  BY <1>7, <1>12

----------------------------------------------------------------------------
(* The invariant of what is shown: every directory is packed, the way to   *)
(* the current one has the names of the path, and the entry that is        *)
(* written last leads to all of the file.                                  *)

(* Blocks are written that are in no chain, or end the directory.          *)
Apart == \A i \in DOMAIN todo :
             IsBlock(i) => todo[i].at \notin Used(mem, block) \/ todo[i].at = Here0[Len(Here0)]

(* The blocks of the chain s hold the file, or are about to.               *)
Holds(s) ==
    \A k \in 1..Needed :
        /\ block[s[k]] = Chunk(k) \/ \E i \in DOMAIN todo : IsBlock(i) /\ todo[i].at = s[k]
        /\ \A i \in DOMAIN todo : IsBlock(i) /\ todo[i].at = s[k] => todo[i].bytes = Chunk(k)

(* The entry e goes into the first free place of the directory, under the  *)
(* next name of the path, and what it leads to is complete by then.        *)
FirstIn(at) ==
    \A i, j \in DOMAIN Places(mem, dir) :
        i < j /\ Places(mem, dir)[j] = at =>
            /\ EntryAt(block, Places(mem, dir)[i]).inUse
            /\ \A k \in DOMAIN todo : IsBlock(k) => todo[k].at # Places(mem, dir)[i].block

LeadsOn(e) ==
    LET own == FollowChain(mem, e.start)
    IN  /\ \A q \in InUse(block) : q.block \notin ToSet(own)
        /\ e.name = path[comp]
        /\ \/ e.dir
           \/ comp = Len(path) /\ e.size = Len(data) /\ Len(own) = Needed /\ Holds(own)

(* No entry is there, once the block is written that is to be there.       *)
Vacant(at) ==
    (\A k \in DOMAIN todo : IsBlock(k) => todo[k].at # at.block) => ~EntryAt(block, at).inUse

Complete(w) == FirstIn(w.at) /\ Vacant(w.at) /\ LeadsOn(w.entry)

Shown ==
    /\ NoneLow(block)
    /\ pc = "none" => Packed(fat, block)
    /\ pc # "none" => Packed(mem, block) /\ WayNamed(mem, block, dir, path, comp - 1) /\ data \in Contents
    /\ pc = "writing" =>
          /\ Apart
          /\ after.do # "fail" /\ todo # <<>> => Complete(todo[Len(todo)])
          /\ after.do = "descend" /\ todo = <<>> => SubNamed(mem, block, dir, after.start, path[comp])

----------------------------------------------------------------------------
(* What a write leaves of it ...                                           *)
LEMMA ViewStarts ==
    ASSUME NEW blk, NEW new, SameView(blk, new), NEW d
    PROVE  IsStart(new, d) <=> IsStart(blk, d)
BY DEF IsStart, Owners, IsDir, StartOf, SameView

LEMMA ViewShows ==
    ASSUME NEW f, NEW blk, NEW new, SameView(blk, new), NEW d, NEW j
    PROVE  Shows(f, new, d, j) <=> Shows(f, blk, d, j)
BY DEF Shows, SameView

(* A chain of a directory is no other's.                                   *)
LEMMA StartOwner ==
    ASSUME NEW f \in Fats, NEW blk, Typed(blk), Sound(f, blk), NEW d \in Blocks, IsStart(blk, d)
    PROVE  /\ IsChain(f, FollowChain(f, d)) /\ ToSet(FollowChain(f, d)) \subseteq Used(f, blk)
           /\ \A a \in Blocks : IsStart(blk, a) /\ a # d =>
                  ToSet(FollowChain(f, a)) \cap ToSet(FollowChain(f, d)) = {}
<1>1. PICK o \in Owners(blk) : StartOf(blk, o) = d
  BY DEF IsStart
<1>2. IsChain(f, Owned(f, blk, o)) /\ FollowChain(f, d) = Owned(f, blk, o)
  BY <1>1 DEF Sound, Owned
<1>3. ASSUME NEW a \in Blocks, IsStart(blk, a), a # d, NEW x \in ToSet(FollowChain(f, a)),
             x \in ToSet(FollowChain(f, d))
      PROVE  FALSE
  <2>1. PICK p \in Owners(blk) : StartOf(blk, p) = a
    BY <1>3 DEF IsStart
  <2>2. x \in ToSet(Owned(f, blk, p)) /\ x \in ToSet(Owned(f, blk, o))
    BY <1>2, <1>3, <2>1 DEF Owned
  <2>3. p = o
    BY <2>2, OneOwner
  <2> QED
    BY <1>1, <1>3, <2>1, <2>3
<1>4. ToSet(FollowChain(f, d)) \subseteq Used(f, blk)
  BY <1>2 DEF Used
<1> QED
  BY <1>2, <1>3, <1>4

(* Nothing is shown behind a block that is written.                        *)
LEMMA BehindNothing ==
    ASSUME TypeOK, Working, Apart, Filling, NEW k, IsBlock(k), pc = "writing",
           NEW d \in Blocks, IsStart(block, d), NEW i \in DOMAIN Places(mem, d), NEW j \in DOMAIN Places(mem, d),
           i < j, Shows(mem, block, d, j)
    PROVE  Places(mem, d)[i].block # todo[k].at
<1> SUFFICES ASSUME Places(mem, d)[i].block = todo[k].at
             PROVE  FALSE
  OBVIOUS
<1>1. mem \in Fats /\ Typed(block) /\ Sound(mem, block) /\ k \in DOMAIN todo /\ dir \in Blocks
  BY DEF TypeOK, Typed, Working, IsBlock
<1>2. PICK x : x = todo[k].at /\ x = Places(mem, d)[i].block
  OBVIOUS
<1>3. PICK s : s = FollowChain(mem, d) /\ IsChain(mem, s) /\ s \in Seq(Blocks)
  BY <1>1, StartOwner, ChainTyped
<1>4. x \in ToSet(s)
  BY <1>1, <1>2, <1>3, PlacesTyped
<1>5. x = Here0[Len(Here0)]
  BY <1>1, <1>2, <1>3, <1>4, StartOwner DEF Apart
<1>6. PICK o \in Owners(block) : IsDir(block, o) /\ StartOf(block, o) = dir /\ Owned(mem, block, o) = Here0
  BY <1>1, CurrentDir DEF Working, Here0
<1>7. IsStart(block, dir) /\ Here0 = FollowChain(mem, dir)
  BY <1>6 DEF IsStart, Here0
<1>8. IsChain(mem, Here0) /\ Here0 \in Seq(Blocks)
  BY <1>1, <1>7, StartOwner, ChainTyped
<1>9. PICK n \in Nat : n = Len(Here0) /\ n > 0
  BY <1>8, LenProperties DEF IsChain
<1>10. x \in ToSet(Here0)
  <2>1. n \in 1..Len(Here0)
    BY <1>9
  <2> QED
    BY <1>5, <1>8, <1>9, <2>1, ToSetMeaning
<1>11. d = dir /\ s = Here0
  BY <1>1, <1>3, <1>4, <1>7, <1>10, StartOwner
<1>12. i \in Nat /\ i > 0 /\ j \in Nat /\ j > 0 /\ Row(i) \in 1..n /\ Row(j) \in 1..n
  BY <1>1, <1>3, <1>9, <1>11, PlaceIs
<1>13. Places(mem, d)[i].block = s[Row(i)] /\ Places(mem, d)[j].block = s[Row(j)]
  BY <1>1, <1>3, PlaceIs
<1>14. Row(i) = n
  <2>1. s[Row(i)] = s[n] /\ n \in 1..n
    BY <1>2, <1>5, <1>9, <1>11, <1>13
  <2> QED
    BY <1>3, <1>9, <1>11, <1>12, <2>1 DEF IsChain
<1>15. Row(j) = n
  <2>1. Row(i) <= Row(j)
    BY <1>12, RowOrder
  <2> QED
    BY <1>12, <1>14, <2>1
<1>16. PICK p \in InUse(block) : p = Places(mem, d)[j] /\ p.block = x
  BY <1>2, <1>5, <1>9, <1>11, <1>13, <1>15 DEF Shows
<1> QED
  BY <1>1, <1>2, <1>16 DEF Filling

(* Only the blocks that are written change.                                *)
LEMMA EntryKept ==
    ASSUME NEW place, place.block \in Blocks,
           \A b \in Blocks : block'[b] = IF IsBlock(1) /\ b = todo[1].at THEN todo[1].bytes ELSE block[b],
           IsBlock(1) => place.block # todo[1].at
    PROVE  EntryAt(block', place) = EntryAt(block, place)
BY DEF EntryAt

LEMMA RestPacked ==
    ASSUME TypeOK, Working, Apart, Filling, pc = "writing", SameView(block, block'),
           \A b \in Blocks : block'[b] = IF IsBlock(1) /\ b = todo[1].at THEN todo[1].bytes ELSE block[b],
           Packed(mem, block)
    PROVE  Packed(mem, block')
<1>1. mem \in Fats
  BY DEF TypeOK
<1> SUFFICES ASSUME NEW d \in Blocks, IsStart(block', d), NEW i \in DOMAIN Places(mem, d),
                    NEW j \in DOMAIN Places(mem, d), i < j, Shows(mem, block', d, j)
             PROVE  EntryAt(block', Places(mem, d)[i]).inUse
  BY DEF Packed
<1>2. IsStart(block, d) /\ Shows(mem, block, d, j)
  BY ViewStarts, ViewShows
<1>3. EntryAt(block, Places(mem, d)[i]).inUse
  BY <1>2 DEF Packed
<1>4. PICK place \in AllPlaces : place = Places(mem, d)[i]
  BY <1>1, PlaceIs
<1>5. IsBlock(1) => place.block # todo[1].at
  BY <1>2, <1>4, BehindNothing
<1>6. EntryAt(block', place) = EntryAt(block, place)
  BY <1>4, <1>5, EntryKept DEF AllPlaces
<1> QED
  BY <1>3, <1>4, <1>6

LEMMA RestHolds ==
    ASSUME NEW m, Shift(m), TypeOK, NEW s, \A k \in 1..Needed : s[k] \in Blocks, data' = data,
           \A b \in Blocks : block'[b] = IF IsBlock(1) /\ b = todo[1].at THEN todo[1].bytes ELSE block[b],
           Holds(s)
    PROVE  Holds(s)'
<1>1. Needed' = Needed /\ \A k : Chunk(k)' = Chunk(k)
  BY DEF Needed, Chunk
<1> SUFFICES ASSUME NEW k \in 1..Needed
             PROVE  /\ block'[s[k]] = Chunk(k) \/ \E i \in DOMAIN todo' : IsBlock(i)' /\ todo'[i].at = s[k]
                    /\ \A i \in DOMAIN todo' : IsBlock(i)' /\ todo'[i].at = s[k] => todo'[i].bytes = Chunk(k)
  BY <1>1 DEF Holds
<1>2. /\ block[s[k]] = Chunk(k) \/ \E i \in DOMAIN todo : IsBlock(i) /\ todo[i].at = s[k]
      /\ \A i \in DOMAIN todo : IsBlock(i) /\ todo[i].at = s[k] => todo[i].bytes = Chunk(k)
  BY DEF Holds
<1>3. \A i \in 1..m : /\ todo'[i] = todo[i + 1] /\ i \in DOMAIN todo' /\ i + 1 \in DOMAIN todo
                      /\ (IsBlock(i)' <=> IsBlock(i + 1))
  BY RestTyped DEF Shift
<1>4. ASSUME NEW i \in DOMAIN todo', IsBlock(i)', todo'[i].at = s[k] PROVE todo'[i].bytes = Chunk(k)
  <2>1. i \in 1..m
    BY DEF Shift
  <2> QED
    BY <1>2, <1>3, <1>4, <2>1
<1>5. CASE IsBlock(1) /\ todo[1].at = s[k]
  <2>1. block'[s[k]] = todo[1].bytes /\ todo[1].bytes = Chunk(k)
    BY <1>2, <1>5 DEF IsBlock
  <2> QED
    BY <1>4, <2>1
<1>6. CASE ~(IsBlock(1) /\ todo[1].at = s[k]) /\ block[s[k]] = Chunk(k)
  <2>1. block'[s[k]] = block[s[k]]
    BY <1>6
  <2> QED
    BY <1>4, <1>6, <2>1
<1>7. CASE ~(IsBlock(1) /\ todo[1].at = s[k]) /\ \E i \in DOMAIN todo : IsBlock(i) /\ todo[i].at = s[k]
  <2>1. PICK i \in 1..(m + 1) : IsBlock(i) /\ todo[i].at = s[k]
    BY <1>7 DEF Shift
  <2>2. i # 1 /\ m \in Nat
    BY <1>7, <2>1 DEF Shift
  <2>3. PICK l \in 1..m : l + 1 = i
    <3>1. i - 1 \in 1..m /\ (i - 1) + 1 = i
      BY <2>2
    <3> QED
      BY <3>1
  <2>4. IsBlock(l)' /\ todo'[l].at = s[k] /\ l \in DOMAIN todo'
    BY <1>3, <2>1, <2>3
  <2> QED
    BY <1>4, <2>4
<1> QED
  BY <1>2, <1>5, <1>6, <1>7

LEMMA RestComplete ==
    ASSUME TypeOK, Working, pc = "writing", NEW m, Shift(m), SameView(block, block'),
           \A b \in Blocks : block'[b] = IF IsBlock(1) /\ b = todo[1].at THEN todo[1].bytes ELSE block[b],
           UNCHANGED <<mem, path, data, comp, dir>>,
           NEW w, w.entry \in EntrySet, Complete(w), w.at \in AllPlaces,
           \A i \in DOMAIN todo : IsBlock(i) /\ todo[i].at = w.at.block => todo[i].bytes = EmptyDir
    PROVE  Complete(w)'
<1>1. mem \in Fats /\ dir \in Blocks
  BY DEF TypeOK
<1>2. \A i \in 1..m : /\ todo'[i] = todo[i + 1] /\ i \in DOMAIN todo' /\ i + 1 \in DOMAIN todo
                      /\ (IsBlock(i)' <=> IsBlock(i + 1))
  BY RestTyped DEF Shift
<1>3. FirstIn(w.at)'
  <2> SUFFICES ASSUME NEW i \in DOMAIN Places(mem, dir), NEW j \in DOMAIN Places(mem, dir),
                      i < j, Places(mem, dir)[j] = w.at
               PROVE  /\ EntryAt(block', Places(mem, dir)[i]).inUse
                      /\ \A k \in DOMAIN todo' : IsBlock(k)' => todo'[k].at # Places(mem, dir)[i].block
    BY DEF FirstIn
  <2>1. PICK place \in AllPlaces : place = Places(mem, dir)[i]
    BY <1>1, PlaceIs
  <2>2. EntryAt(block, place).inUse /\ \A k \in DOMAIN todo : IsBlock(k) => todo[k].at # place.block
    BY <2>1 DEF Complete, FirstIn
  <2>3. IsBlock(1) => place.block # todo[1].at
    BY <2>2 DEF IsBlock
  <2>4. EntryAt(block', place) = EntryAt(block, place)
    BY <2>1, <2>3, EntryKept DEF AllPlaces
  <2>5. ASSUME NEW k \in DOMAIN todo', IsBlock(k)' PROVE todo'[k].at # place.block
    <3>1. k \in 1..m
      BY DEF Shift
    <3> QED
      BY <1>2, <2>2, <2>5, <3>1
  <2> QED
    BY <2>1, <2>2, <2>4, <2>5
<1>4. LeadsOn(w.entry)'
  <2>1. PICK own : own = FollowChain(mem, w.entry.start)
    OBVIOUS
  <2>2. /\ \A q \in InUse(block) : q.block \notin ToSet(own)
        /\ w.entry.name = path[comp]
        /\ \/ w.entry.dir
           \/ comp = Len(path) /\ w.entry.size = Len(data) /\ Len(own) = Needed /\ Holds(own)
    BY <2>1 DEF Complete, LeadsOn
  <2>3. \A q \in InUse(block') : q.block \notin ToSet(own)
    BY <2>2 DEF SameView
  <2>4. own \in Seq(Blocks)
    BY <1>1, <2>1, ChainTyped DEF EntrySet
  <2>5. ASSUME Len(own) = Needed, Holds(own) PROVE Holds(own)'
    <3>1. \A k \in 1..Needed : own[k] \in Blocks
      BY <2>4, <2>5, ElementOfSeq
    <3> QED
      BY <2>5, <3>1, RestHolds
  <2>6. Needed' = Needed
    BY DEF Needed
  <2>7. own = FollowChain(mem', w.entry.start) /\ w.entry.name = path'[comp']
    BY <2>1, <2>2
  <2>8. \/ w.entry.dir
        \/ comp' = Len(path') /\ w.entry.size = Len(data') /\ Len(own) = Needed' /\ Holds(own)'
    BY <2>2, <2>5, <2>6
  <2> QED
    BY <2>3, <2>7, <2>8 DEF LeadsOn
<1>5. Vacant(w.at)'
  <2> SUFFICES ASSUME \A k \in DOMAIN todo' : IsBlock(k)' => todo'[k].at # w.at.block
               PROVE  ~EntryAt(block', w.at).inUse
    BY DEF Vacant
  <2>1. w.at.block \in Blocks /\ w.at.index \in Slots
    BY DEF AllPlaces
  <2>2. CASE IsBlock(1) /\ todo[1].at = w.at.block
    <3>1. block'[w.at.block] = EmptyDir
      BY <2>1, <2>2 DEF IsBlock
    <3>2. EntryAt(block', w.at) = NoEntry
      BY <2>1, <3>1, EmptyPlain DEF EntryAt
    <3> QED
      BY <3>2 DEF NoEntry
  <2>3. CASE IsBlock(1) => todo[1].at # w.at.block
    <3>1. EntryAt(block', w.at) = EntryAt(block, w.at)
      BY <2>1, <2>3, EntryKept
    <3>2. ASSUME NEW k \in DOMAIN todo, IsBlock(k), k # 1 PROVE todo[k].at # w.at.block
      <4>1. m \in Nat /\ k \in 1..(m + 1)
        BY DEF Shift
      <4>2. PICK l \in 1..m : k = l + 1
        <5>1. k - 1 \in 1..m /\ k = (k - 1) + 1
          BY <3>2, <4>1
        <5> QED
          BY <5>1
      <4> QED
        BY <1>2, <3>2, <4>2
    <3>3. \A k \in DOMAIN todo : IsBlock(k) => todo[k].at # w.at.block
      BY <2>3, <3>2
    <3> QED
      BY <3>1, <3>3 DEF Complete, Vacant
  <2> QED
    BY <2>2, <2>3
<1> QED
  BY <1>3, <1>4, <1>5 DEF Complete

LEMMA RestShown ==
    ASSUME TypeOK, Working, Shown, pc = "writing", NEW m, Shift(m), SameView(block, block'), todo[1].op # "entry",
           \A b \in Blocks : block'[b] = IF IsBlock(1) /\ b = todo[1].at THEN todo[1].bytes ELSE block[b],
           UNCHANGED <<pc, mem, path, data, comp, dir, after>>
    PROVE  Shown'
<1>1. /\ NoneLow(block) /\ Packed(mem, block) /\ WayNamed(mem, block, dir, path, comp - 1) /\ data \in Contents
      /\ Apart /\ (after.do # "fail" /\ todo # <<>> => Complete(todo[Len(todo)]))
  BY DEF Shown
<1>2. mem \in Fats /\ Typed(block) /\ Filling /\ Linking
  BY DEF TypeOK, Typed, Working
<1>3. NoneLow(block')
  BY <1>1 DEF NoneLow, SameView
<1>4. Packed(mem, block')
  BY <1>1, <1>2, RestPacked
<1>5. WayNamed(mem, block', dir, path, comp - 1)
  <2>1. Kept(mem, block, mem, block')
    BY ViewKept DEF SameView
  <2>2. PICK l \in Nat : l = comp - 1
    BY CompPositive
  <2>3. WayNamed(mem, block, dir, path, l)
    BY <1>1, <2>2
  <2>4. WayNamed(mem, block', dir, path, l)
    BY <1>2, <2>1, <2>3, WayNamedKept
  <2> QED
    BY <2>2, <2>4
<1>6. Apart'
  <2>1. Used(mem, block') = Used(mem, block)
    BY <1>2, SoundViewed
  <2> SUFFICES ASSUME NEW i \in DOMAIN todo', IsBlock(i)'
               PROVE  todo'[i].at \notin Used(mem, block) \/ todo'[i].at = Here0[Len(Here0)]
    BY <2>1 DEF Apart, Here0
  <2>2. i \in 1..m /\ IsBlock(i + 1) /\ todo'[i] = todo[i + 1] /\ i + 1 \in DOMAIN todo
    BY RestTyped DEF Shift
  <2> QED
    BY <1>1, <2>2 DEF Apart
<1>7. ASSUME after.do # "fail" PROVE todo' # <<>> /\ Complete(todo[Len(todo)])' /\ todo'[Len(todo')] = todo[Len(todo)]
  <2>1. todo # <<>>
    BY LenProperties, EmptySeq DEF Shift
  <2>2. IsEntry(Len(todo)) /\ Len(todo) \in DOMAIN todo
    BY <1>2, <1>7, <2>1 DEF Linking, IsEntry
  <2>3. Len(todo) # 1
    BY <2>2 DEF IsEntry
  <2>4. m # 0 /\ todo' # <<>>
    BY <2>3 DEF Shift
  <2>5. PICK w : w = todo[Len(todo)] /\ w = todo'[Len(todo')]
    BY <2>4, RestTyped
  <2>6. w.entry \in EntrySet /\ w.at \in AllPlaces
    <3>1. IsWrite(w) /\ w.op = "entry"
      BY <2>2, <2>5 DEF IsEntry, TypeOK
    <3> QED
      BY <3>1 DEF IsWrite
  <2>7. Complete(w) /\ EntryReady(w)
    BY <1>1, <1>2, <1>7, <2>1, <2>5 DEF Linking
  <2>8. Complete(w)'
    <3>1. \A i \in DOMAIN todo : IsBlock(i) /\ todo[i].at = w.at.block => todo[i].bytes = EmptyDir
      BY <2>7 DEF EntryReady
    <3> QED
      BY <2>6, <2>7, <3>1, RestComplete
  <2>9. todo'[Len(todo')] = todo[Len(todo)]
    BY <2>5
  <2> QED
    BY <2>4, <2>5, <2>8, <2>9
<1> QED
  BY <1>1, <1>3, <1>4, <1>5, <1>6, <1>7 DEF Shown

(* The entry is the last write.                                            *)
LEMMA EntryLast ==
    ASSUME Working, pc = "writing", NEW m, Shift(m), IsEntry(1)
    PROVE  /\ 1 = Len(todo) /\ DOMAIN todo = {1} /\ todo' = <<>> /\ DOMAIN todo' = {} /\ todo # <<>>
           /\ after.do # "fail" /\ \A i \in DOMAIN todo : ~IsBlock(i)
<1>1. 1 = Len(todo) /\ after.do # "fail"
  BY DEF Working, Linking, IsEntry
<1>2. m = 0
  BY <1>1 DEF Shift
<1>3. DOMAIN todo = {1} /\ todo' = <<>> /\ DOMAIN todo' = {} /\ todo # <<>>
  BY <1>2 DEF Shift
<1>4. \A i \in DOMAIN todo : ~IsBlock(i)
  BY <1>3 DEF IsBlock, IsEntry
<1> QED
  BY <1>1, <1>3, <1>4

(* It goes behind the others of its directory.                             *)
LEMMA EntryAppends ==
    ASSUME TypeOK, Base, Working, Shown, pc = "writing", NEW m, Shift(m), IsEntry(1), NEW w, w = todo[1],
           block' = EntryPut(w)
    PROVE  /\ Made(w.at, w.entry) /\ EntryReady(w) /\ Complete(w)
           /\ Appended(mem, block, block', dir, w.at, w.entry)
<1>1. /\ 1 = Len(todo) /\ DOMAIN todo = {1} /\ todo # <<>> /\ after.do # "fail"
      /\ \A i \in DOMAIN todo : ~IsBlock(i)
  BY EntryLast
<1>2. Filling /\ Linking /\ Sound(mem, block) /\ WayTo(mem, block, dir, comp)
  BY DEF Working
<1>3. Made(w.at, w.entry) /\ EntryReady(w)
  BY <1>1, <1>2, EntryMade
<1>4. Complete(w) /\ Packed(mem, block)
  BY <1>1 DEF Shown
<1>5. PICK at, e : at = w.at /\ e = w.entry
  OBVIOUS
<1>6. /\ at \in AllPlaces /\ e \in EntrySet /\ at \notin InUse(block) /\ EntryAt(block', at) = e
      /\ OneMore(block, block', at) /\ Typed(block) /\ Typed(block')
  BY <1>3, <1>5 DEF Made
<1>7. mem \in Fats /\ dir \in Blocks /\ at.block \in Blocks /\ DOMAIN block = Blocks
  BY <1>6 DEF TypeOK, AllPlaces
<1>8. PICK o \in Owners(block) : IsDir(block, o) /\ StartOf(block, o) = dir /\ Owned(mem, block, o) = Here0
  BY <1>2, <1>7, CurrentDir DEF Here0
<1>9. IsStart(block, dir)
  BY <1>8 DEF IsStart
<1>10. at.block \in ToSet(FollowChain(mem, dir))
  BY <1>1, <1>3, <1>5 DEF EntryReady, Here0
<1>11. \A b \in Blocks : b # at.block => block'[b] = block[b]
  <2>1. PICK row : block' = [block EXCEPT ![at.block] = row]
    BY <1>5 DEF EntryPut
  <2> QED
    BY <1>7, <2>1
<1>12. ~EntryAt(block, at).inUse
  BY <1>1, <1>4, <1>5 DEF Complete, Vacant
<1>13. ASSUME NEW i \in DOMAIN Places(mem, dir), NEW j \in DOMAIN Places(mem, dir), Shows(mem, block, dir, j),
              Places(mem, dir)[i] = at
       PROVE  j < i
  <2>1. i \in Nat /\ j \in Nat
    BY <1>7, PlaceIs
  <2>2. i # j
    BY <1>6, <1>13 DEF Shows
  <2>3. ~(i < j)
    BY <1>4, <1>7, <1>9, <1>12, <1>13 DEF Packed
  <2> QED
    BY <2>1, <2>2, <2>3
<1>14. \A p \in InUse(block') : p.block \notin ToSet(FollowChain(mem, e.start))
  <2>1. at.block \in Used(mem, block)
    BY <1>8, <1>10 DEF Used, Here0
  <2>2. at.block \notin ToSet(FollowChain(mem, e.start))
    BY <1>3, <1>5, <2>1 DEF EntryReady
  <2>3. \A p \in InUse(block) : p.block \notin ToSet(FollowChain(mem, e.start))
    BY <1>4, <1>5 DEF Complete, LeadsOn
  <2> QED
    BY <1>6, <2>2, <2>3 DEF OneMore
<1>15. Appended(mem, block, block', dir, at, e)
  BY <1>2, <1>6, <1>7, <1>9, <1>10, <1>11, <1>13, <1>14 DEF Appended
<1> QED
  BY <1>3, <1>4, <1>5, <1>15

(* Directories stay packed.                                                *)
LEMMA AppendPacks ==
    ASSUME NEW f, NEW blk, NEW new, NEW d, NEW at, NEW e, Appended(f, blk, new, d, at, e), Packed(f, blk),
           \A p \in AllPlaces : p # at => EntryAt(new, p) = EntryAt(blk, p),
           \A i, j \in DOMAIN Places(f, d) :
               i < j /\ Places(f, d)[j] = at => EntryAt(blk, Places(f, d)[i]).inUse
    PROVE  Packed(f, new)
<1> SUFFICES ASSUME NEW a \in Blocks, IsStart(new, a), NEW i \in DOMAIN Places(f, a),
                    NEW j \in DOMAIN Places(f, a), i < j, Shows(f, new, a, j)
             PROVE  EntryAt(new, Places(f, a)[i]).inUse
  BY DEF Packed
<1>1. /\ f \in Fats /\ OneMore(blk, new, at) /\ at.block \in ToSet(FollowChain(f, d)) /\ at \in AllPlaces
      /\ EntryAt(new, at) = e /\ e \in EntrySet /\ Typed(blk) /\ Typed(new)
      /\ \A b \in Blocks : b # at.block => new[b] = blk[b]
      /\ \A p \in InUse(new) : p.block \notin ToSet(FollowChain(f, e.start))
  BY DEF Appended
<1>2. PICK p \in InUse(new) : p = Places(f, a)[j] /\ p.block \in ToSet(FollowChain(f, a))
  <2>1. Places(f, a)[j].block \in ToSet(FollowChain(f, a)) /\ Places(f, a)[j] \in InUse(new)
    BY <1>1, PlacesTyped DEF Shows
  <2> QED
    BY <2>1
<1>3. IsStart(blk, a)
  <2>1. PICK o \in Owners(new) : IsDir(new, o) /\ StartOf(new, o) = a
    BY DEF IsStart
  <2>2. CASE o = RootPlace
    BY <2>1, <2>2, RootStarts DEF StartOf
  <2>3. CASE o # RootPlace /\ o = at
    <3>1. a = e.start
      BY <1>1, <2>1, <2>3 DEF StartOf
    <3> QED
      BY <1>1, <1>2, <3>1
  <2>4. CASE o # RootPlace /\ o # at
    <3>1. o \in InUse(blk) /\ EntryAt(new, o) = EntryAt(blk, o)
      BY <1>1, <2>1, <2>4 DEF OneMore, Owners
    <3> QED
      BY <2>1, <2>4, <3>1 DEF IsStart, IsDir, StartOf, Owners
  <2> QED
    BY <2>2, <2>3, <2>4
<1>4. PICK place \in AllPlaces : place = Places(f, a)[i]
  BY <1>1, PlaceIs
<1>5. EntryAt(blk, place).inUse
  <2>1. CASE p = at
    <3>1. a = d
      BY <1>2, <1>3, <2>1, OnlyHere
    <3> QED
      BY <1>2, <1>4, <2>1, <3>1
  <2>2. CASE p # at
    <3>1. Shows(f, blk, a, j)
      BY <1>1, <1>2, <2>2 DEF Shows, OneMore
    <3> QED
      BY <1>3, <1>4, <3>1 DEF Packed
  <2> QED
    BY <2>1, <2>2
<1>6. CASE place = at
  BY <1>1, <1>4, <1>6 DEF EntrySet
<1>7. CASE place # at
  BY <1>4, <1>5, <1>7
<1> QED
  BY <1>6, <1>7

(* What the last write leaves.                                             *)
LEMMA EntryShown ==
    ASSUME TypeOK, Base, Working, Shown, pc = "writing", NEW m, Shift(m), IsEntry(1), NEW w, w = todo[1],
           block' = EntryPut(w),
           UNCHANGED <<pc, mem, path, data, comp, dir, after>>
    PROVE  Shown'
<1>1. /\ todo' = <<>> /\ DOMAIN todo' = {} /\ after.do # "fail" /\ \A i \in DOMAIN todo : ~IsBlock(i)
  BY EntryLast
<1>2. /\ Made(w.at, w.entry) /\ EntryReady(w) /\ Complete(w)
      /\ Appended(mem, block, block', dir, w.at, w.entry)
  BY EntryAppends
<1>3. PICK at, e : at = w.at /\ e = w.entry
  OBVIOUS
<1>4. /\ at \in AllPlaces /\ e \in EntrySet /\ at \notin InUse(block) /\ EntryAt(block', at) = e
      /\ OneMore(block, block', at) /\ Typed(block) /\ Typed(block')
      /\ \A p \in AllPlaces : p # at => EntryAt(block', p) = EntryAt(block, p)
  BY <1>2, <1>3 DEF Made
<1>5. mem \in Fats /\ dir \in Blocks /\ Sound(mem, block) /\ WayTo(mem, block, dir, comp)
  BY DEF TypeOK, Working
<1>6. /\ NoneLow(block) /\ Packed(mem, block) /\ WayNamed(mem, block, dir, path, comp - 1) /\ data \in Contents
  BY DEF Shown
<1>7. at.block \in ToSet(FollowChain(mem, dir))
  BY <1>1, <1>2, <1>3 DEF EntryReady, Here0
<1>8. NoneLow(block')
  <2>1. PICK o \in Owners(block) : Owned(mem, block, o) = FollowChain(mem, dir)
    BY <1>5, CurrentDir
  <2>2. at.block \in Used(mem, block)
    BY <1>7, <2>1 DEF Used
  <2>3. at.block \notin {FREE, RESERVED}
    BY <1>5, <2>2, UsedMarked
  <2> QED
    BY <1>4, <1>6, <2>3 DEF NoneLow, OneMore
<1>9. Packed(mem, block')
  <2>1. \A i, j \in DOMAIN Places(mem, dir) :
            i < j /\ Places(mem, dir)[j] = at => EntryAt(block, Places(mem, dir)[i]).inUse
    BY <1>2, <1>3 DEF Complete, FirstIn
  <2>2. Appended(mem, block, block', dir, at, e)
    BY <1>2, <1>3
  <2> QED
    BY <1>4, <1>6, <2>1, <2>2, AppendPacks
<1>10. WayNamed(mem, block', dir, path, comp - 1)
  <2>1. Kept(mem, block, mem, block')
    BY <1>4, ViewKept DEF OneMore
  <2>2. PICK l \in Nat : l = comp - 1
    BY CompPositive
  <2>3. WayNamed(mem, block, dir, path, l)
    BY <1>6, <2>2
  <2>4. WayNamed(mem, block', dir, path, l)
    BY <1>4, <2>1, <2>3, WayNamedKept
  <2> QED
    BY <2>2, <2>4
<1>11. Apart'
  BY <1>1 DEF Apart
<1>12. ASSUME after.do = "descend" PROVE SubNamed(mem, block', dir, after.start, path[comp])
  <2>1. e.dir /\ e.start = after.start /\ e.name = path[comp]
    BY <1>2, <1>3, <1>12 DEF EntryReady, Complete, LeadsOn
  <2>2. at \in InUse(block')
    BY <1>4 DEF OneMore
  <2> QED
    BY <1>4, <1>7, <2>1, <2>2 DEF SubNamed
<1> QED
  BY <1>1, <1>6, <1>8, <1>9, <1>10, <1>11, <1>12 DEF Shown

LEMMA WriteShown ==
    ASSUME TypeOK, Base, Working, Shown, Write
    PROVE  Shown'
<1>1. /\ pc = "writing" /\ todo # <<>> /\ todo' = Tail(todo)
      /\ block' = BlockAfter(Head(todo))
      /\ UNCHANGED <<pc, mem, path, data, comp, dir, after>>
  BY DEF Write
<1>2. PICK m : Shift(m)
  BY <1>1, Shifted
<1>3. Head(todo) = todo[1] /\ 1 \in DOMAIN todo
  BY <1>2 DEF Shift
<1>4. IsWrite(todo[1]) /\ Filling
  BY <1>1, <1>3 DEF TypeOK, Working
<1>5. CASE todo[1].op = "fat"
  <2>1. block' = block /\ ~IsBlock(1)
    BY <1>1, <1>3, <1>5 DEF BlockAfter, IsBlock
  <2>2. SameView(block, block')
    BY <2>1 DEF SameView
  <2>3. \A b \in Blocks : block'[b] = IF IsBlock(1) /\ b = todo[1].at THEN todo[1].bytes ELSE block[b]
    BY <2>1
  <2>4. todo[1].op # "entry"
    BY <1>5
  <2> QED
    BY <1>1, <1>2, <2>2, <2>3, <2>4, RestShown
<1>6. CASE todo[1].op = "block"
  <2>1. block' = [block EXCEPT ![todo[1].at] = todo[1].bytes] /\ IsBlock(1)
    BY <1>1, <1>3, <1>6 DEF BlockAfter, IsBlock
  <2>2. /\ SameView(block, block') /\ block'[todo[1].at] = todo[1].bytes
        /\ \A b \in Blocks : b # todo[1].at => block'[b] = block[b]
    BY <1>4, <2>1, BlockWriteView
  <2>3. \A b \in Blocks : block'[b] = IF IsBlock(1) /\ b = todo[1].at THEN todo[1].bytes ELSE block[b]
    BY <2>1, <2>2
  <2>4. todo[1].op # "entry"
    BY <1>6
  <2> QED
    BY <1>1, <1>2, <2>2, <2>3, <2>4, RestShown
<1>7. CASE todo[1].op = "entry"
  <2>1. PICK w : w = todo[1]
    OBVIOUS
  <2>2. IsEntry(1) /\ block' = EntryPut(w)
    BY <1>1, <1>3, <1>7, <2>1 DEF BlockAfter, IsEntry, EntryPut
  <2> QED
    BY <1>1, <1>2, <2>1, <2>2, EntryShown
<1> QED
  BY <1>4, <1>5, <1>6, <1>7 DEF IsWrite

----------------------------------------------------------------------------
(* ... and what diskget finds then.                                        *)

(* What diskget would find with the FAT that diskput has in memory.        *)
FoundAhead == \A q \in Paths : Get(fat, block, q) = Get(mem, block, q)

LEMMA BlockWriteSame ==
    ASSUME TypeOK, Working, Shown, pc = "writing", IsBlock(1),
           block' = [block EXCEPT ![todo[1].at] = todo[1].bytes], NEW q \in Paths
    PROVE  Get(mem, block', q) = Get(mem, block, q)
<1>1. mem \in Fats /\ Typed(block) /\ Sound(mem, block) /\ Filling /\ WayTo(mem, block, dir, comp) /\ Apart
  BY DEF TypeOK, Typed, Working, Shown
<1>2. /\ SameView(block, block') /\ todo[1].at \in Blocks
      /\ \A b \in Blocks : b # todo[1].at => block'[b] = block[b]
  BY <1>1, BlockWriteView
<1>3. PICK o \in Owners(block) : IsDir(block, o) /\ Owned(mem, block, o) = Here0
  BY <1>1, CurrentDir DEF Here0
<1>4. Here0 \in Seq(Blocks) /\ Len(Here0) > 0
  BY <1>1, <1>3 DEF Sound, IsChain, IsPath
<1>5. Here0[Len(Here0)] \in ToSet(Here0)
  <2>1. Len(Here0) \in Nat
    BY <1>4, LenProperties
  <2>2. Len(Here0) \in 1..Len(Here0)
    BY <1>4, <2>1
  <2> QED
    BY <1>4, <2>2, ToSetMeaning
<1>6. ASSUME NEW p \in InUse(block), ~EntryAt(block, p).dir, NEW x \in ToSet(Owned(mem, block, p))
      PROVE  block'[x] = block[x]
  <2>1. p \in Owners(block) /\ p # RootPlace
    BY <1>1, OwnersTyped
  <2>2. x \in Used(mem, block) /\ x \in Blocks
    BY <1>1, <1>6, <2>1, UsedMarked DEF Used
  <2>3. x # Here0[Len(Here0)]
    <3> SUFFICES ASSUME x = Here0[Len(Here0)] PROVE FALSE
      OBVIOUS
    <3>1. p = o
      BY <1>1, <1>3, <1>5, <1>6, <2>1, OneOwner
    <3> QED
      BY <1>3, <1>6, <2>1, <3>1 DEF IsDir
  <2>4. 1 \in DOMAIN todo
    BY DEF IsBlock
  <2> QED
    BY <1>1, <1>2, <2>2, <2>3, <2>4 DEF Apart
<1>7. SameImage(mem, block, mem, block')
  BY <1>1, <1>2, <1>6, ViewImage
<1> QED
  BY <1>1, <1>7, SameGet

LEMMA PathIs ==
    ASSUME NEW q \in Paths, NEW n \in Nat, Len(q) = n + 1, NEW h \in Paths, Len(h) = n + 1,
           \A i \in 1..n : q[i] = h[i], q[n + 1] = h[n + 1]
    PROVE  q = h
<1>1. q \in [1..(n + 1) -> Names] /\ h \in [1..(n + 1) -> Names]
  <2>1. PICK a \in Nat : Len(q) = a + 1 /\ q \in [1..(a + 1) -> Names]
    BY PathShape
  <2>2. PICK c \in Nat : Len(h) = c + 1 /\ h \in [1..(c + 1) -> Names]
    BY PathShape
  <2>3. a = n /\ c = n
    BY <2>1, <2>2
  <2> QED
    BY <2>1, <2>2, <2>3
<1>2. \A i \in 1..(n + 1) : i \in 1..n \/ i = n + 1
  OBVIOUS
<1>3. \A i \in 1..(n + 1) : q[i] = h[i]
  BY <1>2
<1> QED
  BY <1>1, <1>3

(* The bytes of a file are in place before its entry.                      *)
LEMMA EntryShowsData ==
    ASSUME TypeOK, NEW w, Complete(w), Appended(mem, block, block', dir, w.at, w.entry), EntryReady(w),
           \A i \in DOMAIN todo : ~IsBlock(i), pc = "writing", WayTo(mem, block, dir, comp), ~w.entry.dir
    PROVE  /\ Extract(mem, block', w.entry) = data
           /\ comp = Len(path) /\ w.entry.name = path[comp]
<1>1. PICK at, e : at = w.at /\ e = w.entry
  OBVIOUS
<1>2. PICK own : own = FollowChain(mem, e.start)
  OBVIOUS
<1>3. e.name = path[comp] /\ comp = Len(path) /\ e.size = Len(data) /\ Len(own) = Needed /\ Holds(own)
  BY <1>1, <1>2 DEF Complete, LeadsOn
<1>4. mem \in Fats /\ e \in EntrySet /\ data \in Seq(ToSet(data)) /\ \A b \in Blocks : b # at.block => block'[b] = block[b]
  BY <1>1 DEF TypeOK, Appended
<1>5. own \in Seq(Blocks)
  BY <1>2, <1>4, ChainTyped DEF EntrySet
<1>6. at.block \notin ToSet(own)
  <2>1. PICK o \in Owners(block) : Owned(mem, block, o) = Here0
    BY <1>4, CurrentDir DEF Here0
  <2>2. at.block \in Used(mem, block)
    BY <1>1, <2>1 DEF EntryReady, Used
  <2> QED
    BY <1>1, <1>2, <2>2 DEF EntryReady
<1>7. ASSUME NEW k \in 1..Needed PROVE block'[own[k]] = Chunk(k)
  <2>1. own[k] \in Blocks /\ own[k] \in ToSet(own)
    BY <1>3, <1>5, ElementOfSeq, ToSetMeaning
  <2>2. block[own[k]] = Chunk(k)
    BY <1>3 DEF Holds
  <2> QED
    BY <1>4, <1>6, <2>1, <2>2
<1>8. Extract(mem, block', e) = data
  BY <1>2, <1>3, <1>4, <1>5, <1>7, ExtractsData
<1> QED
  BY <1>1, <1>3, <1>8

(* The entry shows its file, and nothing else.                             *)
LEMMA EntryShowsOne ==
    ASSUME TypeOK, Base, Working, Shown, pc = "writing", NEW m, Shift(m), IsEntry(1), NEW w, w = todo[1],
           block' = EntryPut(w), NEW q \in Paths
    PROVE  \/ Get(mem, block', q) = Get(mem, block, q)
           \/ q = path /\ Get(mem, block, q) = {} /\ Get(mem, block', q) = {data}
<1>1. /\ EntryReady(w) /\ Complete(w)
      /\ Appended(mem, block, block', dir, w.at, w.entry)
  BY EntryAppends
<1>2. \A i \in DOMAIN todo : ~IsBlock(i)
  BY EntryLast
<1>3. PICK at, e : at = w.at /\ e = w.entry
  OBVIOUS
<1>4. mem \in Fats /\ Typed(block) /\ dir \in Blocks /\ Sound(mem, block) /\ WayTo(mem, block, dir, comp) /\ path \in Paths
  BY DEF TypeOK, Typed, Working
<1>5. PICK n \in Nat : Len(q) = n + 1
  BY PathShape
<1>6. \/ Get(mem, block', q) = Get(mem, block, q)
      \/ /\ Get(mem, block, q) = {} /\ Get(mem, block', q) = {Extract(mem, block', e)} /\ ~e.dir
         /\ WayNamed(mem, block, dir, q, n) /\ q[n + 1] = e.name
  <2>1. Appended(mem, block, block', dir, at, e)
    BY <1>1, <1>3
  <2>2. PICK new : new = block'
    OBVIOUS
  <2>3. Appended(mem, block, new, dir, at, e) /\ q \in Paths /\ n \in Nat /\ Len(q) = n + 1
    BY <1>5, <2>1, <2>2
  <2>4. \/ Get(mem, new, q) = Get(mem, block, q)
        \/ /\ Get(mem, block, q) = {} /\ Get(mem, new, q) = {Extract(mem, new, e)} /\ ~e.dir
           /\ WayNamed(mem, block, dir, q, n) /\ q[n + 1] = e.name
    BY ONLY <2>3, GetAfter
  <2> QED
    BY <2>2, <2>4
<1>7. ASSUME Get(mem, block, q) = {}, Get(mem, block', q) = {Extract(mem, block', e)}, ~e.dir,
             WayNamed(mem, block, dir, q, n), q[n + 1] = e.name
      PROVE  q = path /\ Get(mem, block', q) = {data}
  <2>1. Extract(mem, block', e) = data /\ comp = Len(path) /\ e.name = path[comp]
    BY <1>1, <1>2, <1>3, <1>4, <1>7, EntryShowsData
  <2>2. PICK l \in Nat : l = comp - 1 /\ comp = l + 1
    BY CompPositive
  <2>3. WayNamed(mem, block, dir, path, l)
    BY <2>2 DEF Shown
  <2>4. n = l /\ \A i \in 1..n : q[i] = path[i]
    BY <1>4, <1>7, <2>3, WaysUnique
  <2>5. Len(path) = n + 1 /\ q[n + 1] = path[n + 1]
    BY <1>7, <2>1, <2>2, <2>4
  <2>6. q = path
    BY <1>4, <1>5, <2>4, <2>5, PathIs
  <2> QED
    BY <1>7, <2>1, <2>6
<1> QED
  BY <1>6, <1>7

FilesFound == files = [p \in Paths |-> Get(fat, block, p)]
PutsOne == \E p \in Paths, content \in Contents : files[p] = {} /\ files' = [files EXCEPT ![p] = {content}]

LEMMA WriteFiles ==
    ASSUME TypeOK, Base, Working, Shown, Write, FoundAhead, FoundAhead', FilesFound
    PROVE  files' = files \/ PutsOne
<1>1. /\ pc = "writing" /\ todo # <<>> /\ todo' = Tail(todo)
      /\ fat' = FatAfter(Head(todo)) /\ block' = BlockAfter(Head(todo))
      /\ files' = [p \in Paths |-> Get(fat', block', p)]
      /\ UNCHANGED <<pc, mem, path, data, comp, dir, after>>
  BY DEF Write
<1>2. PICK m : Shift(m)
  BY <1>1, Shifted
<1>3. Head(todo) = todo[1] /\ 1 \in DOMAIN todo
  BY <1>2 DEF Shift
<1>4. IsWrite(todo[1])
  BY <1>3 DEF TypeOK
<1>5. \A q \in Paths : files[q] = Get(mem, block, q) /\ files'[q] = Get(mem, block', q)
  BY <1>1 DEF FoundAhead, FilesFound
<1>6. DOMAIN files = Paths /\ DOMAIN files' = Paths
  BY <1>1 DEF FilesFound
<1>7. ASSUME \A q \in Paths : Get(mem, block', q) = Get(mem, block, q) PROVE files' = files
  <2>1. \A q \in Paths : Get(fat', block', q) = Get(fat, block, q)
    BY <1>1, <1>7 DEF FoundAhead
  <2> QED
    BY <1>1, <2>1 DEF FilesFound
<1>8. CASE todo[1].op = "fat"
  <2>1. block' = block
    BY <1>1, <1>3, <1>8 DEF BlockAfter
  <2> QED
    BY <1>7, <2>1
<1>9. CASE todo[1].op = "block"
  <2>1. block' = [block EXCEPT ![todo[1].at] = todo[1].bytes] /\ IsBlock(1)
    BY <1>1, <1>3, <1>9 DEF BlockAfter, IsBlock
  <2>2. \A q \in Paths : Get(mem, block', q) = Get(mem, block, q)
    BY <1>1, <2>1, BlockWriteSame
  <2> QED
    BY <1>7, <2>2
<1>10. CASE todo[1].op = "entry"
  <2>1. PICK w : w = todo[1]
    OBVIOUS
  <2>2. IsEntry(1) /\ block' = EntryPut(w)
    BY <1>1, <1>3, <1>10, <2>1 DEF BlockAfter, IsEntry, EntryPut
  <2>3. ASSUME NEW q \in Paths
        PROVE  \/ Get(mem, block', q) = Get(mem, block, q)
               \/ q = path /\ Get(mem, block, q) = {} /\ Get(mem, block', q) = {data}
    BY <1>1, <1>2, <2>1, <2>2, EntryShowsOne
  <2>4. path \in Paths /\ data \in Contents
    BY <1>1 DEF TypeOK, Shown
  <2>5. CASE Get(mem, block', path) = Get(mem, block, path)
    <3>1. \A q \in Paths : Get(mem, block', q) = Get(mem, block, q)
      BY <2>3, <2>5
    <3> QED
      BY <1>7, <3>1
  <2>6. CASE Get(mem, block', path) # Get(mem, block, path)
    <3>1. files[path] = {} /\ files'[path] = {data}
      BY <1>5, <2>3, <2>4, <2>6
    <3>2. \A q \in Paths : q # path => files'[q] = files[q]
      BY <1>5, <2>3
    <3>3. files' = [files EXCEPT ![path] = {data}]
      <4>1. files' = [q \in Paths |-> files'[q]] /\ files = [q \in Paths |-> files[q]]
        BY <1>1 DEF FilesFound
      <4> HIDE <1>1
      <4> QED
        BY <1>6, <2>4, <3>1, <3>2, <4>1
    <3> QED
      BY <2>4, <3>1, <3>3 DEF PutsOne
  <2> QED
    BY <2>5, <2>6
<1> QED
  BY <1>4, <1>8, <1>9, <1>10 DEF IsWrite

----------------------------------------------------------------------------
(* What a decision leaves of it.                                           *)

(* A decision changes no chain that is there, but for the directory's end. *)
LEMMA SameAlike ==
    ASSUME NEW f \in Fats, NEW g \in Fats, NEW blk, Typed(blk), Sound(f, blk),
           \A x \in Used(f, blk) : g[x] = f[x]
    PROVE  Alike(f, g, blk)
<1> SUFFICES ASSUME NEW d \in Blocks, IsStart(blk, d)
             PROVE  \E m : Overlaps(FollowChain(f, d), FollowChain(g, d), blk, m)
  BY DEF Alike
<1>1. PICK o \in Owners(blk) : StartOf(blk, o) = d
  BY DEF IsStart
<1>2. Owned(g, blk, o) = Owned(f, blk, o)
  BY SoundSame
<1>3. FollowChain(f, d) = FollowChain(g, d)
  BY <1>1, <1>2 DEF Owned
<1> QED
  BY <1>3, OverlapSame

LEMMA PlanPacked ==
    ASSUME Deciding, NEW f, NEW O, NEW A, OwnPlan(f, O, A), Packed(mem, block)
    PROVE  Packed(f, block)
<1>1. /\ f \in Fats /\ mem \in Fats /\ Typed(block) /\ Sound(mem, block)
      /\ Used(f, block) = Used(mem, block) /\ O \cap Used(f, block) = {}
  BY PlanBase DEF Deciding, Working
<1>2. \A x \in Used(mem, block) : f[x] = mem[x]
  <2>1. \A x \in Used(mem, block) : x \in Blocks \ O
    BY <1>1, UsedMarked
  <2> QED
    BY <2>1 DEF OwnPlan
<1>3. Alike(mem, f, block)
  BY <1>1, <1>2, SameAlike
<1> QED
  BY <1>1, <1>3, AlikePacked

LEMMA GrownPacked ==
    ASSUME Deciding, NEW f, NEW O, NEW A, OwnPlan(f, O, A), Packed(mem, block),
           NEW new \in Blocks, f[new] = FREE,
           NEW s, s = FollowChain(f, dir), NEW g, g = NewBlockEnded(f, Last(s), new)
    PROVE  Packed(g, block)
<1>1. /\ f \in Fats /\ Typed(block) /\ Sound(f, block) /\ WayTo(f, block, dir, comp)
  BY PlanBase
<1>2. Packed(f, block)
  BY PlanPacked
<1>3. PICK last : last = Last(s)
  OBVIOUS
<1>4. /\ g \in Fats /\ Longer(s, Len(s), new, FollowChain(g, dir))
      /\ Len(s) \in Nat /\ Len(s) > 0 /\ last = s[Len(s)] /\ new \notin Used(f, block)
      /\ \A b \in Blocks : b # last /\ b # new => g[b] = f[b]
      /\ \A p \in InUse(block) : p.block # new
  BY <1>3, PlanGrown
<1>5. PICK o \in Owners(block) : IsDir(block, o) /\ Owned(f, block, o) = s /\ StartOf(block, o) = dir
  BY <1>1, CurrentDir DEF Deciding
<1>6. last \in ToSet(s)
  <2>1. s \in Seq(Blocks)
    BY <1>1, <1>5 DEF Sound, IsChain, IsPath
  <2>2. Len(s) \in 1..Len(s)
    BY <1>4
  <2> QED
    BY <1>4, <2>1, <2>2, ToSetMeaning
<1>7. \A x \in Used(f, block) \ ToSet(Owned(f, block, o)) : g[x] = f[x]
  <2>1. \A x \in Used(f, block) : x \in Blocks
    BY <1>1, UsedMarked
  <2> QED
    BY <1>4, <1>5, <1>6, <2>1
<1>8. PICK t : t = FollowChain(g, dir)
  OBVIOUS
<1>9. PICK n \in Nat : n = Len(s)
  BY <1>4
<1>10. Len(t) = n + 1 /\ (\A i \in 1..n : t[i] = s[i]) /\ t[n + 1] = new
  BY <1>4, <1>8, <1>9 DEF Longer
<1>11. dir \in Blocks /\ \A p \in InUse(block) : p.block # t[n + 1]
  BY <1>4, <1>10 DEF Deciding, TypeOK
<1>12. Overlaps(s, t, block, n)
  BY <1>1, <1>4, <1>8, <1>9, <1>10, <1>11, OverlapLonger
<1>13. \E m : Overlaps(Owned(f, block, o), Owned(g, block, o), block, m)
  BY <1>5, <1>8, <1>12 DEF Owned
<1>14. Alike(f, g, block)
  BY <1>1, <1>4, <1>5, <1>7, <1>13, AlikeButOne
<1> QED
  BY <1>1, <1>2, <1>4, <1>14, AlikePacked

(* A directory has a place once.                                           *)
LEMMA PlacesOnce ==
    ASSUME NEW f \in Fats, NEW d \in Blocks, IsChain(f, FollowChain(f, d)),
           NEW i \in DOMAIN Places(f, d), NEW j \in DOMAIN Places(f, d), Places(f, d)[i] = Places(f, d)[j]
    PROVE  i = j
<1>1. PICK s : s = FollowChain(f, d)
  OBVIOUS
<1>2. /\ Places(f, d)[i] = [block |-> s[Row(i)], index |-> Col(i)]
      /\ i \in Nat /\ i > 0 /\ Row(i) \in 1..Len(s)
  BY <1>1, PlaceIs
<1>3. /\ Places(f, d)[j] = [block |-> s[Row(j)], index |-> Col(j)]
      /\ j \in Nat /\ j > 0 /\ Row(j) \in 1..Len(s)
  BY <1>1, PlaceIs
<1>4. s[Row(i)] = s[Row(j)] /\ Col(i) = Col(j)
  <2>1. Places(f, d)[i].block = s[Row(i)] /\ Places(f, d)[i].index = Col(i)
    BY <1>2
  <2>2. Places(f, d)[j].block = s[Row(j)] /\ Places(f, d)[j].index = Col(j)
    BY <1>3
  <2> QED
    BY <2>1, <2>2
<1>5. Row(i) = Row(j)
  BY <1>1, <1>2, <1>3, <1>4 DEF IsChain
<1>6. i = EntriesPerBlock * (Row(i) - 1) + Col(i) + 1
  BY <1>2, RowMeaning
<1>7. j = EntriesPerBlock * (Row(j) - 1) + Col(j) + 1
  BY <1>3, RowMeaning
<1> QED
  BY <1>4, <1>5, <1>6, <1>7

(* A search that passes over nothing finds the first free place.           *)
LEMMA FreeSlotFirst ==
    ASSUME NEW f \in Fats, NEW blk, NEW b \in Blocks, IsChain(f, FollowChain(f, b))
    PROVE  /\ FreeSlot(f, blk, b, {}) = <<>> =>
                  \A i \in DOMAIN Places(f, b) : EntryAt(blk, Places(f, b)[i]).inUse
           /\ FreeSlot(f, blk, b, {}) # <<>> =>
                  \A i, j \in DOMAIN Places(f, b) :
                      i < j /\ Places(f, b)[j] = FreeSlot(f, blk, b, {})[1] =>
                          EntryAt(blk, Places(f, b)[i]).inUse
<1> DEFINE free(place) == ~EntryAt(blk, place).inUse
           hits == {j \in DOMAIN Places(f, b) : Places(f, b)[j].block \notin {} /\ free(Places(f, b)[j])}
<1>1. FreeSlot(f, blk, b, {}) = IF hits = {} THEN <<>> ELSE <<Places(f, b)[Min(hits)]>>
  BY DEF FreeSlot, FirstPlace
<1>2. hits \in SUBSET Nat
  BY PlacesTyped
<1>3. \A j \in DOMAIN Places(f, b) : j \notin hits => EntryAt(blk, Places(f, b)[j]).inUse
  OBVIOUS
<1>4. hits \subseteq DOMAIN Places(f, b) /\ DOMAIN Places(f, b) \in SUBSET Nat
  BY PlacesTyped
<1> HIDE DEF hits
<1>5. CASE hits = {}
  <2>1. FreeSlot(f, blk, b, {}) = <<>>
    BY <1>1, <1>5
  <2> QED
    BY <1>3, <1>5, <2>1
<1>6. CASE hits # {}
  <2>1. PICK m \in hits : \A n \in hits : m <= n
    BY <1>2, <1>6, Least
  <2>2. Min(hits) = m
    BY <1>2, <2>1, MinIs
  <2>3. PICK slot : slot = FreeSlot(f, blk, b, {}) /\ slot = <<Places(f, b)[m]>>
    BY <1>1, <1>6, <2>2
  <2>4. slot # <<>> /\ slot[1] = Places(f, b)[m]
    BY <2>3
  <2>5. ASSUME NEW i \in DOMAIN Places(f, b), NEW j \in DOMAIN Places(f, b), i < j,
               Places(f, b)[j] = slot[1]
        PROVE  EntryAt(blk, Places(f, b)[i]).inUse
    <3>1. j = m
      BY <1>4, <2>1, <2>4, <2>5, PlacesOnce
    <3>2. i \notin hits
      BY <1>2, <1>4, <2>1, <2>5, <3>1
    <3> QED
      BY <1>3, <3>2
  <2> QED
    BY <2>3, <2>4, <2>5
<1> QED
  BY <1>5, <1>6

(* A block written by the plan itself, or one of the directory's new end.  *)
EndsThere(g, O, W) ==
    \A k \in 1..Len(W) : W[k].op = "block" =>
        W[k].at = FollowChain(g, dir)[Len(FollowChain(g, dir))] /\ W[k].at \notin O

FirstPlaceOf(g, W, at) ==
    /\ \A i, j \in DOMAIN Places(g, dir) :
           i < j /\ Places(g, dir)[j] = at =>
               /\ EntryAt(block, Places(g, dir)[i]).inUse
               /\ \A k \in 1..Len(W) : W[k].op = "block" => W[k].at # Places(g, dir)[i].block
    /\ EntryAt(block, at).inUse => \E k \in 1..Len(W) : W[k].op = "block" /\ W[k].at = at.block

LEMMA LaidBlocks ==
    ASSUME NEW A, NEW W, NEW w, w.op = "entry", Laid(todo', A, W, w), NEW i \in DOMAIN todo', IsBlock(i)'
    PROVE  \/ \E k \in 1..Len(A) : todo'[i] = A[k] /\ A[k].op = "block"
           \/ \E k \in 1..Len(W) : todo'[i] = W[k] /\ W[k].op = "block"
<1>1. todo'[i].op = "block"
  BY DEF IsBlock
<1>2. /\ \A k \in 1..Len(A) : todo'[k] = A[k]
      /\ \A k \in 1..Len(W) : todo'[Len(A) + k] = W[k]
      /\ todo'[Len(todo')] = w
      /\ i \in 1..Len(A) \/ (\E k \in 1..Len(W) : i = Len(A) + k) \/ i = Len(todo')
  BY DEF Laid
<1>3. i # Len(todo')
  BY <1>1, <1>2
<1>4. CASE i \in 1..Len(A)
  BY <1>1, <1>2, <1>4
<1>5. CASE \E k \in 1..Len(W) : i = Len(A) + k
  BY <1>1, <1>2, <1>5
<1> QED
  BY <1>2, <1>3, <1>4, <1>5

LEMMA PlanShown ==
    ASSUME Deciding, NoneLow(block), data \in Contents,
           NEW f, NEW O, NEW A, OwnPlan(f, O, A), NEW e, NEW next, EntryPlan(f, O, e, next), Enters(f, A, e),
           NEW g, NEW W, NEW at,
           g \in Fats, Packed(g, block), WayNamed(g, block, dir, path, comp - 1),
           O \cap Used(g, block) = {}, ToSet(FollowChain(g, dir)) \subseteq Used(g, block),
           FollowChain(g, e.start) = FollowChain(f, e.start), EndsThere(g, O, W), FirstPlaceOf(g, W, at),
           pc' = "writing", mem' = g, Laid(todo', A, W, EntryWrite(at, e)), after' = next,
           UNCHANGED <<block, path, data, comp, dir>>
    PROVE  Shown'
<1>1. PICK w : w = EntryWrite(at, e)
  OBVIOUS
<1>2. w.op = "entry" /\ w.at = at /\ w.entry = e
  BY <1>1 DEF EntryWrite
<1>3. Laid(todo', A, W, w)
  BY <1>1
<1>4. /\ todo' # <<>> /\ todo'[Len(todo')] = w /\ DOMAIN todo' = 1..(Len(A) + Len(W) + 1)
      /\ \A k \in 1..Len(A) : k \in DOMAIN todo' /\ todo'[k] = A[k]
  BY <1>3 DEF Laid
<1>5. \A i \in 1..Len(A) : A[i].at \in O
  BY DEF OwnPlan
<1>6. ASSUME NEW i \in DOMAIN todo', IsBlock(i)'
      PROVE  \/ todo'[i].at \in O /\ \E k \in 1..Len(A) : todo'[i] = A[k] /\ A[k].op = "block"
             \/ /\ \E k \in 1..Len(W) : todo'[i] = W[k] /\ W[k].op = "block"
                /\ todo'[i].at = FollowChain(g, dir)[Len(FollowChain(g, dir))] /\ todo'[i].at \notin O
  <2>1. \/ \E k \in 1..Len(A) : todo'[i] = A[k] /\ A[k].op = "block"
        \/ \E k \in 1..Len(W) : todo'[i] = W[k] /\ W[k].op = "block"
    BY <1>2, <1>3, <1>6, LaidBlocks
  <2> QED
    BY <1>5, <2>1 DEF EndsThere
<1>7. Apart'
  <2>1. \A i \in DOMAIN todo' : IsBlock(i)' =>
            todo'[i].at \notin Used(g, block) \/ todo'[i].at = FollowChain(g, dir)[Len(FollowChain(g, dir))]
    BY <1>6
  <2> QED
    BY <2>1 DEF Apart, Here0
<1>8. FirstIn(at)'
  <2> SUFFICES ASSUME NEW i \in DOMAIN Places(g, dir), NEW j \in DOMAIN Places(g, dir),
                      i < j, Places(g, dir)[j] = at
               PROVE  /\ EntryAt(block, Places(g, dir)[i]).inUse
                      /\ \A k \in DOMAIN todo' : IsBlock(k)' => todo'[k].at # Places(g, dir)[i].block
    BY DEF FirstIn
  <2>1. /\ EntryAt(block, Places(g, dir)[i]).inUse
        /\ \A k \in 1..Len(W) : W[k].op = "block" => W[k].at # Places(g, dir)[i].block
    BY DEF FirstPlaceOf
  <2>2. Places(g, dir)[i].block \in ToSet(FollowChain(g, dir))
    BY PlacesTyped DEF Deciding, TypeOK
  <2>3. Places(g, dir)[i].block \notin O
    BY <2>2
  <2>4. ASSUME NEW k \in DOMAIN todo', IsBlock(k)' PROVE todo'[k].at # Places(g, dir)[i].block
    BY <1>6, <2>1, <2>3, <2>4
  <2> QED
    BY <2>1, <2>4
<1>9. PICK own : own = FollowChain(f, e.start) /\ own = FollowChain(g, e.start)
  OBVIOUS
<1>10. ToSet(own) = O /\ own \in Seq(Blocks) /\ e.name = path[comp]
  BY <1>9 DEF EntryPlan, Enters, IsChain, IsPath
<1>11. \A q \in InUse(block) : q.block \notin O
  BY PlanBase
<1>12. ASSUME Len(own) = Needed, Fills(A, own) PROVE Holds(own)'
  <2>1. Needed' = Needed /\ \A k : Chunk(k)' = Chunk(k)
    BY DEF Needed, Chunk
  <2> SUFFICES ASSUME NEW k \in 1..Needed
               PROVE  /\ \E i \in DOMAIN todo' : IsBlock(i)' /\ todo'[i].at = own[k]
                      /\ \A i \in DOMAIN todo' : IsBlock(i)' /\ todo'[i].at = own[k] => todo'[i].bytes = Chunk(k)
    BY <2>1 DEF Holds
  <2>2. own[k] \in O
    BY <1>10, <1>12, ToSetMeaning
  <2>3. PICK i \in 1..Len(A) : A[i].op = "block" /\ A[i].at = own[k]
    BY <1>12 DEF Fills
  <2>4. i \in DOMAIN todo' /\ IsBlock(i)' /\ todo'[i].at = own[k]
    BY <1>4, <2>3 DEF IsBlock
  <2>5. ASSUME NEW l \in DOMAIN todo', IsBlock(l)', todo'[l].at = own[k] PROVE todo'[l].bytes = Chunk(k)
    <3>1. PICK h \in 1..Len(A) : todo'[l] = A[h] /\ A[h].op = "block"
      BY <1>6, <2>2, <2>5
    <3> QED
      BY <1>12, <2>5, <3>1 DEF Fills
  <2> QED
    BY <2>4, <2>5
<1>13. LeadsOn(e)'
  <2>1. \/ e.dir
        \/ comp = Len(path) /\ e.size = Len(data) /\ Len(own) = Needed /\ Holds(own)'
    BY <1>9, <1>12 DEF Enters
  <2>2. Needed' = Needed
    BY DEF Needed
  <2>3. \A q \in InUse(block') : q.block \notin ToSet(own)
    BY <1>10, <1>11
  <2>4. own = FollowChain(mem', e.start) /\ e.name = path'[comp']
    BY <1>9, <1>10
  <2>5. \/ e.dir
        \/ comp' = Len(path') /\ e.size = Len(data') /\ Len(own) = Needed' /\ Holds(own)'
    BY <2>1, <2>2
  <2> QED
    BY <2>3, <2>4, <2>5 DEF LeadsOn
<1>14. Vacant(at)'
  <2> SUFFICES ASSUME EntryAt(block, at).inUse
               PROVE  \E k \in DOMAIN todo' : IsBlock(k)' /\ todo'[k].at = at.block
    BY DEF Vacant
  <2>1. PICK k \in 1..Len(W) : W[k].op = "block" /\ W[k].at = at.block
    BY DEF FirstPlaceOf
  <2>2. todo'[Len(A) + k] = W[k]
    BY <1>3 DEF Laid
  <2>3. Len(A) + k \in DOMAIN todo'
    <3>1. Len(A) \in Nat /\ Len(W) \in Nat
      BY <1>3 DEF Laid
    <3> QED
      BY <1>4, <3>1
  <2> QED
    BY <2>1, <2>2, <2>3 DEF IsBlock
<1>15. Complete(todo[Len(todo)])'
  <2>1. Complete(w)'
    BY <1>2, <1>8, <1>13, <1>14 DEF Complete
  <2> QED
    BY <1>4, <2>1 DEF Complete
<1> QED
  BY <1>4, <1>7, <1>15 DEF Shown

(* A plan that is not linked shows nothing.                                *)
LEMMA FailShown ==
    ASSUME Deciding, Shown, NEW f, NEW O, NEW A, OwnPlan(f, O, A),
           pc' = "writing", mem' = f, todo' = A, after'.do = "fail",
           UNCHANGED <<block, path, data, comp, dir>>
    PROVE  Shown'
<1>1. NoneLow(block) /\ Packed(mem, block) /\ WayNamed(mem, block, dir, path, comp - 1) /\ data \in Contents
  BY DEF Shown, Deciding
<1>2. Packed(f, block)
  BY <1>1, PlanPacked
<1>3. Typed(block) /\ Kept(mem, block, f, block) /\ O \cap Used(f, block) = {}
  BY PlanBase
<1>4. WayNamed(f, block, dir, path, comp - 1)
  <2>1. PICK l \in Nat : l = comp - 1
    BY CompPositive DEF Deciding
  <2>2. WayNamed(mem, block, dir, path, l)
    BY <1>1, <2>1
  <2>3. WayNamed(f, block, dir, path, l)
    BY <1>3, <2>2, WayNamedKept
  <2> QED
    BY <2>1, <2>3
<1>5. Apart'
  <2>1. \A i \in 1..Len(A) : A[i].at \in O
    BY DEF OwnPlan
  <2>2. DOMAIN todo' = 1..Len(A)
    BY LenProperties DEF OwnPlan
  <2>3. \A i \in DOMAIN todo' : todo'[i].at \notin Used(f, block)
    BY <1>3, <2>1, <2>2
  <2> QED
    BY <2>3 DEF Apart
<1> QED
  BY <1>1, <1>2, <1>4, <1>5 DEF Shown

LEMMA DirUsed ==
    ASSUME Deciding, NEW g, Sound(g, block), WayTo(g, block, dir, comp)
    PROVE  IsChain(g, FollowChain(g, dir)) /\ ToSet(FollowChain(g, dir)) \subseteq Used(g, block)
<1>1. PICK o \in Owners(block) : Owned(g, block, o) = FollowChain(g, dir)
  BY CurrentDir DEF Deciding
<1> QED
  BY <1>1 DEF Sound, Used

LEMMA PlanNamed ==
    ASSUME Deciding, Shown, NEW f, NEW O, NEW A, OwnPlan(f, O, A), NEW g, Kept(f, block, g, block)
    PROVE  WayNamed(g, block, dir, path, comp - 1)
<1>1. Typed(block) /\ Kept(mem, block, f, block)
  BY PlanBase
<1>2. PICK l \in Nat : l = comp - 1
  BY CompPositive DEF Deciding
<1>3. WayNamed(mem, block, dir, path, l)
  BY <1>2 DEF Shown, Deciding
<1>4. WayNamed(f, block, dir, path, l)
  BY <1>1, <1>2, <1>3, WayNamedKept
<1>5. WayNamed(g, block, dir, path, l)
  BY <1>1, <1>2, <1>4, WayNamedKept
<1> QED
  BY <1>2, <1>5

LEMMA ThereShown ==
    ASSUME Deciding, Shown, NEW f, NEW O, NEW A, OwnPlan(f, O, A), NEW e, NEW next, EntryPlan(f, O, e, next),
           Enters(f, A, e), FreeSlot(f, block, dir, {}) # <<>>, NEW at, at = FreeSlot(f, block, dir, {})[1],
           pc' = "writing", mem' = f, Laid(todo', A, <<>>, EntryWrite(at, e)), after' = next,
           UNCHANGED <<block, path, data, comp, dir>>
    PROVE  Shown'
<1>1. NoneLow(block) /\ data \in Contents /\ Packed(mem, block)
  BY DEF Shown, Deciding
<1>2. /\ f \in Fats /\ Sound(f, block) /\ WayTo(f, block, dir, comp) /\ O \cap Used(f, block) = {}
      /\ dir \in Blocks /\ Kept(f, block, f, block)
  BY PlanBase DEF Deciding, TypeOK, Kept
<1>3. IsChain(f, FollowChain(f, dir)) /\ ToSet(FollowChain(f, dir)) \subseteq Used(f, block)
  BY <1>2, DirUsed
<1>4. Packed(f, block) /\ WayNamed(f, block, dir, path, comp - 1)
  BY <1>1, <1>2, PlanPacked, PlanNamed
<1>5. \A i, j \in DOMAIN Places(f, dir) :
          i < j /\ Places(f, dir)[j] = at => EntryAt(block, Places(f, dir)[i]).inUse
  BY <1>2, <1>3, FreeSlotFirst
<1>6. PICK W : W = <<>> /\ 1..Len(W) = {}
  BY NoWrites
<1>7. ~EntryAt(block, at).inUse
  BY <1>2, FreeSlotFound
<1>8. FirstPlaceOf(f, W, at) /\ EndsThere(f, O, W) /\ Laid(todo', A, W, EntryWrite(at, e))
  BY <1>5, <1>6, <1>7 DEF FirstPlaceOf, EndsThere
<1> QED
  BY <1>1, <1>2, <1>3, <1>4, <1>8, PlanShown

LEMMA ExtendedShown ==
    ASSUME Deciding, Shown, NEW f, NEW O, NEW A, OwnPlan(f, O, A), NEW e, NEW next, EntryPlan(f, O, e, next),
           Enters(f, A, e), FreeSlot(f, block, dir, {}) = <<>>,
           NEW new \in Blocks, f[new] = FREE,
           NEW s, s = FollowChain(f, dir), NEW g, g = NewBlockEnded(f, Last(s), new),
           NEW at, at = [block |-> new, index |-> 0],
           pc' = "writing", mem' = g,
           Laid(todo', A, GrowWrites(g, Last(s), new), EntryWrite(at, e)), after' = next,
           UNCHANGED <<block, path, data, comp, dir>>
    PROVE  Shown'
<1>1. NoneLow(block) /\ data \in Contents /\ Packed(mem, block)
  BY DEF Shown, Deciding
<1>2. /\ f \in Fats /\ Sound(f, block) /\ WayTo(f, block, dir, comp) /\ O \cap Used(f, block) = {}
      /\ dir \in Blocks
  BY PlanBase DEF Deciding, TypeOK
<1>3. PICK last : last = Last(s)
  OBVIOUS
<1>4. /\ g \in Fats /\ Sound(g, block) /\ Used(g, block) = Used(f, block) \cup {new}
      /\ WayTo(g, block, dir, comp) /\ Kept(f, block, g, block)
      /\ Longer(s, Len(s), new, FollowChain(g, dir)) /\ Len(s) \in Nat
      /\ last \in Used(f, block) /\ new \notin O /\ new \notin Used(f, block)
      /\ \A b \in Blocks : b # last /\ b # new => g[b] = f[b]
  BY <1>3, PlanGrown
<1>5. IsChain(f, s) /\ ToSet(s) \subseteq Used(f, block)
  BY <1>2, DirUsed
<1>6. PICK t : t = FollowChain(g, dir) /\ IsChain(g, t) /\ ToSet(t) \subseteq Used(g, block)
  BY <1>4, DirUsed
<1>7. PICK n \in Nat : n = Len(s)
  BY <1>4
<1>8. Len(t) = n + 1 /\ t[n + 1] = new /\ \A i \in 1..n : t[i] = s[i]
  BY <1>4, <1>6, <1>7 DEF Longer
<1>9. PICK W : W = GrowWrites(g, last, new)
  OBVIOUS
<1>10. /\ \A k \in 1..Len(W) : W[k].op = "block" => W[k].at = new
       /\ \E k \in 1..Len(W) : W[k].op = "block" /\ W[k].at = new
  <2>1. Len(W) = 3 /\ W[1].op = "fat" /\ W[2].op = "fat" /\ W[3].op = "block" /\ W[3].at = new
    BY <1>9 DEF GrowWrites, FatWrite, BlockWrite
  <2>2. \A k \in 1..3 : k = 1 \/ k = 2 \/ k = 3
    OBVIOUS
  <2> QED
    BY <2>1, <2>2
<1>11. EndsThere(g, O, W)
  BY <1>4, <1>6, <1>8, <1>10 DEF EndsThere
<1>12. FirstPlaceOf(g, W, at)
  <2> SUFFICES ASSUME NEW i \in DOMAIN Places(g, dir), NEW j \in DOMAIN Places(g, dir),
                      i < j, Places(g, dir)[j] = at
               PROVE  /\ EntryAt(block, Places(g, dir)[i]).inUse
                      /\ Places(g, dir)[i].block # new
    BY <1>10 DEF FirstPlaceOf
  <2>1. /\ Places(g, dir)[j] = [block |-> t[Row(j)], index |-> Col(j)]
        /\ j \in Nat /\ j > 0 /\ Row(j) \in 1..Len(t)
    BY <1>2, <1>4, <1>6, PlaceIs
  <2>2. /\ Places(g, dir)[i] = [block |-> t[Row(i)], index |-> Col(i)]
        /\ i \in Nat /\ i > 0 /\ Row(i) \in 1..Len(t)
    BY <1>2, <1>4, <1>6, PlaceIs
  <2>3. t[Row(j)] = new /\ Col(j) = 0
    BY <2>1
  <2>4. Row(j) = n + 1
    <3>1. n + 1 \in 1..Len(t)
      BY <1>8
    <3> QED
      BY <1>6, <1>8, <2>1, <2>3, <3>1 DEF IsChain
  <2>5. Row(i) \in 1..n
    <3>1. Row(i) <= Row(j) /\ (Row(i) = Row(j) => Col(i) < Col(j))
      BY <2>1, <2>2, RowOrder
    <3>2. Col(i) \in Nat
      <4>1. Col(i) \in Slots
        BY <2>2, RowMeaning
      <4> QED
        BY <4>1, ImageAssumption DEF Slots
    <3> QED
      BY <1>8, <2>2, <2>3, <2>4, <3>1, <3>2
  <2>6. i \in DOMAIN Places(f, dir)
    BY <1>2, <1>7, <2>2, <2>5, PlaceDomain
  <2>7. Places(f, dir)[i] = [block |-> s[Row(i)], index |-> Col(i)]
    BY <1>2, <2>6, PlaceIs
  <2>8. Places(f, dir)[i] = Places(g, dir)[i]
    BY <1>8, <2>2, <2>5, <2>7
  <2>9. EntryAt(block, Places(f, dir)[i]).inUse
    BY <1>2, <1>5, <2>6, FreeSlotFirst
  <2>10. Places(f, dir)[i].block \in ToSet(s)
    BY <1>2, <2>6, PlacesTyped
  <2>11. Places(f, dir)[i].block # new
    BY <1>4, <1>5, <2>10
  <2> QED
    BY <2>8, <2>9, <2>11
<1>13. FollowChain(g, e.start) = FollowChain(f, e.start)
  <2>1. PICK own : own = FollowChain(f, e.start) /\ IsChain(f, own) /\ ToSet(own) = O /\ e.start \in Blocks
    BY DEF EntryPlan, EntrySet
  <2>2. \A b \in ToSet(own) : b \in Blocks /\ b # last /\ b # new
    BY <1>2, <1>4, <2>1, ChainMarked
  <2>3. \A b \in ToSet(own) : g[b] = f[b]
    BY <1>4, <2>2
  <2> QED
    BY <1>2, <1>4, <2>1, <2>3, SameChain
<1>14. Packed(g, block) /\ WayNamed(g, block, dir, path, comp - 1)
  BY <1>1, <1>4, GrownPacked, PlanNamed
<1>15. O \cap Used(g, block) = {} /\ ToSet(FollowChain(g, dir)) \subseteq Used(g, block)
  BY <1>2, <1>4, <1>6
<1>16. Laid(todo', A, W, EntryWrite(at, e))
  BY <1>3, <1>9
<1> QED
  BY <1>1, <1>4, <1>11, <1>12, <1>13, <1>14, <1>15, <1>16, PlanShown

(* Whatever is decided, unless a search has passed over a free place.      *)
LEMMA SlotShown ==
    ASSUME Deciding, Shown, NEW f, NEW O, NEW A, NEW e, NEW next, NEW slot, Decided(f, O, A, e, next, slot),
           ~skipped', UNCHANGED <<block, path, data, comp, dir>>
    PROVE  Shown'
<1>1. OwnPlan(f, O, A) /\ EntryPlan(f, O, e, next) /\ Enters(f, A, e) /\ Link(f, slot, A, e, next)
  BY DEF Decided
<1>2. slot = SlotPlan(f, block, {}) /\ pc' = "writing" /\ mem' = slot.fat
  BY <1>1, SlotSeen DEF Link, AllRead
<1>3. slot.ok => todo' = (A \o slot.writes) \o <<EntryWrite(slot.at, e)>> /\ after' = next
  BY <1>1 DEF Link, InOrder
<1>4. ~slot.ok => todo' = A /\ after' = [do |-> slot.do]
  BY <1>1 DEF Link
<1>5. PICK free : free = FreeSlot(f, block, dir, {})
  OBVIOUS
<1>6. PICK new : new = FreeBlocks(f)
  OBVIOUS
<1>7. PICK s : s = FollowChain(f, dir)
  OBVIOUS
<1>8. A \in Seq(ToSet(A))
  BY <1>1 DEF OwnPlan
<1>9. CASE free # <<>>
  <2>1. slot = [ok |-> TRUE, at |-> free[1], fat |-> f, writes |-> <<>>]
    BY <1>2, <1>5, <1>9 DEF SlotPlan
  <2>2. slot.ok /\ slot.at = free[1] /\ slot.fat = f /\ slot.writes = <<>>
    BY <2>1
  <2>3. PICK at : at = free[1]
    OBVIOUS
  <2>4. Laid(todo', A, <<>>, EntryWrite(at, e))
    BY <1>3, <1>8, <2>2, <2>3, NoWrites, LaidOut
  <2> QED
    BY <1>1, <1>2, <1>3, <1>5, <1>9, <2>2, <2>3, <2>4, ThereShown
<1>10. CASE free = <<>> /\ new # <<>>
  <2>1. PICK g : g = NewBlockEnded(f, Last(s), new[1])
    OBVIOUS
  <2>2. PICK at : at = [block |-> new[1], index |-> 0]
    OBVIOUS
  <2>3. PICK W : W = GrowWrites(g, Last(s), new[1])
    OBVIOUS
  <2>4. slot = [ok |-> TRUE, at |-> at, fat |-> g, writes |-> W]
    BY <1>1, <1>2, <1>5, <1>6, <1>7, <1>10, <2>1, <2>2, <2>3, DirectoryEnds DEF SlotPlan, GrowWrites
  <2>5. slot.ok /\ slot.at = at /\ slot.fat = g /\ slot.writes = W
    BY <2>4
  <2>6. PICK b \in Blocks : b = new[1] /\ f[b] = FREE
    BY <1>6, <1>10, FirstFree
  <2>7. W \in Seq({W[1], W[2], W[3]})
    BY <2>3 DEF GrowWrites
  <2>8. Laid(todo', A, W, EntryWrite(at, e))
    BY <1>3, <1>8, <2>5, <2>7, LaidOut
  <2>9. Laid(todo', A, GrowWrites(g, Last(s), b), EntryWrite(at, e))
    BY <2>3, <2>6, <2>8
  <2> QED
    BY <1>1, <1>2, <1>3, <1>5, <1>7, <1>10, <2>1, <2>2, <2>5, <2>6, <2>9, ExtendedShown
<1>11. CASE free = <<>> /\ new = <<>>
  <2>1. slot = [ok |-> FALSE, do |-> "fail", fat |-> f, writes |-> <<>>]
    BY <1>2, <1>5, <1>6, <1>11 DEF SlotPlan
  <2>2. ~slot.ok /\ slot.fat = f /\ slot.do = "fail"
    BY <2>1
  <2>3. todo' = A /\ after'.do = "fail" /\ mem' = f
    BY <1>2, <1>4, <2>2
  <2> QED
    BY <1>1, <1>2, <2>3, FailShown
<1> QED
  BY <1>9, <1>10, <1>11

----------------------------------------------------------------------------
(* The steps.                                                              *)

(* What a search finds has the name that is looked for.                    *)
LEMMA FoundIsNamed ==
    ASSUME NEW f \in Fats, NEW blk, NEW d \in Blocks, NEW name, NEW unread,
           NEW e, e = NamedReading(f, blk, d, name, unread), e.inUse, e.dir
    PROVE  SubNamed(f, blk, d, e.start, name)
<1> DEFINE there(place) == EntryAt(blk, place).inUse /\ EntryAt(blk, place).name = name
           hits == {j \in DOMAIN Places(f, d) : Places(f, d)[j].block \notin unread /\ there(Places(f, d)[j])}
<1>1. e = IF hits = {} THEN NoEntry ELSE EntryAt(blk, Places(f, d)[Min(hits)])
  BY DEF NamedReading, FirstPlace
<1>2. hits # {}
  BY <1>1 DEF NoEntry
<1>3. hits \in SUBSET Nat
  BY PlacesTyped
<1>4. PICK j \in DOMAIN Places(f, d) : j \in hits /\ j = Min(hits)
  BY <1>2, <1>3, SmallestHit
<1>5. PICK p \in AllPlaces : p = Places(f, d)[j] /\ p.block \in ToSet(FollowChain(f, d))
  BY PlacesTyped
<1>6. e = EntryAt(blk, p) /\ e.name = name
  BY <1>1, <1>2, <1>4, <1>5
<1>7. p \in InUse(blk) /\ e = EntryAt(blk, p)
  BY <1>5, <1>6, EntryMeaning
<1> QED
  BY <1>5, <1>6, <1>7 DEF SubNamed

LEMMA DeeperShown ==
    ASSUME TypeOK, Shown, pc # "none", todo' = <<>>, pc' = "deciding", comp' = comp + 1,
           NEW e \in Blocks, SubNamed(mem, block, dir, e, path[comp]), dir' = e,
           UNCHANGED <<block, mem, path, data>>
    PROVE  Shown'
<1>1. /\ NoneLow(block) /\ Packed(mem, block) /\ WayNamed(mem, block, dir, path, comp - 1) /\ data \in Contents
  BY DEF Shown
<1>2. PICK l \in Nat : l = comp - 1 /\ l + 1 = comp /\ comp' - 1 = l + 1
  BY CompPositive
<1>3. WayNamed(mem, block, dir, path, l) /\ SubNamed(mem, block, dir, e, path[l + 1])
  BY <1>1, <1>2
<1>4. WayNamed(mem, block, e, path, l + 1)
  BY <1>2, <1>3, WayNamedOn
<1> QED
  BY <1>1, <1>2, <1>4 DEF Shown

LEMMA StartShown ==
    ASSUME Shown, NEW p \in Paths, NEW content \in Contents, Start(p, content)
    PROVE  Shown'
<1>1. /\ pc = "none" /\ pc' = "deciding" /\ mem' = fat /\ path' = p /\ data' = content /\ comp' = 1 /\ dir' = Root
      /\ UNCHANGED <<fat, block>>
  BY DEF Start, image
<1>2. NoneLow(block) /\ Packed(fat, block)
  BY <1>1 DEF Shown
<1>3. WayNamed(fat, block, Root, p, 0) /\ comp' - 1 = 0
  BY <1>1, WayNamedFirst
<1>4. WayNamed(mem', block', dir', path', comp' - 1)
  BY <1>1, <1>3
<1> QED
  BY <1>1, <1>2, <1>4 DEF Shown

LEMMA DescendShown ==
    ASSUME IInv, Shown, Descend
    PROVE  Shown'
<1>1. /\ TypeOK /\ pc = "deciding" /\ todo = <<>>
      /\ pc' = pc /\ comp' = comp + 1 /\ UNCHANGED <<block, mem, path, data, todo>>
  BY DEF IInv, Descend, TypeOK, image
<1>2. PICK unread : LET e == NamedReading(mem, block, dir, path[comp], unread)
                    IN  e.inUse /\ e.dir /\ dir' = e.start
  BY DEF Descend, Found
<1>3. PICK e : e = NamedReading(mem, block, dir, path[comp], unread) /\ e.inUse /\ e.dir /\ dir' = e.start
  BY <1>2
<1>4. mem \in Fats /\ dir \in Blocks /\ Typed(block)
  BY <1>1 DEF TypeOK, Typed
<1>5. SubNamed(mem, block, dir, e.start, path[comp])
  BY <1>3, <1>4, FoundIsNamed
<1>6. e.start \in Blocks
  BY <1>4, <1>5, SubNamedStarts
<1> QED
  BY <1>1, <1>3, <1>5, <1>6, DeeperShown

(* A diskput that ends leaves the FAT on disk to the next.                 *)
LEMMA EndShown ==
    ASSUME IInv, Shown, pc # "none", pc' = "none", UNCHANGED <<fat, block>>
    PROVE  Shown'
<1>1. TypeOK /\ Base /\ Working /\ NoneLow(block) /\ Packed(mem, block)
  BY DEF IInv, Shown
<1>2. mem \in Fats /\ fat \in Fats
  BY <1>1 DEF TypeOK
<1>3. CASE pc = "writing"
  <2>1. Alike(mem, fat, block)
    BY <1>1, <1>3, DiskAlike
  <2>2. Packed(fat, block)
    BY <1>1, <1>2, <2>1, AlikePacked
  <2> QED
    BY <1>1, <2>2 DEF Shown
<1>4. CASE pc = "deciding"
  <2>1. mem = fat
    BY <1>1, <1>4 DEF Working
  <2> QED
    BY <1>1, <2>1 DEF Shown
<1> QED
  BY <1>1, <1>3, <1>4 DEF TypeOK

LEMMA ProceedShown ==
    ASSUME IInv, Shown, Proceed
    PROVE  Shown'
<1>1. TypeOK /\ Working /\ pc = "writing" /\ todo = <<>> /\ UNCHANGED <<fat, block>>
  BY DEF IInv, Proceed, image
<1>2. CASE after.do = "descend"
  <2>1. /\ pc' = "deciding" /\ comp' = comp + 1 /\ dir' = after.start /\ todo' = <<>>
        /\ UNCHANGED <<mem, path, data>>
    BY <1>1, <1>2 DEF Proceed
  <2>2. SubNamed(mem, block, dir, after.start, path[comp])
    BY <1>1, <1>2 DEF Shown
  <2>3. after.start \in Blocks
    BY <1>1, <2>2, SubNamedStarts DEF TypeOK, Typed
  <2> QED
    BY <1>1, <2>1, <2>2, <2>3, DeeperShown
<1>3. CASE after.do # "descend"
  <2>1. pc' = "none"
    BY <1>3 DEF Proceed, Ended, NoDiskput
  <2> QED
    BY <1>1, <2>1, EndShown
<1> QED
  BY <1>2, <1>3

LEMMA DecisionShown ==
    ASSUME IInv, Shown, MakeDir \/ PutThere, ~skipped'
    PROVE  Shown'
<1>1. Deciding /\ UNCHANGED <<block, path, data, comp, dir>>
  BY Decides DEF MakeDir, PutThere, image
<1>2. PICK f, O, A, e, next, slot : Decided(f, O, A, e, next, slot)
  BY MakeDirDecides, PutThereDecides
<1> QED
  BY <1>1, <1>2, SlotShown

LEMMA NoBufferShown ==
    ASSUME IInv, Shown, NoBuffer
    PROVE  Shown'
<1>1. Deciding
  BY Decides DEF NoBuffer
<1>2. /\ UNCHANGED <<block, path, data, comp, dir>> /\ Len(FreeBlocks(mem)) >= Needed
      /\ pc' = "writing" /\ mem' = Chained(FileBlocks) /\ todo' = ChainWrites(FileBlocks)
      /\ after'.do = "fail"
  BY DEF NoBuffer, image
<1>3. PICK s : s = FileBlocks
  OBVIOUS
<1>4. PICK n \in Nat : n = Needed
  BY <1>1, NeededPositive
<1>5. PICK f : f = Chained(s)
  OBVIOUS
<1>6. Taking(s, n, f)
  BY <1>1, <1>2, <1>3, <1>4, <1>5, FileTakes
<1>7. todo' = ChainPart(s, n, f) /\ mem' = f
  BY <1>2, <1>3, <1>4, <1>5 DEF ChainWrites, ChainPart
<1>8. OwnPlan(f, ToSet(s), todo')
  BY <1>1, <1>6, <1>7, ChainPartPlan
<1> QED
  BY <1>1, <1>2, <1>7, <1>8, FailShown

LEMMA ShownSame ==
    ASSUME Shown, UNCHANGED vars
    PROVE  Shown'
<1>1. UNCHANGED <<fat, block, pc, mem, path, data, comp, dir, todo, after>>
  BY DEF vars, image, program
<1>2. NoneLow(block)' /\ (pc = "none" => Packed(fat, block))'
  BY <1>1 DEF Shown
<1>3. (pc # "none" => Packed(mem, block) /\ WayNamed(mem, block, dir, path, comp - 1) /\ data \in Contents)'
  BY <1>1 DEF Shown
<1>4. Here0' = Here0 /\ Needed' = Needed /\ \A i : IsBlock(i)' <=> IsBlock(i)
  BY <1>1 DEF Here0, Needed, IsBlock
<1>5. Apart => Apart'
  BY <1>1, <1>4 DEF Apart
<1>6. \A k : Chunk(k)' = Chunk(k)
  BY <1>1, <1>4 DEF Chunk
<1>7. ASSUME NEW s, Holds(s) PROVE Holds(s)'
  BY <1>1, <1>4, <1>6, <1>7 DEF Holds
<1>8. ASSUME NEW at, FirstIn(at) PROVE FirstIn(at)'
  BY <1>1, <1>4, <1>8 DEF FirstIn
<1>9. ASSUME NEW e, LeadsOn(e) PROVE LeadsOn(e)'
  BY <1>1, <1>4, <1>7, <1>9 DEF LeadsOn
<1>10. ASSUME NEW w, Complete(w) PROVE Complete(w)'
  <2>1. Vacant(w.at) => Vacant(w.at)'
    BY <1>1, <1>4 DEF Vacant
  <2> QED
    BY <1>8, <1>9, <1>10, <2>1 DEF Complete
<1>11. (pc = "writing" =>
          /\ Apart
          /\ after.do # "fail" /\ todo # <<>> => Complete(todo[Len(todo)])
          /\ after.do = "descend" /\ todo = <<>> => SubNamed(mem, block, dir, after.start, path[comp]))'
  BY <1>1, <1>5, <1>10 DEF Shown
<1> QED
  BY <1>2, <1>3, <1>11 DEF Shown

LEMMA ShownStep ==
    ASSUME IInv, Shown, [Next]_vars
    PROVE  lost' \/ skipped' \/ Shown'
<1>1. CASE UNCHANGED vars
  BY <1>1, ShownSame
<1>2. CASE \E p \in Paths, content \in Contents : Start(p, content)
  BY <1>2, StartShown
<1>3. CASE Descend
  BY <1>3, DescendShown
<1>4. CASE MakeDir
  BY <1>4, DecisionShown
<1>5. CASE PutThere
  BY <1>5, DecisionShown
<1>6. CASE Refused
  <2>1. pc # "none" /\ pc' = "none" /\ UNCHANGED <<fat, block>>
    BY <1>6 DEF Refused, Ended, NoDiskput, image
  <2> QED
    BY <2>1, EndShown
<1>7. CASE NoBuffer
  BY <1>7, NoBufferShown
<1>8. CASE Write
  <2>1. TypeOK /\ Base /\ Working
    BY <1>8 DEF IInv, Write
  <2> QED
    BY <1>8, <2>1, WriteShown
<1>9. CASE Proceed
  BY <1>9, ProceedShown
<1>10. CASE WriteFails
  <2>1. pc # "none" /\ pc' = "none" /\ UNCHANGED <<fat, block>>
    BY <1>10 DEF WriteFails, Ended, NoDiskput, image
  <2> QED
    BY <2>1, EndShown
<1>11. CASE WriteLost
  BY <1>11 DEF WriteLost
<1>12. CASE Kill
  <2>1. pc # "none" /\ pc' = "none" /\ UNCHANGED <<fat, block>>
    BY <1>12 DEF Kill, Ended, NoDiskput, image
  <2> QED
    BY <2>1, EndShown
<1>13. CASE LeftAlone
  BY <1>13, ShownSame DEF LeftAlone
<1> QED
  BY <1>1, <1>2, <1>3, <1>4, <1>5, <1>6, <1>7, <1>8, <1>9, <1>10, <1>11, <1>12, <1>13 DEF Next

----------------------------------------------------------------------------
(* A put is atomic.                                                        *)
LEMMA SkippedStays ==
    ASSUME skipped, [Next]_vars
    PROVE  skipped'
<1>1. CASE UNCHANGED vars
  BY <1>1 DEF vars, history
<1>2. CASE \E p \in Paths, content \in Contents : Start(p, content)
  BY <1>2 DEF Start
<1>3. CASE Descend
  BY <1>3 DEF Descend
<1>4. ASSUME NEW f, NEW slot, NEW writes, NEW e, NEW next, Link(f, slot, writes, e, next) PROVE skipped'
  BY <1>4 DEF Link
<1>5. CASE MakeDir
  BY <1>4, <1>5 DEF MakeDir, CreateDir
<1>6. CASE PutThere
  BY <1>4, <1>6 DEF PutThere, PutFile
<1>7. CASE Refused
  BY <1>7 DEF Refused
<1>8. CASE NoBuffer
  BY <1>8 DEF NoBuffer
<1>9. CASE Write
  BY <1>9 DEF Write, history
<1>10. CASE Proceed
  BY <1>10 DEF Proceed
<1>11. CASE WriteFails
  BY <1>11 DEF WriteFails
<1>12. CASE WriteLost
  BY <1>12 DEF WriteLost
<1>13. CASE Kill
  BY <1>13 DEF Kill
<1>14. CASE LeftAlone
  BY <1>14 DEF LeftAlone, vars, history
<1> QED
  BY <1>1, <1>2, <1>3, <1>5, <1>6, <1>7, <1>8, <1>9, <1>10, <1>11, <1>12, <1>13, <1>14 DEF Next

LEMMA ShownFirst ==
    ASSUME Init
    PROVE  Shown
<1>1. pc = "none" /\ InUse(block) = {}
  BY NothingFirst DEF Init
<1>2. NoneLow(block)
  BY <1>1 DEF NoneLow
<1>3. Packed(fat, block)
  BY <1>1 DEF Packed, Shows
<1> QED
  BY <1>1, <1>2, <1>3 DEF Shown

(* Nothing is found in an empty image.                                     *)
LEMMA NothingFound ==
    ASSUME Init
    PROVE  FilesFound
<1>1. fat \in Fats /\ Typed(block) /\ InUse(block) = {} /\ files = [q \in Paths |-> {}]
  BY NothingFirst, InitSound DEF Init, IInv, TypeOK, Typed
<1>2. ASSUME NEW q \in Paths PROVE Get(fat, block, q) = {}
  <2>1. PICK n \in Nat : Len(q) = n + 1 /\ \A i \in 1..(n + 1) : q[i] \in Names
    BY PathShape
  <2>2. PICK c : Resolves(c, fat, block, q, n) /\ Get(fat, block, q) = Read(fat, block, c[n], q[n + 1])
    BY <2>1, GetMeaning
  <2>3. \A i \in 1..n : q[i] \in Names
    BY <2>1
  <2>4. \A i \in 0..n : c[i] = EOF \/ (c[i] \in Blocks /\ IsStart(block, c[i]))
    BY <1>1, <2>2, <2>3, ResolveStarts
  <2>5. c[n] = EOF \/ c[n] \in Blocks
    BY <2>4
  <2>6. PICK d, name : d = c[n] /\ name = q[n + 1]
    OBVIOUS
  <2>7. name \in Names
    BY <2>1, <2>6
  <2>8. ASSUME d \in Blocks PROVE Named(fat, block, d, name) = NoEntry
    <3>1. Hits(fat, block, d, name) = {}
      BY <1>1 DEF Hits, Shows
    <3> QED
      BY <1>1, <2>7, <2>8, <3>1, NamedFirst
  <2>9. Read(fat, block, d, name) = {}
    BY <2>5, <2>6, <2>8 DEF Read, NoEntry
  <2> QED
    BY <2>2, <2>6, <2>9
<1> QED
  BY <1>1, <1>2 DEF FilesFound

Follows == lost \/ skipped \/ TornByKill \/ (torn = <<>> /\ IInv /\ Shown)

LEMMA FollowsStep ==
    ASSUME Follows, [Next]_vars
    PROVE  Follows'
<1>1. CASE lost \/ skipped
  BY <1>1, LostStays, SkippedStays DEF Follows
<1>2. CASE TornByKill
  BY <1>2, TornStays DEF Follows
<1>3. CASE torn = <<>> /\ IInv /\ Shown
  BY <1>3, StepKeeps, ShownStep DEF Follows
<1> QED
  BY <1>1, <1>2, <1>3 DEF Follows

(* diskget finds the same with the FAT on disk and with that in memory.    *)
DiskTrue == lost \/ skipped \/ TornByKill \/ (pc = "writing" => FoundAhead)

LEMMA FollowsDisk ==
    ASSUME Follows
    PROVE  DiskTrue
<1> SUFFICES ASSUME IInv, Shown, pc = "writing" PROVE FoundAhead
  BY DEF Follows, DiskTrue
<1>1. TypeOK /\ Base /\ Working /\ NoneLow(block)
  BY DEF IInv, Shown
<1> QED
  BY <1>1, DiskShows DEF FoundAhead

(* Only a write changes the image.                                         *)
LEMMA OnlyWrites ==
    ASSUME [Next]_vars
    PROVE  Write \/ UNCHANGED image
<1>1. CASE UNCHANGED vars
  BY <1>1 DEF vars
<1>2. CASE \E p \in Paths, content \in Contents : Start(p, content)
  BY <1>2 DEF Start
<1>3. CASE Descend \/ MakeDir \/ PutThere \/ Refused \/ NoBuffer
  BY <1>3 DEF Descend, MakeDir, PutThere, Refused, NoBuffer
<1>4. CASE Proceed \/ WriteFails \/ WriteLost \/ Kill
  BY <1>4 DEF Proceed, WriteFails, WriteLost, Kill
<1>5. CASE LeftAlone
  BY <1>5 DEF LeftAlone, vars
<1> QED
  BY <1>1, <1>2, <1>3, <1>4, <1>5 DEF Next

LEMMA FoundStep ==
    ASSUME FilesFound, [Next]_vars
    PROVE  FilesFound'
<1>1. CASE Write
  BY <1>1 DEF Write, FilesFound
<1>2. CASE UNCHANGED image
  BY <1>2 DEF image, FilesFound
<1> QED
  BY <1>1, <1>2, OnlyWrites

(* A put shows all of its file at once, and nothing else changes, for      *)
(* every image, every file and every series of puts with kills and         *)
(* failures between any two writes, as long as no write was lost, no free  *)
(* entry passed over, and no kill has left the image torn.                 *)
THEOREM PutsAreAtomic == Spec => PutIsAtomic
<1>1. Init => Files!FMInit
  BY DEF Init, Files!FMInit
<1>2. Init => Follows /\ FilesFound
  BY InitSound, ShownFirst, NothingFound DEF Follows
<1>3. Follows /\ [Next]_vars => Follows'
  BY FollowsStep
<1>4. FilesFound /\ [Next]_vars => FilesFound'
  BY FoundStep
<1>5. Follows => DiskTrue
  BY FollowsDisk
<1>6. Follows /\ FilesFound /\ DiskTrue /\ DiskTrue' /\ [Next]_vars => [Files!FMNext \/ lost \/ skipped \/ torn # <<>>]_files
  <2> SUFFICES ASSUME Follows, FilesFound, DiskTrue, DiskTrue', [Next]_vars, ~lost, ~skipped, torn = <<>>
               PROVE  Files!FMNext \/ files' = files
    OBVIOUS
  <2>1. CASE UNCHANGED image
    BY <2>1 DEF image
  <2>2. CASE Write
    <3>1. pc = "writing" /\ pc' = pc /\ lost' = lost /\ skipped' = skipped /\ torn' = torn
      BY <2>2 DEF Write, history
    <3>2. IInv /\ Shown
      BY DEF Follows, TornByKill
    <3>3. TypeOK /\ Base /\ Working
      BY <3>1, <3>2 DEF IInv
    <3>4. FoundAhead /\ FoundAhead'
      BY <3>1 DEF DiskTrue, TornByKill
    <3>5. files' = files \/ PutsOne
      BY <2>2, <3>2, <3>3, <3>4, WriteFiles
    <3> QED
      BY <3>5 DEF PutsOne, Files!FMNext, Files!PutNew
  <2> QED
    BY <2>1, <2>2, OnlyWrites
<1>7. Spec => []Follows /\ []FilesFound
  BY <1>2, <1>3, <1>4, PTL DEF Spec
<1>8. Spec => [][Files!FMNext \/ lost \/ skipped \/ torn # <<>>]_files
  BY <1>5, <1>6, <1>7, PTL DEF Spec
<1> QED
  BY <1>1, <1>8, PTL DEF Spec, PutIsAtomic
=============================================================================
