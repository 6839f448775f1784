# Models and proofs of the course projects and vecdb

TLA+ modules for the four programs of this repository: the vector database
`vecdb`, the train scheduler of `p2`, the file system tools of `p3` and the shell
of `p1`.  Each module is read off the C source; `PROJECT.json` names, for every
definition, the lines it stands for.

Run a model with `tlc -config MCxxx.cfg MCxxx.tla`, a proof with
`tlapm XxxProofs.tla`.

## 1. Inventory

| Part | Source | State it keeps | Operations | What is hard |
|---|---|---|---|---|
| Thread pool | `vecdb/src/pool.c` | one batch: `fn`, `args`, `ntasks`, `next`, `active`, `shutdown`; a mutex and two conditions | `pool_create`, `pool_run`, `pool_destroy`, the worker loop | lost wake-ups, reads after the unlock, a thread that cannot be created, shutdown while workers sleep |
| Search | `vecdb/src/search.c` | a top-k list per worker in one buffer | `vdb_search`, `vdb_search_mt` | workers writing one buffer, ranges when threads and vectors do not divide, ties at the cut |
| Store | `vecdb/src/store.c` | `VdbData`: vectors, payloads, IDF weights, count, capacity; the `.vdb` file | create, load, add a record, write | the file is rewritten in place; two arrays that grow one after the other |
| Index | `vecdb/src/index.c` | the weights of the dataset | `vdb_build_index` | every vector goes stale with every document; it may run out of memory |
| Session | `vecdb/src/repl.c` | the dataset, `dirty`, `k` | add, save, k, quit, Ctrl-D, Ctrl-C | what is unsaved after a step of several failed; a signal during a command |
| Commands | `vecdb/src/main.c` | none of its own | create, add, addfile, repl; search, bench; embed, stats, open | load, change and write as one unit, but other processes on the same file; a pool per benchmark round; texts cut into paragraphs |
| Embedder | `vecdb/src/embed.c` | none | tokeniser, signed count per bucket, weights, norm | ends of texts, long words, signs that cancel |
| Utilities | `vecdb/src/util.c` | none | the hash, byte order | numerical |
| Train scheduler | `p2/mts.c` | four queues, `track_busy`, `crossed`, `last_direction`, `same_dir_count`, `may_cross` per train | the train threads and the dispatcher | signals sent before anyone waits, starvation, a thread that cannot be created |
| Image library | `p3/sfs_common.c` | the FAT and the blocks of an image | chains, directories, free blocks, writes | a directory that grows, results of writes nobody looks at |
| diskput | `p3/diskput.c` | a copy of the FAT in memory | creates directories, puts a file | kills between writes, full images, a path put twice |
| diskget | `p3/diskget.c` | none | reads a path's file | what it finds after all that |
| diskinfo, disklist | `p3/*.c` | none | count the FAT, list a directory | what they show after all that |
| Shell | `p1/ssi.c` | the list of background jobs | bg, bglist, cd, foreground commands | children that end at any time, identifiers given again |

How they interact.  The main thread of `vecdb` and the workers share the pool's
fields under one mutex; what a worker does with `fn` and `args` it does without
it.  `vdb_search_mt` is the pool's client, and `search` and `bench` are its callers.
Sessions and commands share only the file, which nothing locks.  The trains and the dispatcher of `p2` share everything under one mutex.
`diskput` and `diskget` share only the image.  The shell and its children meet in
`fork`, `waitpid` and the signals of the terminal.

What makes each part correct: no task lost or run twice and calls that return
(pool); the result of the sequential search (search); a file that is a whole
dataset or refused, and no record lost that was said to be saved (store, session); every paragraph stored and every
word counted once (addfile);
one train on the track, nobody starved (scheduler); disjoint chains and paths
that keep their file (image); a list that is exactly the children not waited
for, and every termination announced once (shell).

## 2. Modules

| Module | Models | Promise it is held against |
|---|---|---|
| `ThreadPool` | `pool.c` and its one client thread | `ParallelFor`, `pool.h`'s "run count tasks ... and block until all of them have finished" |
| `TopK` | `topk_insert`, `scan_range`, partition and merge, as operators | `BestOf`: the best k by definition |
| `ParallelSearch` | `vdb_search_mt` on top of `ThreadPool`, whose actions it extends, and `vdb_search` | `VdbSearch`, the sequential search |
| `SearchCommands` | `cmd_search`, `cmd_bench` and `run_benchmark`, the main thread around those | |
| `MTS` | `mts.c` | `SingleTrack` |
| `VdbFile` | the file's parts, and what `vdb_load` makes of them | |
| `Vecdb` | `store.c`, `index.c`, `repl.c` and the commands of `main.c` that write, one process at a time | |
| `SharedStore` | `cmd_add`, several processes at a time | |
| `TextIngest` | `ingest_text`, `tokenize` and `tf_accumulate`, the document frequencies of `vdb_build_index` | `Places`, `Paragraph`, `WordsOf`: what they are by definition |
| `SfsImage` | an image as the four tools read it, with `diskget`, `disklist` and `diskinfo` as operators | |
| `Diskput` | `diskput.c` on an image | `FileMap`, a map from paths to files |
| `Ssi` | `ssi.c`, its children and what the kernel keeps of them | `JobTable` |
| `SearchProofs` | theorems about `ThreadPool`, `TopK`, `SearchCommands` and all between | |
| `MTSProofs`, `TextIngestProofs`, `VecdbProofs`, `SharedStoreProofs`, `DiskputProofs`, `SsiProofs` | theorems about the module of that name | |
| `VdbFileProofs` | theorems about the operators of `VdbFile`, which `VecdbProofs` and `SharedStoreProofs` use | |
| `MC...` | the instances for TLC | |

**Reading the modules.**  In `ThreadPool` and `MTS` all shared fields are read and
written under one mutex, so whatever a thread does from taking it to releasing it
(or handing it back in `pthread_cond_wait`) is one action.  `pthread_cond_wait`
may return without a signal: `SpuriousWakeup`, `SpuriousClientWakeup`,
`SpuriousTrainWakeup`, `SpuriousDispatcherWakeup`.  A signal reaches a thread only
if it waits at that moment.  A worker's read of `fn` and `args` and the task
itself are steps of their own (`Fetch`, `RunTask`); in `ParallelSearch` the task is
one step per vector (`ScanVector`).

`SearchCommands` composes everything from the pool up: the pool is created, asked
and destroyed by the command's own main thread, so the actions of `ThreadPool`
and `ParallelSearch` appear there conjoined with the position in the command's
loop.  One round of `run_benchmark` leaves the pool freed, and `NextRound` gives the
next one fresh memory.  `Begin` is the process once its store is loaded; a command
that was refused before that has started no thread.

In `Vecdb` a process is in one of the states prompt, adding, indexing, opening and
writing; every allocation, `fopen`, `fwrite` and `fclose` is a point where
`AddNoMemory`, `BuildIndexNoMemory`, `WriteFails` or `Kill` may strike.  A part
reaches the file at any time between its `fwrite` and the end of `fclose`
(`WritePart`), so the model does not depend on the buffer of the stream.  IDF
weights stand for the corpus they were computed from, and a vector for its text
and those weights: two vectors are equal when they must be.

In `SharedStore` a process reads and writes the file part by part (`ReadPart`,
`WritePart`), each at a position of its own.  `Put` is what a write behind the end
of an emptied file does: it leaves a hole.  `met`, `clashed` and `caught` record who
overlapped with whom, and how, and the properties say what still holds.

`TextIngest` starts from every text and runs `ingest_text` character by character
where the code decides character by character (`SkipBlank`, `Advance`); a finished
paragraph is folded, embedded and stored in one action, as nothing else can
happen in between.  The hash is a constant that makes two words collide with
opposite signs.

In `Diskput` the program decides (`Descend`, `MakeDir`, `PutThere`, `Refused`) what
it will write, from its FAT in memory and the image, and `todo` holds the writes
in program order; `Write` makes the next one, `WriteFails` and `WriteLost` are a
failing write whose result is looked at, or is not, and `Kill` ends the program
between two writes.  `dir_find` and `dir_find_free_slot` pass over a block they cannot
read and find nothing when they cannot allocate: `Found` and `SlotPlans` are all
the answers a search can give then, and `failures` counts such a search only when
the answer differs from the right one.  `NoBuffer` is `put_file` without its buffer.

Every diskput after the first starts from the image the one before has left,
whatever happened to that one: `fs_open` looks no closer.  A kill between the two
FAT writes of `dir_get_slot` leaves a directory's chain running into a block that is
free (`Torn`), and the next diskput gives that block to its own file or directory.
The history variable `torn` keeps how the first diskput ended that left the image so,
and what diskget found then; the properties say what they claim of the time before,
and what of the time after.  For that a block of a file is also read as entries
(`EntryIn`): the byte in the place of a status says whether there is one in use
(`InUseBytes`), and an entry written there overwrites the bytes (`WithEntry`).
`EntrySize` is the distance of two entries.  A chain that does not end would be
followed for ever (`do |-> "loop"`); in the runs none comes up.

In `Ssi` one round of `check_bg_jobs` is one action, between two of which children
end; a process identifier is free again once the child was waited for, and may
be given to the next child at once.

Definitions that no action uses and that stand in front of another, like
`WakeFirst` before `WakeAll`, are the mistakes each property is tried against:
with that definition in place of the right one TLC finds the property violated
(`mutants` in `PROJECT.json`).

## 3. What the runs check

| Run | Instance | Properties |
|---|---|---|
| `pool` | 1 to 3 workers, batches of 1 to 3 tasks, 2 batches; fair | `ArgsLive` what is read without the lock is still the batch's; `RunOnce`; `NoLostWakeup`; `NoUseAfterFree`; `PoolSafe`, `PoolLive` it is `ParallelFor` with and without its fairness; `DestroyReturns` |
| `commands` | search with 1 or 3 threads over every store of 1 to 4 vectors, k 1 or 2; bench with rounds of 1, 2 and 4 threads, or with two queries a round; fair | `PrivateBuffers` scans do not disturb each other; `BestK` the result is the best k and the sequential one; `NothingLeft` no thread outlives a command; `CommandReturns` |
| `trains` | every input of 4 trains | `TrackExclusive`; `QueuesExact`; `NoLostWakeup`; `BoundedOvertaking`; `PriorityRespected`; `SingleTrackSafe` |
| `trains_live` | 3 trains, one may get no thread; fair | `EndsWhenAllCrossed`; `ReadyTrainsCross`; `Terminates` |
| `store` | 3 records, 2 texts, 3 faults | `LoadAllOrNothing`; `CleanMeansStored`; `TornFileReported`; `IndexOfPrefix`; `RoomForRecords`; `StoredOnlyGrows` |
| `shared` | 3 add commands on one file | `WritesApartLeaveAWhole` the file is one process's dataset as long as no two write at a time; `LostOnlyToALaterWrite` who can lose a record to whom |
| `text` | every text of up to 6 characters: two letters, blank, CR, LF and a mark; tokens of up to 2 characters, 2 buckets | `ParagraphsExact`; `VectorsExact`; `DocumentsCounted` |
| `diskput` | 7 blocks, paths of 1 or 2 names, files of 2 or 4 bytes in blocks of 2, one kill, one failing write, search or allocation | until a kill leaves the image torn `ChainsSound` and `PutIsAtomic`; `TornOnlyByKill` what leaves it so; `SuccessLeaksNothing` by diskinfo's count; `FilesKept` as diskget finds them and `EntriesKept` as disklist shows them, on a torn image too |
| `shell` | 3 jobs, 3 identifiers; fair | `ListExact`; `JobsAnnouncedOnce`; `TerminationsAnnounced` |

Three runs show where the code does something else than a document, comment or
message says:

- `store_autosave` (`ExitSavesAdditions`): the index runs out of memory after the
  record was added; `dirty` stays 0 and quit drops the record (`repl.c:159`).
- `diskput_again` (`PutThenGet`): a second put to a path succeeds and is never
  found (`diskput.c:205`).
- `diskput_status` (`SuccessIsWritten`): results of FAT writes and of `fclose` are
  ignored and 0 is returned (`diskput.c:174`).

Seen while modelling, and without a run: on an image that a kill has left torn
(`sfs_common.c:466`) the next diskput may give the block the directory runs into to its
file, find a free entry in the file's own bytes, write the entry over them and return
0, and diskget then copies out other bytes than were put in; `k` is tested as a `long` and stored in 32
bits, so a multiple of 2^32 becomes 0 (`repl.c:118`, `main.c:237`; `SetK` has the
conversion); `bglist` counts a job that ended since the prompt was shown, which is
as exact as the list then is (`ssi.c:146`); a directory that `dir_find` fails to
find is made a second time, diskput puts its file there and returns 0, and
diskget, which looks into the first, does not find it (`diskput.c:114`); `vecdb open`
reads the header only, so a store that is cut off behind it opens and does not
load (`main.c:25` calls it a check that the store is valid).

### Bounds, and why they are enough

- `MaxThreads`, `MaxTasks`, `MaxBatches` 3, 3, 2: a worker can take two tasks, sleep
  through a batch or lag behind into the next one, and the second batch reuses
  every field of the first.  For the safety properties the proofs lift the bounds.
- `Stores`: 1 to 4 vectors scored 1 or 2, and all orders of three scores: shares of
  2, 1, 1 and of 0, scores above, at and below the cut, lists that are full and that
  are not.  `Benches`: a second pool after the first (2, then 4 threads), and a pool
  that is asked twice; `MaxBatches` is the number of queries a pool is asked.
- `NTrains` 4: the fewest with which a waiting side could be passed over three
  times.  `MaxCreateFailures` 1: with no thread for one train the others go on.
- `MaxRecords` 3 with `FirstCap` 1 (16 in the code): the arrays grow twice.
  `MaxFaults` 3: a failing add, a failing index and a failing save in one life.
  `KValues` 8 stands for the 2^32 values of a `uint32_t`.
- `Procs` 3: two overlap and a third comes before, after or between them.  Nothing
  tells them apart, hence the symmetry.
- `MaxText` 6: two paragraphs of a word each with a line of blanks between; `TokenMax`
  3 (128 in the code): words of one character more than a token holds.  Two
  buckets, in one of which words of opposite sign meet.
- `NBlocks` 7 of which 4 are free, `EntriesPerBlock` 2: a root that grows, a
  directory and a file in it fill the image.  `FileSizes` 2 and 4, files that fill
  one block or two exactly -- one block is what a torn directory leaves to a file -- and 3
  in the runs with a finding; the theorems are about every size, 0 too.  `InUseBytes`: of the two entries that a block of a file
  is read as one is in use and the other is not; `EntrySize` 1 (64 in the code), so that two entries fit in a block of 2.
  `MaxDepth` 2.  `MaxKills` and
  `MaxFailures` 1 each, together in one behaviour: a search that misses a directory,
  a directory made again and a kill after it; or an image left torn, the file
  that gets the block the directory runs into, entries over its bytes, and a write
  lost on top of that.  `Names` are interchangeable,
  hence the symmetry; no liveness is checked there.
- `MaxJobs` 3: a node at the head, in the middle and at the end of the list; three
  identifiers, so that one is given again.

`CHECK_DEADLOCK FALSE` appears once: with a train that got no thread the main
thread of `p2` waits for ever, which is what the code does.  Everywhere else the
end of a program is an explicit step.

### Fairness

- Pool and trains: weak fairness for the steps of every thread that can run, as a
  scheduler that runs every runnable thread and a mutex that is passed on in the
  end give it; nothing is assumed of spurious wake-ups, of what a client calls
  next, or of the order in which the mutex is passed on.
- Commands of vecdb: weak fairness of the main thread and of each worker; no
  command has to be given, and `CommandReturns` speaks of one that was.
- Shell: weak fairness of the shell's own loop.  The user need not type and a
  child need not end: `TerminationsAnnounced` speaks of users who keep coming back
  to the prompt.
- Store, texts and image: none; there are only safety properties.

## 4. What is proved

`SearchProofs`, first part: the pool (any number of workers, tasks and batches): `TypeOK`,
`ArgsLive`, `RunOnce`, `ActiveCount`, `NoLostWakeup`, `NoUseAfterFree`, and
`PoolRefinement`, that every step of the pool is a step of `ParallelFor` or leaves
its state alone.  The one assumption is `PoolAssumption` (a positive number of
workers, natural bounds).

None of these is inductive by itself.  `IInv` adds `Claims` -- the indices workers
hold are below `next` and distinct, and a task that was handed out was run or is
pending at a worker -- and `Lifecycle`, what the client's position says
about threads, the shutdown flag and `active`.  The key step is `NobodyHolds`:
`active` = 0 together with `ActiveCount` means no worker is between claim and
finish, which is why `pool_run` may return and the client may reuse or free
`args`.  The cardinality facts about workers that hold a task (`OneMoreHolder`,
`OneHolderLess`) carry `ActiveCount` through claims and finishes.

`MTSProofs` (any number of trains, any input, any number of thread failures):
`TypeOK`, `TrackExclusive`, `QueuesExact`, `NoLostWakeup`, `BoundedOvertaking`,
`EndsWhenAllCrossed`, `PriorityRespected`, and `SingleTrackRefinement`.  The
assumption is `TrainsAssumption`.  `IInv` joins the properties, since the
exclusive track rests on the queues (only a train that was never let go is in
one), adds `CrossedCount`, that `crossed` is the number of trains that are
across, and `Overtaking`, which ties the times a side was passed over to
`same_dir_count` and `last_direction`.

`SearchProofs`, second part: the algorithm (every store, every k): `SearchIsBest`, that the scan of
`vdb_search` returns `BestOf`, the best k with ties by position, and `MergeIsScan`,
that merging the lists of two consecutive ranges gives the list of both.  `IsTop`
says when a list is the best k of a set of vectors; inserting a vector stored
after all others keeps it (`ScanNext`), inserting the hits of another such list does
too (`MergeStep`: a hit the list drops is behind k others already), and a set has
only one such list (`TopUnique`).  A scan is a recursive function of its length,
and the induction over it is by the least length for which the claim fails.

Third part: the commands (any number of threads, any stores and k, any benchmark):
`NothingLeft`, `PrivateBuffers` and `BestK`.  A command moves the pool by steps of the
pool only, and a new pool of a benchmark starts as a pool does, so `CInv` is the
pool's `IInv` and what the command's place says of it (`Driver`).  `SInv` adds
`Parts`, that a worker's part of `localbuf` is the scan of the vectors it has come
to -- the parts lie apart (`PartsApart`), so no other worker's insertion touches it --
and `Results`, that the merged hits are the scan of the ranges merged so far.  That
all parts are finished when the merge begins comes from the pool's invariant, and
`BestK` from the two theorems of the second part.  `CommandsAssumption` says that a
store is finite and numbered from 0, and that k is not 0.  The second leaves out a
case the code has: `cmd_search` tests k as a `long` and stores it in 32 bits
(`main.c:232-237`), so a multiple of 2^32 is searched for as 0, and `topk_insert` then reads
a hit outside its list (`search.c:16`).

`VdbFileProofs` (every dataset): `OnlyTheWholeLoads`, that of the parts `vdb_write`
puts down a prefix loads only if it is all of them, and `LoadedIsWritten`, that
it then loads as the dataset that was written.

`VecdbProofs` (any number of records, failures and kills): `LoadAllOrNothing`,
`CleanMeansStored`, `TornFileReported`, `IndexOfPrefix`, `RoomForRecords` and the action
property `StoredOnlyGrows`.  What a cut file is a part of is not in the file, so
`FileBegun` ties it to the dataset `vdb_write` was last called with; `TornKnown` and
`CleanSession` say where a report and a cleared `dirty` can be, and `Kept` what the
process in memory has of the last complete file.

`SharedStoreProofs` (any number of processes): `WritesApartLeaveAWhole` and
`LostOnlyToALaterWrite`.  As long as no two have written at a time the file is what
its one writer has begun (`FileBegun`); a process that was not caught reading while
another wrote has loaded the dataset of one process (`Reads`), and what that one
lacks was written, or lost, by a process it met (`Records`, `Lost`).

`TextIngestProofs` (any text of letters, blanks, newlines and marks, any hash, dimension
and length of a token): `ParagraphsExact`, `VectorsExact` and `DocumentsCounted`.  The
definitions they are held against look at the whole text at once, so the invariant
must say of a part of it what is settled.  `Divided`: there is a newline at which
no paragraph goes on (`Gap`), every paragraph lies before or behind it (`GapDivides`),
those before it are stored, in order, and from it to `p` all is blank (`Between`) or
the beginning of one paragraph (`Inside`).  Where `ingest_text` ends a paragraph there
is a gap again, and exactly one paragraph between the two (`ClosedIsParagraph`,
`ClosedIsOnly`).  For a payload, `Counted` says that the words that end in what was read of
it are counted, and `Open` that the token is the letters since the last delimiter, cut
to its length; that both hold after each character (`CharacterRead`) is shown by the
first one after which they do not.  The theorem about documents is then arithmetic of
finite sets.  `IngestAssumption` says that the marks are not letters, and of `Hash` only
that it gives each token a bucket and a sign.

`DiskputProofs` (an image of any size, any names, files and paths, any number of
runs, kills and failures): `TornOnlyByKill`, and as long as no write is lost unnoticed
`ChainsSound`, `SuccessLeaksNothing` and `PutIsAtomic`, the first and the last until a kill
has left the image torn (`TornByKill`).  From there on chains do share blocks, and
what is left of the order in the image (`FilesKept`, `EntriesKept`) is model-checked only.
None is inductive, for they speak of the FAT on disk, which is
behind the program's, and only of what is linked.  `IInv` is about the FAT in
memory, and about every directory block with an entry in use, linked or not: their
chains end in an end mark, have no block twice and none in common (`Sound`).  The
image lags behind by the writes in `todo` (`Ahead`); these go to blocks that were
free, but for the old last block and the new one of the directory that is extended
(`Extending`), and the entry comes last, into a free place of the directory the
program stands in (`Linking`).  So the image is in good order before any of those
two writes and after both (`DiskSound`); between them the directory runs on into a
free block, which is what a kill leaves (`Overrun`).  Neither of the next two writes is
checked there: one that fails is not noticed, diskput goes on, and so no failure
that is noticed but only a kill leaves the image torn.  That the first diskput to do
so was killed is kept in `torn`, for the next one starts on the image as it is.

The lemmas are about chains.  `FollowChain` is a recursive function of the number of
blocks to go; what it returns is described once, for any sequence in which each
block leads to the next (`FollowsPath`), by the least length for which that fails.
`SameChain`, `SoundSame` and `SoundLonger` then say what a change of the FAT does to
all chains, and that no chain is longer than the image has blocks is the pigeonhole
principle (`ChainLength`).  A decision is a plan (`OwnPlan`) of free blocks and writes to
them; `SlotLinks` shows once for `create_dir` and `put_file` what linking a plan does, in
a place that is there, in a new block, or not at all.  The assumptions are
`ImageAssumption` (the entries of a block fit into it, and a byte of zero is no entry in
use), `DiskputAssumption` and `NamesAssumption`.

`SuccessLeaksNothing` counts blocks, and its proof does not: it shows two sets equal.
`Tidy` says that as long as no diskput failed every block marked as used in `mem` is in the
chain of the root or of an entry, wherever that entry is (`NoStrays`), or in the chain that
`todo` ends by linking (`Awaited`); and that each directory with an entry in it is itself
linked or about to be.  A decision adds its own plan to what is awaited
(`GrownMarked`), the write of the entry moves it to what is linked (`LinkNoStrays`),
and any other end of a plan is a failure.  When nothing is being written `mem` is the
FAT on disk and nothing is awaited, so what is marked is what is reached
(`AllReached`), and `CountMarked` turns the equality into diskinfo's numbers.

`PutIsAtomic` says that what diskget finds in the image is a step, or no step, of
`FileMap`.  Which bytes it finds depends on the names in every directory on the way,
on which entry of a name comes first, and on the bytes of a chain.  `Shown` adds these to
`IInv`: no directory has an entry in use behind a free place (`Packed`), the way to the
current directory has the names of the path (`WayNamed`; `WaysUnique`: only that path
leads there), blocks are written that are in no chain or are the directory's new end
(`Apart`), and the entry, which is the last write, goes into the first free place and
leads to a chain whose blocks hold all of the file, or are about to (`Complete`).
`dir_get_slot` searches when the file's bytes are written; they are in no directory's
chain, so it finds what it would have before (`SlotSeen`).  The
proof has three parts.  The FAT on disk and `mem` show the same at every moment, in the
middle of a plan and between the two writes that extend a directory too, where one is a
block short or runs on into a block without entries (`DiskShows`).  A write of a block
shows nothing (`BlockWriteSame`).  The entry comes behind all others of its directory, so
it is found only where nothing of its name was (`GetAfter`), and then it shows `data`
(`EntryShowsData`, `ExtractsData`) at `path` and nowhere else (`EntryShowsOne`).  A search
that passes over a free entry (`skipped`) makes a later entry come before others, and
is where the argument, and the claim, end.

`SsiProofs` (any number of jobs and identifiers): `ListExact`, and
`JobsAnnouncedOnce`, that the shell implements the safety part of `JobTable`.  The
invariant speaks of `Alive`, the nodes allocated and not freed: each points to the
next older one (`Chain`), `check_bg_jobs` stands on one and behind its predecessor
(`Cursor`), and nodes and children name each other (`Children`).  That the nodes the
shell walks, `From[bg_head]`, are those is `WalkIsAlive`, an induction over the
nodes by the least one for which it fails.  The refinement is then per job: a
step starts one (`JobStarts`), announces one (`JobIsTold`), or ends some
(`JobsEnd`), and identifiers given again do not matter because an identifier
belongs to one job at a time.

Every assumption is one the modules declare (`PoolAssumption`, `TrainsAssumption`,
`CommandsAssumption`, `IngestAssumption`, `VecdbAssumption`, `DiskputAssumption`, `NamesAssumption`,
`SsiAssumption` and those they extend); TLC evaluates them in the runs.

Only model-checked:

- What lives under fairness (`PoolLive`, `DestroyReturns`, `CommandReturns`,
  `ReadyTrainsCross`, `Terminates`, `TerminationsAnnounced`): liveness and `ENABLED` are
  beyond the prover.
- Of `Diskput`, `FilesKept` and `EntriesKept`.  As long as no write is lost and the image
  is not torn `FilesKept` follows from `PutIsAtomic`, for a put starts from a path without a
  file; it also says what holds after lost writes and on a torn image, where `IInv` does
  not.  `EntriesKept` compares lines that
  `SelectSeq` picks, and would need an induction over it.
- `ChainsSound` when writes are lost unnoticed, which the run checks for one such failure.
  It does not hold for any number of them: when a search fails, and both FAT
  writes of the new block it leads to and those of the file put there are lost,
  the file's entry stands in a free block, and can come back into the directory
  when others use the file's blocks (`MaxFailures` 5).  Hence `lost` in the theorem.

## 5. What is not modelled, and why

- Numbers: dot products, weights and norms, the hash function, byte order, offsets,
  dates.  Scores are integers, so no score is a NaN.
- What only prints: `stats`, `open` and `embed` of vecdb, the train log, the report of
  `diskinfo` beyond its counters; and the parsing of arguments, input files, paths
  and command lines.  `bench --gen` is a store like any other.
- Several processes on an image, several sessions on a store.  A session holds
  its dataset longer than `add` does, but reads and writes the file in the same way.
- In `SharedStore` a text that is read from the wrong place is garbage of one kind,
  although it might by chance be a text of the store.
- Loss of power: what a program has handed to the system reaches the disk.
- What `read_host_file` and `split_path` do: `Contents` and `Paths` are what they deliver, any
  file and any path of names, each read in full.  The cast of a file's length to 32
  bits, the cut of long names and a file that cannot be read are left out.
- Failing reads of the superblock and the FAT end a program before it has done
  anything.  Block 1, the FAT, can be read as entries or as a file only through a
  torn chain; its bytes are then `Unwritten`, not those of `fat`.
- A write that sits in the buffer of the stream fails with the one that pushes it
  out, so one failure loses up to two writes in a row (`WriteLost`), and no more.  That
  `dir_get_slot` finds no memory for its block of zeros is such a lost write.
- The shell's parsing, `cd`, prompt and stopped jobs; what stdio does with output
  not yet flushed when a child exits.

## 6. Plan

Done: the pool, the search and the commands around it, the scheduler, the store
alone and shared, the session, addfile from the text to the index, diskput with
diskget, disklist and diskinfo, the shell; the proofs of the safety of all of these
but disklist.

Next, in this order:

1. `EntriesKept`, and `FilesKept` after lost writes: a put adds one entry behind all
   others of its directory, unless a search passed over a free one.
2. What survives on a torn image, which the run checks for one kill and one failure,
   as a theorem.
