# A verification project for `retrieval`

`retrieval` finds vehicles and persons that look alike. It extracts feature
vectors from images with a caffe network, keeps them in a faiss IVFPQ index,
keeps attributes (colour, type) in MySQL, and answers a query by intersecting
the nearest neighbours with the rows that match the attributes. This directory
holds TLA+ models of its own code and of the parts of the vendored libraries
whose control its correctness rests on, TLC configurations that check them,
and TLAPS proofs.

Paths below are relative to the repository's root.

## The system: inventory

| Component | Code | State | Operations | What makes it correct |
|---|---|---|---|---|
| `retrieval::FeatureIndex` | `include/Retrieval.h`, `src/retrieval/Retrieval.cpp` | `_index`, `_quantizer`, cached parameters, `_size` | construct (3 ways), train, probe, add, delete, search, write, read | cached fields agree with the index; labels identify vectors; a call in the wrong order is refused or ends the process |
| IVFPQ index | `faiss/IndexIVF.cpp`, `faiss/IndexIVFPQ.cpp` | coarse quantizer, PQ codebook, per list the parallel vectors `ids`, `codes`, `ntotal` | train, add, search, remove_ids | label and code stay paired; counts exact under OpenMP; no entry lost; the nearest are found and come sorted |
| k-means | `faiss/Clustering.cpp`, `faiss/utils.cpp` | the table of centroids, an index lent by the caller | train | no point counted twice or lost by the team; no void cluster; the best redo is kept; it ends |
| Index file | `faiss/index_io.cpp` | one file, written field after field | write_index, read_index | what is read back is what one process wrote |
| Programs | `src/main/*.cpp` | process-local index, the shared file `index_IVFPQ` | build and save, read and add, read and query | they agree on what is in the file, whatever overlaps or dies |
| Feature extraction (`feature_index::Feature`) | `src/cfeature/Feature.cpp` | the net, position in the list (inside the layer) | extract in batches and a remainder; attributes; from memory | feature *k* belongs to image *k*; the class stored is the class of that image |
| Prefetching image layer | `caffe/.../base_data_layer.cpp`, `image_data_layer.cpp`, `internal_thread.cpp` | a pool of batches, two queues, the list of images and a cursor, a worker thread | set-up, load, Forward, stop | one owner per batch; batches in order and whole; every pass serves every image once; no hang, also at shutdown |
| Blocking queue | `caffe/.../blocking_queue.cpp` | queue, mutex, condition variable | push, pop, try_pop, peek | FIFO; no lost wake-up |
| MemoryDataLayer | `caffe/.../memory_data_layer.cpp` | a bare data pointer, cursor, blob | AddMatVector, AddDatumVector, Reset, set_batch_size, Forward | the cursor stays inside the data; what was added is shown before it is replaced |
| SyncedMemory | `caffe/.../syncedmem.cpp` | head position, two pointers, ownership, allocator | cpu/gpu access, set, async push, destruction | a reader sees what was last written; each block is freed once, the right way |
| Attribute store (`FeatureSQL::FeatureSql`) | `src/db/featureSql.cpp`, `src/main/FeatureWithAttrTest.cpp` | MySQL handle, two maps, result array | read names, assemble a condition, search by colour, type, condition | the condition means what was asked; every matching row is in the result |
| Person attributes (`attrOfPerson::PersonAttr`) | `src/personAttr/personAttr.cpp` | thresholds, open files | scores, union of groups | every answer is the one the attribute table lists |

How they interact. A program constructs a `retrieval::FeatureIndex` and calls it
from one thread; the index calls faiss, which forks OpenMP teams inside one
call. Programs interact only through the index file. A program that extracts
features constructs a network whose first layer is the prefetching layer or
the memory layer; in the first case a worker thread and the program's thread
share the batches through two blocking queues, and the batches' memory is
SyncedMemory, copied to the GPU by the worker. The attribute store talks to a
MySQL server; the query program intersects its rows with the labels the index
returned. Exceptions of faiss are caught nowhere and `CHECK` of caffe aborts, so
an error ends the process.

What is hard: the OpenMP loops, one that deletes in place and one that shares
the centroids out; two programs that check and open the file at once, or one
that is killed while it writes; the buffers that change hands between two
threads, one of which releases its buffer before it has the next; shutdown by
interruption; a bare pointer into a blob that another call may reallocate; flags
that say who owns and who frees a block; a remainder that uses part of a batch
and leaves the list elsewhere; arrays that are allocated and not filled;
sequences of legal calls that leave the label counter below labels in use.
`PROJECT.json` lists these hazards, each at its line, with the properties that
would catch it.

## Modules

```
AtomicRemove <-refines- RemoveIds                <- MCRemoveIds, RemoveIdsProofs
IndexIVFPQ   <-extends- FeatureIndex             <- MCFeatureIndex, FeatureIndexProofs
                        IndexPrograms            <- MCIndexAndSearch   } IndexAndSearch-
ResultHeap   <-extends- KnnSearch                <- MCIndexAndSearch   } Proofs
BatchStream  <-refines- PrefetchingDataLayer     <- MCPrefetchingDataLayer,
                                                    PrefetchingDataLayerProofs
FifoQueue    <-refines- BlockingQueue            <- MCCaffePrimitives  } CaffePrimitives-
Cell         <-refines- SyncedMemory             <- MCCaffePrimitives  } Proofs
BatchExtraction <- ImageExtraction  ---+
BatchExtraction <- MemoryExtraction ---+-> FeatureExtraction <- MCFeatureExtraction,
MemoryDataLayer <-        |                                     FeatureExtractionProofs
                        PersonAttr               <- MCFeatureExtraction,
                                                    FeatureExtractionProofs
FeatureSql, AssembleSQL, AttributeQuery -> AttributeStore    <- MCAttributeStore,
                                                                AttributeStoreProofs
                        Clustering               <- MCClustering, ClusteringProofs
```

An operator that starts with "Faulty" or "Mutant" in its comment is a plausible
bug in the definition after it; no specification uses it. It stands beside the
definition so that a property's run can be repeated with it in place.

Three MC modules hold two components each, which share no variable and do not
call each other: `MCIndexAndSearch` the programs and one search,
`MCCaffePrimitives` the queue and the memory, `MCFeatureExtraction` the extraction
and the attributes of persons. `followed` names the one that moves in a behaviour, the
other stays where it began; since the two commute, nothing is lost by it.

**RemoveIds** is one call of `IndexIVFPQ::remove_ids`. `ids` and `codes` are the
parallel vectors, `l` and `j` the cursors of the iteration of each list, `part`
the private `nremove` of each thread. `Begin` is the head of an iteration,
`Overwrite` and `Keep` the two branches of the inner loop, `Resize` the code after
it, `Join` the reduction, `Return` the update of `ntotal`. Threads take lists in any
order, which covers every OpenMP schedule. `orig` and `gone` are history: which
entry is where, and which were dropped. **AtomicRemove** is what the caller may
rely on: all selected entries leave in one step and the count is their number.

**IndexIVFPQ** is the index as a value. Since RemoveIds shows that a removal is
atomic and exact for the caller, here it is a set difference. Entries carry the
generation of the codebook that encoded them; `added`, `ignored`, `holed` are
history. A vector whose key is -1 (distances that are NaN never beat the heap's
start value) is counted by `ntotal` and indexed nowhere. **FeatureIndex** is the
class over it, one process at a time, with the file that outlives the process:
one action per method; a method called on a NULL index or refused by faiss with
an exception ends the process (`Crash`). A field that no constructor sets has
the value `Garbage`. A refused write or read changes nothing and is no action.
The file is the index and whether it is whole; the read of one that is not
throws.

**IndexPrograms** is several processes that run the programs of `src/main`. The
file is a sequence of three parts, in the order `write_index` emits them: header
and coarse quantizer; labels; product quantizer and codes. Each `WritePart` puts a
part on disk at the writer's own offset, so two writers interleave as two
streams on a file do; a writer that is killed loses what it had not flushed.
Every training makes new quantizers, told apart by a number.

**KnnSearch** is one query: the coarse search, then the lists one by one, entry
by entry, into a heap of results, with the limit on codes, then the reordering. The
branch for a key of `nlist` or more is left out: the quantizer gives no such key.
**ResultHeap** holds faiss's heap functions as recursive functions over the places
of the 1-based array, sift-down through the hole that pop leaves included. Distances are
small numbers; the greatest stands for infinity and NaN, which no heap accepts.

**Clustering** is `Clustering::train`, called any number of times on one object and
one index: the redo loop, the iterations, the team of `km_update_centroids` in which
each thread counts its slice of centroids, the repair of void clusters with its
random search for a donor, the final choice. A table of centroids is named by
the call, redo and iteration that made it; one given on input may have the wrong size.

**PrefetchingDataLayer** is the layer with its worker thread and the two queues. A
queue operation runs under the queue's mutex and is one step; the notification
after the unlock is another. `wait` is left by a notification, spuriously, or by an
interruption. `LoadItem` is one turn of the loop in `load_batch`, with the
wrap-around and the reshuffle; between two of them the other thread may do anything.
`host` and `dev` are the two copies of each batch. `loaded` and `served` are history.
**BatchStream** is its abstraction: batches come in the order they were loaded, each
once, stay as they are while viewed, and at most `Depth` are read ahead.

**BlockingQueue** is the queue by itself, any number of threads in any of its
blocking calls; **FifoQueue** is what they may rely on, its liveness included.
`peek` wakes up on the notification meant for a `pop` and consumes nothing, so the
promise that no thread waits beside an item is made only while nobody has peeked;
the program's code never peeks.

**SyncedMemory** is the memory of one blob, call by call, with the blocks it
allocates followed beside the object until its destructor, and a caffe mode
that changes between calls; **Cell** is one memory with readers and writers.

**BatchExtraction** is the loop the four functions of `feature_index::Feature` share:
whole batches, then a remainder. **ImageExtraction** draws from the prefetching layer,
used here as PrefetchingDataLayer shows it to be (the m-th Forward shows the m-th
batch of the list, round and round); **MemoryExtraction** from the
**MemoryDataLayer**, modelled whole: the pointer into the blob's memory is a tag
(`added`, `freed`, `caller`) beside the memory, so that a reallocation by
`set_batch_size` is seen, and `fit` says whether images pass the transformer's `CHECK`s
of size, channels and depth (`data_transformer.cpp:239-291`). **FeatureExtraction** puts them together: `use` says whether
the network has a list, a memory layer under the extraction functions, or a
memory layer that a caller uses directly, which is settled by the prototxt.

**AssembleSQL** builds a condition from a list of relations as a sequence of tokens and
reads it back by SQL's grammar, recursively; **FeatureSql** is the tables of names,
read from a file or given as arrays, until the destructor. A number of an attribute
that is no index of its array is written outside of it (`featureSql.cpp:43`), which is
undefined behaviour. **AttributeQuery** is a
search with `HandleResult` and the intersection of `FeatureWithAttrTest`. The MySQL
client and server are external: a query fails or has some sequence of rows.
**AttributeStore** is the object with all three. They share no variable, so `part`
names the one that moves: their steps commute and nothing is lost by it.

**PersonAttr** is a `PersonAttr` object with its real sizes: 109 scores and 64 answers
for each person, flat matrices, the four shifts of the index, and the file descriptors
that `readFile` never closes.

## Runs and what they show

| Run | Instance | Shows |
|---|---|---|
| `remove_ids` | 3 lists, up to 3 entries between them, 2 threads | `PairsIntact`, `NoEntryLost`, the inductive invariant, for every initial content; the call returns; it refines AtomicRemove |
| `feature_index` | 3 vectors, one with a NaN; 3 additions; 1 training | `CachesAgree`, `LabelsIdentify` and the inductive invariant |
| `index_and_search` | 2 processes, 2 rows, 4 trainings; up to 5 codes in 2 lists, a heap of 4, with and without a limit of 2 codes | `OneTraining`, `LabelsAreRows`, `ClosedFileIsFinal` and the inductive invariant of the programs; `ListsScanned`, `ResultsAreNearest` of the search |
| `visited_within_limit` | as `index_and_search`, with the limit | violated: a search visits more codes than `max_codes` |
| `prefetch` | 2 buffers, 3 lines, batches of 2, shuffle, skip, GPU, 4 Forwards | `OneOwner`, `ServedInOrder`, `NoLostWakeUp`, `EachPassComplete`, the inductive invariant, the refinement of BatchStream, `ForwardReturns`, `StopReturns` |
| `extraction` | 5 lines or up to 4 images in memory, batches of 2, calls for 0 to 5 images, 8 Forwards; 2 persons, 12 descriptors | `RowsExact`, `GapsAreRemainders`, `MemoryCalls`, `ChunksInOrder`, `AddedAreShown`; `AnswersByTable` of the attributes |
| `remainder_is_class` | as `extraction` | violated: the remainder stores the score, not the class |
| `attribute_store` | up to 5 relations, 2 names, 4 lines of input, 3 ids, 3 neighbours, answers of 3 rows | `ConditionMeansGroups`, `PersonComplete`, `SingleRowExact` |
| `found_is_wanted` | as `attribute_store` | violated: with several rows what is found is not the intersection |
| `caffe_primitives` | 4 threads, 3 pushes, 1 peek; the contents zero and two others, a CUDA build | `QueueIInv`, which implies `NoLostWakeUp`; the refinement of FifoQueue with its liveness; the memory's invariant and the refinement of Cell |
| `clustering` | 3 centroids, 2 threads, up to 4 points, 1 and 2 redos | `EveryClusterHasItsPoints`, `BestIsKept`, `OutputIsIndexed`, `Returns` |
| `trained_is_indexed` | as `clustering` | violated: after several redos the index is empty |

A property is stated of correct code. Where the code does something else, the property
is left as the document states it and its run finds the violation, or it says in its
premise what it leaves out: `LabelsIdentify` the additions after a delete of labels below
surviving ones, `OneTraining` and `ClosedFileIsFinal` the race of two builders,
`PersonComplete` the line that resumes a name, `SingleRowExact` answers of several rows,
`ChunksInOrder` what follows `set_batch_size`, the queue's promise of progress a
`peek`. These hazards are bounded by the properties, not caught.

Bounds, and why they are enough. In RemoveIds the loop treats a list by itself;
three lists make one of two threads take two, and three entries (the last, the
first, one moved in and looked at again) give every case of the inner loop. The
selector's range and the labels are one label inside and one outside. In
FeatureIndex three additions are enough to delete a label below a surviving one
and add again; a second training needs no second index. Two processes are enough
for every pairwise overlap, and since programs start again in place of dead
ones, any number of them act one after another; four trainings allow both to
build twice. In the prefetching layer four Forwards over two buffers reuse both,
and three lines in batches of two wrap around inside a batch and at the end of
one; other sizes and CPU mode are the proofs'. In the extraction five lines in
batches of two wrap inside a batch, calls have no, one and two whole batches
with and without a remainder, and eight Forwards allow several calls in a row.
Five relations give three groups, groups of three and every disagreement of the
three lists' lengths. Each range of attributes that the loops of PersonAttr treat
alike has its ends raised. In the queue two threads may wait while two push.
Three centroids for two threads have slices of different widths; with three
points `n - k` is zero, with four a sample may be drawn. A heap of four has three
levels, five codes overfill it, and every order and tie of the distances is
tried.

Deadlock is not checked where the system stops by design or the model's bounds
end it: after `Return` in RemoveIds, after the layer is destroyed or the process
aborts, after the last push, call or Forward that a bound allows, after a process
crashed. There the liveness properties say what must still happen. It is checked in
`feature_index` and `index_and_search`: a new process can always start, and a search
that has ended stays so.

Fairness. `remove_ids` assumes that every thread of the team keeps running, which
OpenMP's implicit barrier needs too. `prefetch` assumes that the operating system
runs both threads; whether `Forward` is called or the layer destroyed is left to
the caller, spurious wake-ups are never assumed, and an unreadable image may abort
the process at any item. `caffe_primitives` assumes that a thread inside a call goes
on when it can; nobody is assumed to call. `clustering` assumes that the program
runs, and that a random number that may be below the threshold for a cluster again
and again is so at last (strong fairness of the split at each cluster); without the
second the search for a donor, which has no other exit, need not end.

## What is proved

The theorems are in the `*Proofs` modules; they hold for every value of the constants
that satisfies the modules' assumptions.

- **RemoveIdsProofs**: the inductive invariant `IInv` says that what the cursors have
  passed is not selected, that a list is short by exactly what was dropped, and that
  the private counters add up to the entries dropped by completed iterations.
  `NoEntryLost` alone is not inductive, since it does not say that the cursor `l`
  bounds what is still to scan, nor `CountsExact`, which speaks of the end only. From it
  follow `PairsSafe`, `NoEntryLostSafe`, `CountsSafe`, and `ImplementsAtomicRemove`:
  every step but `Return` stutters in the abstract specification, and `Return` is
  its `Remove`. Assumed: the team and the set of lists are finite.
- **FeatureIndexProofs**: `IInv` adds to the properties that serial numbers of
  entries stay below the number of additions, so an add makes as many entries
  as it has indexed vectors. Proved: `CachesSafe`, `NtotalSafe`, `LabelsSafe`.
- **IndexAndSearchProofs**, of the programs and of the search they make. `IInv` of the
  programs says of each process what it holds by where it is, and
  of the file that, unless two builders have passed the check of the file together,
  there is one writer, the file's parts come from one source, and a reader has read
  a beginning of it. Proved: `OneTrainingSafe`, `LabelsSafe`, `ClosedFileSafe`, for any
  number of processes and trainings, killed and started again in any order.
  The search has an invariant of its own, `SInv`: which entries the counters have come
  past (`PastSet`), that the heap is one of the nearest of these (`HeapOf`), that no list
  is probed twice, so the entry offered next is new (`EntryNew`), and that nscan counts
  the open list before it is scanned. From it follow `ListsScannedSafe`, where a search
  with as many probes as lists needs a pigeonhole argument, and `ResultsSafe`.
  Both rest on lemmas about the heap functions for arrays of any size. `Recursion` shows
  that a function whose equation looks only at places of smaller rank exists, and
  `RankInduction` proves a set of such places full; they stand in for the library's
  induction theorems, which take operators. Pop and push are the same thing: a
  hole walks along a path, each element it meets moves one place, and the new element
  comes where it stops (`Filled`). So the array is rearranged and nothing is lost or
  doubled (`FilledRearranges`), and a heap stays one (`Popped`, `Pushed`). From these
  come `OfferKeeps` (a pop and a push keep the nearest, ties included), `AddedN`
  (`heap_addn`) and `TurnTurned` (one turn of `heap_reorder`, with unused places between
  the true ones). Assumed: `nlist`, `nprobe` and `k` are not zero; distances are natural
  numbers; `MaxCodes`, which only serves to give entries different labels, is not
  below the length of any list.
- **PrefetchingDataLayerProofs**: `IInv` adds to `OneOwner`, `NoBatchLost`,
  `ServedInOrder` and `NoLostWakeUp` the `Bookkeeping` of which loaded batch is in
  which buffer. `Quiet` collects the steps that move no batch; the other six are
  treated one by one. `ImplementsBatchStream` needs, besides the invariant, that a
  queue of distinct buffers lacking one of them is shorter than `Depth` (a pigeonhole
  argument, `ShortQueue`). Assumed: at least one buffer, one line and one item per
  batch, which `CHECK`s and the defaults of the protobuf give.
  `EachPassSafe` has an invariant of its own, since `EachPassComplete` speaks of loaded
  batches only: `PassInv` speaks of all items drawn, those of the batch that is being
  loaded included, and says of the pass under way that it follows the current order
  of the list. `PassGoesOn` and `PassEnds` are the two steps, over any function of
  the items, and `AppendedItem` the division that finds an item's batch.
- **CaffePrimitivesProofs**, of the queue and of the memory block.
  `QueueIInv` says that the items popped and queued are those
  pushed, and, while nobody has peeked, that an item beside a waiting thread has a
  thread awake for it. Proved: `NoLostWakeUpSafe`, `ImplementsFifoQueue` (the safety
  part of the refinement). Assumed: finitely many threads. `MemIInv` says by the
  head which side is current and by the flags which blocks live and how they were
  allocated. Proved: `CoherentSafe`, `FreedOnceSafe`, `ImplementsCell`, in builds with
  and without CUDA.
- **ClusteringProofs**: `PointsSafe` rests on the arithmetic of the slices (`Slices`:
  each centroid is in exactly one thread's slice, whatever the numbers of centroids and
  threads) and on choosing which of the donor's points move (`SubsetOfSize`).
  `BestSafe` follows from `BestSoFar`: `best_err` is the error of the kept table and a
  least one. `OutputSafe` is the action property about what the index holds when a train
  of one redo returns.

- **FeatureExtractionProofs**, of the extraction and of the attributes computed from it.
  `IInv` has one part per thing that must be known between two steps of a call: which
  call it is and how far (`CallInv`), how many batches the list's layer has given and when
  this call began (`ListInv`), what the memory layer's blob holds, where its cursor is
  (images shown modulo images added) and that a call made as it should be leaves nothing
  that would make the layer refuse the next (`LayerInv`, `MemInv`), and which rows
  already hold the result of which image (`RowsInv`). `RowsExact` alone is not
  inductive: it says nothing of the image that the next Forward shows. From it follow
  `RowsAreExact`, `ProperCallsReturn`, `ChunksFollow`, and the action properties
  `AddedImagesAreShown` and `GapsAreOnlyRemainders`, for every batch size, list and
  number of images; the lemmas on division say when a remainder is left and what a
  cursor modulo n is after k batches. Assumed besides the types: scores are integers
  (`ScoresAreInt`).
  `AnswersAreByTable` is the table of attributes: `AttrInv` adds to `AnswersByTable` that the
  persons the outer loop has passed have all their answers, by the equation of the
  loops.
  `SimpleIs` and `Together` compare each shift of an index in `personAttr` with the order of
  `att_index.txt`, one attribute at a time, for any number of persons. Assumed: a
  process cannot have started with more descriptors than it may have.
- **AttributeStoreProofs**: `ConditionIsGroups`, `PersonIsComplete`, `SingleRowIsExact`. `ConditionInv` says of the text built so far where each comparison
  stands and which connective or parenthesis is on either side of it; from it
  `MeansGroups` shows for any number of groups and choices that reading the text by
  SQL's precedence gives the conjunction of the groups. The reader is a recursive
  function over positions; that it exists, and so has the value its equation says,
  is proved from the well-foundedness of the naturals (`LeastNat`), since the induction
  theorems are out of reach. `PersonInv`, `QueryInv` and `StoreInv` say what a started
  insertion and a started query have done. Assumed: the blank of an attribute that was
  not recognised is no attribute's name (`BlankIsNone`).

Each also has the type invariant (`TypeSafe`, or as part of the invariant proved).

Only model-checked: liveness (`Returns`, `ForwardReturns`, `StopReturns`, that of
FifoQueue), which is out of the prover's reach. Every safety property of the passing
runs is a theorem.

## Where code and documents disagree

Four runs refute what a comment says of the code.

- `remainder_is_class`: `src/cfeature/Feature.cpp:202` says of the remainder that it is
  written as the rest; the loops over it store the score, cut to an integer, where those
  over whole batches store the class.
- `found_is_wanted`: `src/main/FeatureWithAttrTest.cpp:23` announces the intersection of the
  neighbours and the rows; `HandleResult` never increments `num` (`src/db/featureSql.cpp:94`),
  so of several rows the last remains, in the first place, and the other places are
  never written. With at most one row the intersection is exact (`SingleRowExact`).
- `trained_is_indexed`: `faiss/Clustering.h:48-49` says of every `train` that the centroids
  are added to the index; after several redos it is empty. With one it is so
  (`OutputIsIndexed`).
- `visited_within_limit`: `faiss/IndexIVFPQ.h:40` calls `max_codes` the "max nb of codes to
  visit to do a query"; it is compared after each list (`IndexIVFPQ.cpp:1032`), and the
  list that reaches it is scanned to its end. No list is begun after that, and none is
  left out before (`LimitIsKept`, a part of `ListsScanned`).

Other disagreements were met while modelling; the models have what the code does, and
the properties are stated so that they hold of it:

- `faiss/Index.h:65` calls `ntotal` the "total nb of indexed vectors"; a vector with
  a NaN is counted and not indexed (`NtotalAccounts`).
- `include/Retrieval.h:64-65`: after one of the constructors `getProbe` answers a field
  that nothing has set (`CachesAgree` excepts it).
- `src/main/testRetrieval.cpp:53` prints "Index Save Done" also when the write was
  refused or another builder writes the same file.
- `src/main/FeatureWithAttrTest.cpp:19-23` describes a search in the index; the index
  its file was saved with may have no vectors yet.
- `src/db/featureSql.cpp:30`: `InitMapType` fills the array of colours, `featureSql.h:63`
  describes one of types.
- `src/cfeature/Feature.cpp:173`: an image whose scores are all -1 or less has class -1,
  which the list of classes does not have (`ClassOfRow`).
- `caffe/docs/tutorial/layers/memorydata.md:12` says the source is read one
  batch-sized chunk at a time; after `set_batch_size` the cursor may run over an array
  that is no multiple of the size, or that was freed (`ChunksInOrder` excepts it).
- `faiss/Clustering.h:49-51`: a table given on input "is also used for initialization";
  with several redos it is not, and when all their errors are infinite it is what
  `train` leaves (`BestIsKept`).

One doubt of the code's own is settled. `caffe/include/caffe/common.hpp:143-147` warns
that a change of mode may free pinned memory in a non-pinned way and says that nobody
has verified it; the allocator is remembered with the block, so it does not
(`FreedOnce`, proved for every sequence of calls).

## Not modelled, and why

- Distances, quantization and the network's arithmetic are numeric. They are abstracted
  to the list a vector belongs to, to small numbers that are compared, or to a function
  of the image.
- Memory leaks (the selectors of the delete methods, the index replaced by a read) have
  no effect the models could show. Training on vectors with a NaN reads a centroid at
  index -1 and is not among the inputs of FeatureIndex; Clustering has it, as an abort
  or, in a build without asserts, as a search for a donor that need not end.
- `src/main/testMem.cpp` allocates an array and waits for input; it keeps no state
  (`src/main/CMakeLists.txt` builds the target `FeatureWithAttrTest` from it).
  `Feature.h:64` declares `floatToUnsignedChar`, which is defined nowhere.
- `personAttr` reads `invDwTDw.txt` and `Dw.txt`, which the repository does not have; the
  model assumes that files open as long as there are descriptors.
- The destructor of `FeatureSql` (`include/featureSql.h:37`) deletes pointers that not
  every life has set. The model has it as undefined behaviour that ends the process;
  that such a life exists is no property.
- The rest of faiss (other indexes, GPU code, numeric kernels) and of caffe (layers,
  solvers, training) is vendored and not called by these programs, or numeric. Most of
  the repository's lines are generated or third-party in the same way: the Python
  bindings (`faiss/python/swigfaiss*_wrap.cxx`, 119 000 lines) and the copy of googletest
  (29 000 lines) alone are three quarters of them, so the share of all lines that the
  models stand for is small by nature.

## What is left to do

1. `search_and_reconstruct` and the polysemous scan, should a program come to use them.
