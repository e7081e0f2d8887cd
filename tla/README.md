# A formal model of the Elastic sketch

This directory holds TLA+ modules that model the code of this repository, TLC
configurations that check them on small instances, and proofs that TLAPS checks
for every value of the constants. `PROJECT.json` lists the components, the runs,
the source lines behind every definition, the hazards and the theorems.

    tlasany M.tla                        parse a module
    tlc -workers 2 -config X.cfg M       check module M under X.cfg
    tlapm ElasticSketchProofs.tla        check the proofs

Line numbers below refer to the files under `src/` of the repository, which are
named without that prefix.

## 1. The system

The repository is the artifact of the Elastic sketch, a data structure that
counts packets per flow, with versions of it for several platforms, the
sketches it is compared with, and two programs that feed it concurrently.

### The sketch (`CPU/elastic`)

| part | state | operations |
|---|---|---|
| `HeavyPart` (two builds, `HeavyPart.h` with AVX2 and `HeavyPart-noSIMD.h`) | `buckets[b].key[8]`, `buckets[b].val[8]`: seven lanes for resident flows, an eighth, the guard lane, whose `val` counts votes. The highest bit of a lane's `val` is a flag: some packets of the resident may be in the light part. | `clear`, `insert` (returns 0: counted, 1: a resident was displaced, 2: rejected), `quick_insert`, `query` |
| `LightPart` | `counters[]`, saturating bytes; `mice_dist[256]`, the histogram of their values | `clear`, `insert` (add), `swap_insert` (raise to), `query`, `compress`, `query_compressed_part`, `get_cardinality`, `get_entropy`, `get_distribution` |
| `ElasticSketch` | the two parts | `clear`, `insert`, `quick_insert`, `query`, `query_compressed_part`, `get_heavy_hitters`, `get_cardinality`, `get_entropy`, `get_distribution` |

`ElasticSketch::insert` gives the packet to the heavy part and acts on what it
returns: on 1 it hands the displaced count to the light part, by adding when the
flag was set and by raising otherwise; on 2 it adds the packet itself. `query`
adds the light counter when the flow is not resident or its flag is set. What
makes it correct: no packet is lost between the parts or counted twice, over any
history of displacements and returns of a flow.

Hard here: long sequences (a flow that leaves, comes back and leaves again), the
flag that must follow the flow's history, key 0 as the mark of an empty lane,
weights, the guard lane, saturation, the histogram kept beside the counters,
ratios that do not divide the size.

### The feeding programs

| program | state | interaction |
|---|---|---|
| Multi-core (`MultiCore/multi_thread.cpp`) | per thread: `packet_buffer`, a ring; the counters `cur_packet_num_push` (written by main) and `cur_packet_num_pull` (by the thread); `insert_finish`, `begin_insert`; main's `main_buffer` | main deals the packets of a trace out by key and copies them to the rings a thousand at a time; each thread feeds a sketch of its own; nothing is locked |
| OVS (`OVS/ovs`, `OVS/user_reader`) | nine rings in shared memory, in each two published indices, and for each side a private index, a cached copy of the other's published one, and a batch counter | each poll-mode thread of the switch makes a ring under its own name, writes a tuple per packet and spins when the ring is full; a separate process connects to all names and reads the rings in turn; each side publishes its index every `RB_BATCH` tuples |

Hard here: interleavings of unlocked code, decisions on stale copies, two hoarded
batches in one bounded ring, a reader that is killed and restarted, a switch that
makes its rings anew while the reader maps the old ones, the race at the end,
variables read without synchronisation.

### The hardware versions

| version | state | interaction |
|---|---|---|
| GPU (`GPU/elastic_gpu.cu`) | four heavy tables `kernel_heavy` of buckets (flag and count, key, votes), a `mutex` per bucket, `kernel_light` | one GPU thread per packet takes the lock of one bucket of each table in turn, ten attempts each, and carries on what it displaces; the host queries the copies after the launch |
| FPGA (`FPGA`) | per heavy table a RAM of buckets, a half that issues reads (`heavy_part_table_read<i>`) and a half that compares and writes (`heavy_part_table_compare<i>`), a FIFO before each; then the light part | every register moves at every clock; the halves know by counting clocks which RAM output belongs to which word; almost-full signals hold back the sender |
| P4 (`P4_cpu_implementation`) | `ElephantPart_4`: four stages, each with a cell (`buckets`) and votes (`sentry`) for a flow | a flow that is turned out of a stage tries the next; what `insert` returns says whether one has to go to the light part. `elastic.p4` has the same stages as tables of a switch. |

Hard here: a bounded spin lock whose failure returns an uninitialised variable, a
flag carried from table to table, a pipeline that reads a RAM before earlier
writes have landed, signals that arrive late, four copies of one table that are
not the same.

### SpaceSaving (`CPU/SpaceSaving`)

A baseline: `Capacity` counters for the flows of a trace. A packet of a flow
without a counter takes over the least one. The counters are key nodes in rings
under value nodes, which form a list by value; free value nodes wait in a pool; a
hash table finds a flow's key node. Correct when the lists stay whole through
every rewiring and do what the algorithm says; its promise is that every flow
with more than the average counter's packets is reported.

### The other algorithms (`CPU/*`)

Each is a class that a program of `CPU/demo` feeds with a trace, packet by packet,
and then asks. They do not interact; what is hard is the sequence of packets.

| algorithm | state | correct when |
|---|---|---|
| `CMSketch`, `CUSketch`, `CountSketch` | `d` rows of counters | the estimates err on the right side |
| `CMHeap`, `CUHeap`, `CountHeap` | such rows, a heap of the largest flows, a table of the flows' places in it | heap and table stay in step through every exchange |
| `cuckoo_hashing.h` | two buckets for every key | it is a map, although insertions move residents |
| `UnivMon` | a `CountHeap` per level, each with half the flows of the level above | the recursive sum over the levels counts each flow once |
| `HashPipe` | stages of slots | a flow's parts never add up to more than its packets |
| `FlowRadar` | a Bloom filter, cells that sum keys, flows and packets | the cells can be decoded again |
| `Sieving` | items for sampled positions, in hash chains | each item ends up with the packets from its position on |
| `ReversibleSketch` | rows of buckets found from the bytes of a mangled key; a k-ary sketch | the heavy keys are computed from the heavy buckets |
| `CSS` | counters kept sorted by an index of values, flows in chains inside an array | index, counters and chains agree |
| `MRAC`, `EMFSD` | one row of counters | every way in which flows may have made up a counter is weighed once |
| `LinearCounting` | one row of bits | |

### Other versions, support

The split copy of the sketch (`CPU/ElasticSketch`, SIMD switch at compile time)
and a third one in `TEST/algorithms`, with a framework that runs tasks over
algorithms; `CPU/common` (hash functions, key mangling, counters' distribution);
demos and a throughput benchmark.

## 2. The modules

| module | models | notes |
|---|---|---|
| `Param` | `param.h` | words of `2 * HalfRange` values, the flag bit, the displacement test with its lost bits |
| `HeavyPart` | `HeavyPart.h`, `HeavyPart-noSIMD.h` | one action per way out of `insert`; the constant `SIMD` picks the build |
| `LightPart` | `LightPart.h` | |
| `ElasticSketch` | `ElasticSketch.h`, with the insert loop of `demo/elastic.cpp` | composes the two; `QuickNext` is a program that uses `quick_insert` |
| `ElasticSketchProofs` | | theorems about `ElasticSketch`: types, accounting, queries, tasks, compression |
| `SumLemmas` | | lemmas about sums over finite sets, used by the proofs of the tasks, of the GPU, of the FPGA and of the other algorithms |
| `MCElasticSketch` | | hash tables for TLC |
| `SplitSketch` | `CPU/ElasticSketch/*.cpp` | the two builds side by side; implements `ElasticSketch` |
| `SplitSketchProofs` | | theorems about `SplitSketch` |
| `MCSplitSketch` | | hash tables for TLC |
| `Channel` | | the abstract specification: a bounded first-in first-out buffer with batches |
| `Channels` | | the abstract specification of several such buffers fed by one dealer |
| `RingParam` | `RB_SIZE` and the batch of `ringbuffer.h` | the constants of the two modules of the ring |
| `OvsRing` | `ringbuffer.h`, `dpif-netdev.diff`, `ringbuffer_user.cpp`, the loop of `user_reader.cpp` | one ring; implements `Channel` |
| `OvsReader` | `user_reader.cpp`, `create_` and `connect_ringbuffer_shm` | the reader and all rings; a call of the ring is one step |
| `OvsProofs` | | theorems about `OvsRing` and `OvsReader` |
| `MultiCore` | `multi_thread.cpp` | implements `Channels` |
| `MultiCoreProofs` | | theorems about `MultiCore` |
| `MCMultiCore` | | traces for TLC |
| `StreamSummary` | | the abstract specification of the Space-Saving algorithm |
| `Trace` | `Real_Freq` of the demos | the packets so far, which the next modules share |
| `SpaceSaving` | `SpaceSaving.h`, the loop of `demo/spacesaving.cpp` | the linked lists, the pool, the table; implements `StreamSummary` |
| `ElasticGpu` | `elastic_gpu.cu` | one action per atomic operation |
| `ElasticGpuProofs` | | theorems about `ElasticGpu` |
| `MCElasticGpu` | | launches and hash tables for TLC |
| `FpgaTable` | `heavy_part_table_{top,read,compare}<i>.v` | one table; an action is a clock edge |
| `FpgaTableProofs` | | theorems about `FpgaTable` |
| `MCFpgaTable` | | arrivals and buckets for TLC |
| `CounterRows` | `CM.h`, `CU.h`, `Count.h` | operators on rows of counters |
| `RowSketches` | the three classes, fed with the same packets | |
| `TopKHeap` | the heap of `CMHeap.h`, `CUHeap.h`, `CountHeap.h` | operators on heap and table |
| `SketchHeaps` | the three classes with a heap | extends `RowSketches`: each of them has such rows |
| `UnivMon`, `HashPipe`, `FlowRadar`, `Sieving`, `ReversibleSketch`, `Css`, `Mrac`, `CuckooTable`, `ElephantPart4` | `UnivMon.h`, `hashpipe.h`, `insertable_iblt.h`, `entropy_ams.h`, `ReversibleSketch.h` with `k-ary.h`, `CSS.h`, `MRAC.h` with `EMFSD.h`, `cuckoo_hashing.h`, `Elephant_part_4.h` | one algorithm each: its state, `Insert`, what it reports, its property |
| `ArrayBaselines` | the loops of `CPU/demo` | instantiates `RowSketches`, `HashPipe`, `Sieving` and `ElephantPart4`, the algorithms without recursion; `program` says which one runs |
| `Baselines` | the loops of `CPU/demo` | extends `ArrayBaselines` by the others |
| `MCBaselines` | | hash functions for TLC |
| `BaselineProofs` | | theorems about `SpaceSaving` with `StreamSummary` and about `ArrayBaselines` |

`ElasticSketch` extends `HeavyPart` and `LightPart`, which extend `Param`.
With a refinement mapping, `OvsRing` instantiates `Channel`, `MultiCore`
`Channels`, `SpaceSaving` `StreamSummary`, and `SplitSketch` `ElasticSketch`,
once for each build. `ArrayBaselines` and `Baselines` instantiate the modules of the
algorithms with variables of their own; one module is enough to run them, since each is a
function of the same packets. They are two because nothing can be proved in a module that
reaches a recursive operator, which some of the algorithms need; a step of `Baselines` is
one of `ArrayBaselines` and one of the program among the others, so that the theorems about
`ArraySpec` are about its runs too.

Definitions whose comment says *slip* are plausible mistakes in the definition
that follows them. No specification uses them: each is put in the place of the
correct definition to see that a property of a run notices (`mutants` in
`PROJECT.json`).

### How state and actions correspond to the code

*The sketch.* `key[b][i]`, `val[b][i]` are `buckets[b].key[i]`, `.val[i]`; lane
`Slots` is the guard lane (`MAX_VALID_COUNTER`). A call of `insert` is one atomic
action, since a sketch is used by one thread: `Match`, `Fill`, `Swap`, `Reject`
are the four paths through `HeavyPart::insert` with what `ElasticSketch::insert`
then does to the light part. Two history variables say what was really
inserted since the last `clear`: `packets[k]` calls, `mass[k]` total weight.
They differ because the code ignores `f` when it rejects (`ElasticSketch.h:42`)
or displaces (`HeavyPart.h:103`).

The two builds differ in two places that the model keeps: the vector comparison
covers the guard lane (so that a packet of key 0 can match there), and the
vector build calls a lane empty when its count is 0, the scalar one when its key
is 0. `CalculateFP` and `BOBHash32` are constants (`BucketOf`, `PosOf`): the
properties hold for any hash function. A key is a number only because 0 is
special.

`get_cardinality` and `get_entropy` end in floating point. `Cardinal` and
`EntropyTotal` are the integers they work on, before the logarithms.

*The split copy.* `SplitSketch` has the text of the copy in another form than the
modules above: a sketch is a record, a call is a function of it, and the search of
a bucket is written as each build does it, `VectorScan` as comparisons over all
lanes, `ScalarScan` as a pass over the lanes that stops at a match. Flow keys are
nonzero there, because a key 0 makes the builds differ (see below).

*The ring.* An action is one access to memory that both sides use. The writer
runs inside the switch: its private fields are touched by nobody else, so the
accesses between two shared ones are one action. The reader may be killed, and
all its fields but the tuple live in the shared memory where its successor finds
them, so each of its stores is an action: `ReadCopy`, `ReadAdvance`,
`ReadCount`, `ReadPublish`, `ReadReset`. A failing call changes nothing and has
no action. `received` grows when `nextReadIndex` moves: the tuples taken out of
the ring. A reader killed between this and the use of the tuple takes it along;
the model does not say what the reader does with a tuple.

The order of the plain copies and the volatile index stores is the order of the
source: the copy goes through `unsigned char*`, which may alias the indices, and
x86 keeps the order of stores and of loads. The barrier macro is commented out
(`ringbuffer.h:30`); a weakly ordered processor is not modelled.

*The reader.* In `OvsReader` a call of the ring is one step, which `OvsRing`
justifies, and indices count from the start of a segment, so that what is read
twice or skipped shows; `taken` are the numbers of the tuples that the reader took. `segments[i]` are all segments ever made under a name, and
`named[i]` the one the name leads to: `create_ringbuffer_shm` unlinks, opens and
initialises in three steps, between any of which the thread may be taken down or
the reader may connect. (`connect_ringbuffer_shm` returns at line 128, before the
wait for the semaphore.)

*The multi-core program.* An action is one access to a shared variable, or one
`memcpy` of it: a copy that wraps is two actions. A packet is its position in
the trace. A thread's sketch is the sequence `inserted` of the packets it has
inserted. `begin_insert` is neither volatile nor atomic, and main reads it in a
loop without side effects: this is undefined behaviour, and the constant
`ReadySpin` lists what a build may make of it: reading it every time, reading it
once and spinning for ever on what it saw, or dropping the loop.

*SpaceSaving.* Pointers are indices of the two arrays of nodes, `NULL` is -1. A
call of `insert` is one action, `Counted` or `Appended`; the four ways through
`add_counter` are `MergeUp`, `RaiseNode`, `MoveUp` and `SplitUp`, each with all
its pointer assignments. Functions and sequences of keys are model values except
the zero key, which unused key nodes hold: `append_new_key` erases it from the
table when it takes one over, so the model leaves out a flow with that key
(`SpaceSavingAssumption`). The two loops of `get_top_k` are recursive functions:
`Climb` is where the first is after i steps, and `Visit[i]` the value node and the key
node from which the second fills entry i. A walk has at most as many steps as there
are counters, so both stop there; that the loops of the code stop is part of what is
shown. What the lists should be is said without a walk: `InList` and `Ring` are
the smallest sets that hold the start and are closed under the pointer.

*The GPU.* `pc` says where a thread is in `insert_bucket`. `Lock`, `Retry` and
`GiveUp` are the outcomes of the `atomicCAS`; `GiveUp` chooses the uninitialised
`res` freely. The plain reads of the bucket are one action and the writes
another, so that a broken lock would show; the source has no fence there and the
model keeps the program order. `hash1` is applied once to the packet's own key
(`elastic_gpu.cu:195`), so that a displaced flow is put into a bucket of another
flow: `Pos` uses `packet[t]`, and `AtHome(t)` says that it is also the bucket of
what thread `t` carries. The history `astray` collects the keys of which a part
was not offered to its own bucket of some table, because a thread got no lock or
was at a foreign bucket with it.

*The FPGA table.* One action, `Tick`, is a clock edge: a conjunction of the reader
(`ReaderIdle`, `ReaderStart`), the RAM, the comparer (`CompareIdle`,
`CompareNow`, `CompareEarly`, `CompareLate`, `CompareWaited`) and the two FIFOs,
all of which read the values before the edge. `Record`, `Displace` and `Refuse`
are the three outcomes of a comparison. The FIFOs and the RAM are vendor blocks
and modelled from their configuration in the archived project
(`FPGA/ip_addr_top.qar`): FIFOs show the first word ahead of the request and
refuse a write when full; the RAM registers its address and its output, so a
value follows its read by two edges; a read that meets a write gives the old or
the new value. What an empty FIFO shows is its last word or zero. The constant
`TableNo` selects what the four copies differ in: what a word counts, the state
table 1 does not leave, the strobes table 2 does not clear, the read table 3 does
not enable. `tag`, `core_tag`, `rd_tag` follow each value through the RAM and say
which read it belongs to.

*The other algorithms.* A call of `insert` is one action; `packets` is the
demos' `Real_Freq`. Hash functions are constants, tables that MCBaselines chooses so
that flows meet; for the cuckoo table a set of them, from which the initial state
draws. Flows are numbers, in the order in which heaps break ties. What the code does
in an unusual way is kept: `CMHeap` compares the root with a constant
(`CMHeap.h:114`), so that it always replaces it; `CUHeap` enters a flow with the
estimate from before the packet; no heap compares element 1 with its parent when it
enters; `cuckoo_hashing.h` recurses with pointers into the table, so that `Move` looks
keys up in the table as the deeper call has left it; `ReversibleSketch` lets the
unused zeros of an array into a set (`Intersection`); `CSS::find` compares strings that
run on into the next field (`SameString`). Exclusive or of keys is symmetric
difference of sets. Sums that end in floating point are modelled up to that point, as
integers or as numerators.

## 3. What the runs check

Bounds are small on purpose; what has to happen in them is said with each.

| run | instance | what it shows |
|---|---|---|
| `es_simd` | vector build, 4 keys with 0 among them, weights 1 and 2, 1 bucket of 2 lanes, factor 1, 5 light counters of which two flows share one, counters saturate at 3, a flow weighs up to 3 | flows displace each other and come back, with and without flag, counters collide and saturate: `SketchInvariant`, the invariant of the proofs, holds; `query` never underestimates and is exact for unflagged flows (`QueryBounds`); histogram, cardinality and total never exceed what came, counter by counter (`TasksBounded`); no flow is reported twice or missed (`HittersReported`); compression (ratios 1 to 5 over 5 counters: 2 and 3 give a short last stride) never lowers an estimate, and no insertion lowers the estimate of a flow already seen, unless its light counter is full |
| `split` | 3 flows that compete for one of 2 buckets of 2 lanes, factor 1, a light counter for each flow, counters saturate at 4, weights 1 and 2, a flow weighs up to 5, so that the 15 a bucket can hold under `quick_insert` fit below the flag at 16 (`QuickFits`); programs with `insert` and with `quick_insert` | ties between lanes, flows that leave and return several times: the two builds stay equal (`BuildsAgree`) and each implements `ElasticSketch`; votes are bounded (`GuardBounded`); with insertions of weight 1 the corrections of the three tasks are exact (`TasksExact`); `quick_insert` makes up no packets (`BucketConservation`) |
| `ring` | 7 slots, batches of 3, 16 tuples, 2 restarts, fair | the ring wraps twice at a size that batches do not divide; it implements `Channel`; the two copies never meet in a slot and the indices are in the order of the picture in `ringbuffer.h` (`RingInvariant`); the writer always gets on and published tuples are read (`RingProgress`) |
| `reader` | 2 rings of 4 slots, batches of 2, 4 tuples a segment, 3 segments, 1 restart of the reader, threads taken down at any moment, fair reader | connecting before the initialisation, re-creation of a ring while the old one is mapped, restarts with half-read batches: a segment is read from the first tuple on, each tuple once (`FromTheFirstOnce`), and a connected ring is served (`ConnectedIsServed`) |
| `mc` | 2 threads, rings of 5, chunks of 2, 13 packets, 2 passes, fair | the copies wrap at every offset, in particular in two pieces, and never meet an insertion (`MainInvariant`); the rings implement `Channel`, the counts are right, a pass ends |
| `spacesaving` | 5 flows, 4 counters, 7 packets | counters are shared, split, merged and taken over, the pool runs down and fills: lists and pool stay whole (`StructureSound`), the structure implements `StreamSummary`, and `get_heavy_hitters` is complete for every threshold above the average |
| `gpu` | 4 threads, one of which may stop for ever anywhere, 2 tables, 2 attempts, factor 2, launches over 3 flows that share buckets, a query that reads light counters modulo 2, fair | every interleaving of locked accesses, votes and displacements into the second table and the light part, threads that give up: packets are conserved (`TablesSound`), queries fall short of no flow but those with a part astray by more than is masked off its light counter, and unflagged ones are exact (`QueriesSound`), every other thread ends |
| `fpga` | tables 0 and 2, FIFOs of 6 words, 17 clocks, 5 addresses in 4 buckets, factor 2: all sequences of five clocks with two addresses of a bucket or a gap, bursts whose buckets come again after three or more clocks, a burst that visits one bucket three times; the next table may stall at any clock | every word whose read was made meets the value of that read, early words after one wait; the FIFOs never overflow (`TableSound`); table 0 is exact on a burst |
| `baselines` | all traces of 6 to 8 packets of 5 flows for each algorithm: 3 rows of 3 counters, heaps of 4, 3 levels; 3 stages of 2 slots; 4 cells, with a false positive of the filter and a flow twice in one cell; 4 sampled positions; 3 bytes of 3 values, 4 rows; 3 sorted counters; 3 P4 stages; counters up to 8; 27 x 3 pairs of hash functions of a table with 3 buckets | see below |

The properties of `baselines`, each about one algorithm:

- `EstimatesOrdered`: a conservative-update estimate lies between the packets and the
  count-min estimate; the Count sketch is exact for a flow alone in most rows.
- `HeapReports`: heap order and index table hold through evictions and returns of
  flows, and what the heaps report is bounded as the sketch is.
- `LevelsTelescope`: as long as the heaps hold their levels, UnivMon's cardinality is
  exact whatever the collisions, and sums of counts are when the counts are right.
- `PipeReports`, `DumpDecodes`, `CountsFromSample`, `HeavyFlowsReversed`, `IsTheMap`: the
  promise named in the table of section 1. `DumpDecodes` says exactly which flows
  can be decoded: those outside the greatest set of flows of which none has a cell to
  itself.
- `CountersSorted`: CSS's counters stay sorted, with an exact index of values and no packet
  lost, until a walk over a chain goes astray (`lost`, where the model stops).
- `LeavesAreHanded`: a flow that came and is in no P4 stage was told to the caller.
- `EpochIsComplete`: the enumeration gives all ways to make up a counter by fewer flows
  than the limit, none twice. (The limit is 7 up to 50 in the code; the instance lowers it
  at 5 to 7 packets so that the limit is met.)

`CHECK_DEADLOCK FALSE` stands in the runs of `OvsRing`, `OvsReader`, `MultiCore`,
`SpaceSaving`, `ElasticGpu`, `FpgaTable` and `Baselines` because there the model stops: the
bounded supply of tuples, packets or clocks is used up, or the program has ended.
Runs of the sketch never stop, `clear` is always possible.

The FIFOs of the FPGA hold 512 words and stop their sender at 256: the 256 that
remain are far more than the three on their way that `fpga` shows at a depth of
6. `SmoothIsExact` speaks of a burst, `smooth`: neither half has run out of words
so far, and no bucket is read again within four clocks (`ReadSpacing`). Both
conditions are needed: a half that runs out takes one more word from its empty
FIFO, and a bucket read again after three clocks may still show its old value.

The bounds named in the modules are `MaxFlow` (weight of a flow), `MaxTuples`,
`MaxSegments`, `MaxRestarts`, `PacketCnt`, `TestCycles`, `MaxPackets`, `TraceLength` and `MaxTime`.
`SketchAssumption` keeps a flow so small that neither its word reaches the flag bit
nor the light part's `int` sum overflows (`MaxFlow + LightMax < HalfRange`, 2^31 - 256
packets in the code).

*Fairness.* `OvsRing!FairSpec`: both sides poll without ever blocking, so each
keeps taking the steps it can (weak fairness of `Write` and of `Read`); nothing
is assumed of the arrival of packets, of restarts, or of a reader that the
uninitialised flag has stopped: the liveness properties except that case.
`OvsReader!ReaderSpec`: the reader, which spins and never blocks, keeps running (weak fairness of
`Reader`), and nothing is assumed of the threads of the switch. `MultiCore!FairSpec`: the operating system runs main and
every thread; nothing more. Termination is stated of a pass that begins: a build
that reads `begin_insert` once may never begin one. `ElasticGpu!FairSpec`: the threads
outside `Stalled` keep running; the others may be halted anywhere, as GPU threads
of one warp may halt each other.

*Batches and ring size.* Each side may keep up to a batch of slots from the
other, and each restart of the reader between moving its index and counting the
tuple adds one slot to what it keeps. Under `ring`'s properties, 5 slots with
batches of 2 survive two restarts and not three; 4 slots survive none, and 6
slots with batches of 3 do not survive one. The code's 2000 slots and batches of
50 leave room for about 1900.

### Divergences found

Each is a run that TLC ends with a counterexample, and a finding in
`PROJECT.json`.

- `mc_race`: a thread can end with packets in its ring.
- `fpga_table1`: table 1 takes words from its FIFO and drops them.
- `css`: CSS loses a counter from the chain its flow's hash begins; the walks that look for
  it leave the array, exit with "error 1" or "error 2", or never end (`lost` is "search").
  `CountersSorted` shows that the counters are right until then.

Seen while modelling, without a run of their own:

- the scalar build of the sketch takes the lane of a flow with key 0 for an empty one and
  overwrites its count (`HeavyPart-noSIMD.h:41`, `Empty`);
- in the split copy `get_heavy_hitters` asks for key 0 when it comes to an empty lane; the
  vector build's `query` finds that key in the guard lane of bucket 0 once the other lanes are
  full, and the votes are reported as the packets of flow 0.0.0.0 (`HeavyPart.cpp:253`; the
  template class compares the lanes one by one). `BuildsAgree` is therefore about flows with a
  nonzero key;
- the last packets of a trace, fewer than fill `main_buffer`, are never pushed, but counted
  in the throughput (`multi_thread.cpp:163`, `201`);
- the user reader's loop ends on a flag that nobody writes (`user_reader.cpp:72`,
  `ReaderStops`);
- the multi-core program's readiness check may be compiled away (`multi_thread.cpp:145`,
  `NotReady`);
- a CSS entry alone in its chain is vacated while an entry of another chain still leads to
  it (`CSS.h:194`), and the next insertion that looks for the end of that chain (`CSS.h:212`)
  reads `next_idx[-1]`: packets of flows 1, 2, 3, 3, 4, 1, 2 do it in the instance. The
  model stops there with `lost` "end", and says nothing of what may follow;
- the GPU counts 32 bits in a light counter and reads 8 (`elastic_gpu.cu:206`, `290`): once
  256 packets have come to one, `query` falls short for its flows by a multiple of 256
  (`Cut` in `QueriesSound`). With 4 threads and `LightSize` 2 the instance has such counters;
- displaced flows go to the wrong bucket on the GPU (`elastic_gpu.cu:195`): there they are
  counted where `query` does not look, or outvoted and passed on to the light part while a
  later part of the flow may enter its own bucket without a flag, so that `query` does not
  read the light counter (`astray` in `QueriesSound`);
- the FPGA tables take a word too many at the end of a burst
  (`heavy_part_table_read0.v:89`), table 2 repeats words and table 3 never reads its RAM;
- `append_new_key` erases key 0 from the table when it takes over an unused node
  (`SpaceSaving.h:62`); `SpaceSavingAssumption` leaves out a flow with that key;
- FlowRadar's filter has `w_bf >> 6` words for `w_bf` bits, one too few when 64 does not
  divide `w_bf` (`insertable_iblt.h:47`); Sieving compares with what lies after `rand_pos`
  once all positions are past, and a second `get_entropy` adds the counts again
  (`entropy_ams.h:89`, `142`); `demo/mrac.cpp:66` asks for a distribution before
  `collect_fsd` has made one.

## 4. What is proved

Each theorem holds for every value of the constants that satisfies the named
assumptions of its modules (`ParamAssumption`, `RingAssumption`, ...). They say
that sizes are positive, that hash functions are functions, and that what the
program has finitely many of, keys and threads, is a finite set; what else they
say is noted below or with the bounds above. Every inductive invariant was
checked with TLC on the instance of its component's run before it was proved; some
are properties of that run.

### The sketch

| theorem | statement |
|---|---|
| `TypeCorrect` | `Spec => []TypeOK` |
| `InvariantHolds` | `SketchInvariant`, which is `TypeOK`, `Accounting` and `Bookkeeping`, is an invariant |
| `QueriesAreBounded` | `query` returns at least the number of packets, up to light saturation, and exactly the weight of a resident without flag |
| `HittersAreReported` | `get_heavy_hitters` misses no resident above the threshold and reports none twice |
| `TasksAreBounded` | the histogram agrees with the counters, the cardinality counts no flow that did not come, and the totals exceed no weights (`TasksBounded`) |
| `EstimatesGrow` | an action property: no insertion lowers the estimate of a flow already seen, except that a displaced flow keeps at most what a light counter holds (`EstimateMonotone`) |
| `CompressionIsSafe` | no compression, of any ratio, lowers an estimate (`CompressNeverLower`) |

`AccountingHolds`, `NeverUnderestimates`, `UnflaggedIsExact`, `ReportsEveryHeavyResident` and
`ReportsOnce` state the parts of these one by one. All but `TypeCorrect` and
`CompressionIsSafe` assume `ZeroKeyHandled`: the vector build, or no packet of key
0; the scalar build needs it, because it overwrites the lane of key 0.

*The argument.* `NoUnderestimate` is not inductive: that a displaced flow is
covered by the light part depends on what its flag said about the lane before.
`Accounting` adds what is needed: a flow sits in at most one lane, of its own
bucket (`Placed`); a resident's count with its light counter covers its packets
if it is flagged, and the count is its whole weight if not (`Inside`); a flow
outside is covered by its light counter alone, and if it has ever been seen its
bucket has no free lane, so that it cannot come back through `Fill`, which would
write an unflagged lane (`Outside`). Each outcome of `insert` is a lemma
(`MatchAccounts`, `RejectAccounts`, `FillAccounts`, `SwapAccounts`) that splits on
the packet's own flow, the displaced flow and all others; the others are dealt
with once, by `Untouched`. `clear` and the constructor make the accounts empty.

The estimates grow because a lane only loses its count to the light part. The step
alone would not show it: a flow that is outside and comes back unflagged is asked of
the heavy part only, and that it then has its whole weight there, or cannot come
back so, is `Inside` and `Outside`.

`TasksBounded` is a statement about sums over lanes, counters and flows.
`Bookkeeping` makes it inductive. A counter in use has a flow that came, hashes
there and is outside or flagged (`Witnessed`), so that `get_cardinality`, which
takes a counter off for each flagged resident with a nonzero one, counts a flow that is
in both parts once;
a lane with key 0 has counted nothing unless 0 is a flow (`ZeroLane`); the
weights of the flows of a counter cover the counter and their lanes
(`LightConservation`). Its lemmas say what a call changes: one counter, one lane
(`RaisedTo`, `Balanced`).

`SumLemmas` has what is said about sums: they do not depend on the order, change
with one summand, are compared and added summand by summand. The sums of the community
modules are recursive functions. That such a function exists on the subsets of a
finite set, and what follows from its recursion, is proved by induction in first-order
form: the set of the subsets that have the property is a set, and a smallest set
outside of it leads to a contradiction (`SetInduction`).

### The split copy

| theorem | statement |
|---|---|
| `BuildsAlwaysAgree` | the vector and the scalar build have the same tables after any packets and report the same heavy hitters (`BuildsAgree`) |
| `GuardAlwaysBounded` | votes are at most `Lambda` times every count of their bucket (`GuardBounded`) |
| `BucketsConserve` | under `quick_insert` the counts and votes of a bucket are at most its flows' packets (`BucketConservation`) |
| `TasksAlwaysExact` | with packets of weight 1 and no collisions, cardinality, total and distribution are those of the flows that came (`TasksExact`) |
| `SplitImplements` | each build implements the class of `CPU/elastic`, `ElasticSketch` with `SIMD` true or false: `Spec => ImplementsSketch` |

`ClassConstants` adds that the constants of the split copy satisfy the assumptions
under which the theorems about `ElasticSketch` are proved, so those speak of the split
copy too. The constants' assumptions are `SplitAssumption`: nonzero keys, a flow whose weight
stays below the flag and, if a program uses `quick_insert`, a bucket whose flows together
do (`QuickFits`: a displacing flow inherits the count of the displaced one).

*The argument.* The builds are equal only if both searches agree, and those agree only
on tables in which a lane with key 0 has count 0 and one with count 0 has key 0
(`Filled`). `SplitInvariant` is inductive: both builds have the same sketch, and it
is well typed, filled, and has bounded votes (`Guarded`); with `insert` each flow is
covered by its lane and its light counter (`Covered`), with `quick_insert` each bucket
by its flows (`Conserved`). The last two are there for the equality as well: without
them a count could wrap to 0 and look free to one build and taken to the other. The scalar
search is a loop, modelled as a recursive function of the lanes looked at; `ScalarFinds`
says what it holds after n lanes, by induction in first-order form, and `BuildsInsert`
that both searches lead to the same insertion.

`GuardBounded` depends on the order of least count and vote: a vote is cast against
the least count, and the bound for it bounds the others. A displacement resets the
votes, since the newcomer's count may be less than the one displaced.

`TasksExact` asks three functions, each of which adds up both parts and takes away
what it would count twice, for what the flows are. `Exact` says of the state that no flow
has two lanes (`Seated`), that `mice_dist` is the histogram of the light counters and
that none belongs to no flow (`Histogram`, `Owned`), and of each flow how its packets
lie in the two parts (`Exactly`): lane and light counter together are at most its
weight; they are at least its packets, unless the light counter is full; and a lane without
the flag holds all of its flow. With weights of 1 packets and weight are the same, and so
the bounds meet. A lane that its flow lost and won back is the case that needs all
of it: the flag says that the count goes on in the light counter, and stays with the
lane. From `Exact` to the tasks is a double count. For any weighing of values by
which 0 weighs nothing (1 for the cardinality, the value for the total, whether it is n
for the distribution) the light counters, less those shared with a lane, plus
the lanes' whole flows sum to the flows (`PartsBalance`), and a sum over the histogram is
one over the counters (`HistogramSum`).

The refinement needs nothing beyond `SplitInvariant`: each outcome of an insertion is one
action of `HeavyPart` and `LightPart` on the same packet (`SimdInsert`, `ScalarInsert`
and the same for `quick_insert`), once search, vote and light part are shown to be
the same operators on another representation. `HeavyPart-noSIMD.h` has no `quick_insert`:
the scalar build of the split copy has one, and is compared with that of `HeavyPart.h` on
the scalar search.

### The ring

| theorem | statement |
|---|---|
| `RingInvariantHolds` | `RingInvariant`: the copies of the two sides stay in different slots, and the indices stay in order |
| `RingIsChannel` | `OvsRing` implements `Channel`: `Spec => ImplementsChannel` |

For any size of ring and batch with `RB_BATCH < RB_SIZE`, and any number of
restarts. `NoSlotRace` alone is not inductive; `RingInvariant` has as further parts how
far a side is ahead of what it has published (`Counted`: each restart may cost the
reader one uncounted tuple), that what a side has seen of the other's index is still true
when it acts on it (`Guarded`), and where each tuple is (`Contents`). All
arithmetic of the ring is in five lemmas about `Distance`; no step looks at a
remainder. The refinement maps each action to a step of `Channel` or to none: only the
copy of a tuple into the ring, the publications and the reader's move are steps.

### The reader

| theorem | statement |
|---|---|
| `TuplesFromTheFirstOnce` | `FromTheFirstOnce`: the tuples of each segment are read from the first on, each once |

`connect_ringbuffer_shm` does not wait for the initialisation, so the reader may poll
a segment that is about to be cleared. What saves it is in `ThreadsOK`: the thread
that makes a segment publishes nothing before it has initialised it, so the
indices that it clears are zero already. That needs a fresh segment of shared
memory to be zero, which `ftruncate` promises.

### The multi-core program

| theorem | statement |
|---|---|
| `MainInvariantHolds` | `MainInvariant`: no `memcpy` of main meets an insertion, and every packet is where the counters say |
| `CountsAreRight` | the count a thread ends with is its number of insertions (`CountIsInsertions`) |
| `RingsAreChannels` | `MultiCore` implements `Channels` |

For any number of threads, rings at least as large as a chunk, any trace, and
whatever a build makes of the spin on `begin_insert`. `MainInvariant` orders
the counters (`Counting`), which change at two sides, and says of each packet
dealt that it is in the sketch, the ring or main's buffer (`Carrying`), between the two
pieces of a copy too. Two facts about arithmetic carry it: remainders tell apart
numbers that are less than the size apart, and the recursion of `Dealt` has a
solution, which is proved like the sums.

### The GPU

| theorem | statement |
|---|---|
| `TablesStaySound` | `TablesSound`: no packet is lost or made up, counter by counter |
| `QueriesStaySound` | `QueriesSound`: after a launch `query` falls short of a flow of which no part went astray by no more than what `query_light` masks off its light counter (`Cut`), and is exact if a table has it without a flag |

For any finite number of threads and tables, any number of attempts, any hash functions
and whatever the uninitialised variable says. Nothing bounds the packets that come to a light
counter: `Cut` is what `& 0xff` takes from it, 0 as long as fewer than 256 have come, and the
theorem says that nothing else is missing. Counts are numbers without a width, since `read_keys` takes
files of fewer than 2^32 bytes at 13 a packet: no count reaches the flag in bit 31, nor
`bucket[0] << 3` bit 32.
`KernelInvariant` joins `TypeOK` and `Conservation` with `Locking` (one thread in a
bucket's section, and the bucket is still what it read) and `Sense` (a bucket that is
not empty has packets). `Conservation` is a sum over all buckets and all threads,
of which a step moves a part from one to the other (`Moves`).

`QueriesSound` is about what the flag means, and that takes `FlowInvariant`.
`Complete`: as long as a flow's bucket in some table would take it without a flag,
nothing of it is beyond that table, in a later table, with a thread on its way, or
in the light part. A thread goes past a bucket only when another flow has it, and the
flow that takes it over later is flagged. It needs `Home`, that a flow that is not astray
is stored and offered in its own buckets only: in a foreign one it can be outvoted
and passed on to the light part while its own bucket is still empty. An earlier form
of `QueriesSound`, which excepted only flows stored in a foreign bucket at the end, was
refuted by TLC when `FACTOR` was raised from 1 to 2: with factor 1 and packets of weight 1
a vote nearly always displaces.

### SpaceSaving

| theorem | statement |
|---|---|
| `StructureSoundHolds` | `StructureSound`: the value nodes are one falling list that links both ways, each ring has exactly the counters of its value, and the pool has exactly the other value nodes |
| `ImplementsAlgorithmHolds` | the lists, the pool and the table implement the algorithm: `Spec => ImplementsAlgorithm` |
| `HeavyHittersCompleteHolds` | `get_heavy_hitters` reports every flow with the threshold's packets, once and with at least its packets (`HeavyHittersComplete`) |
| `CountsCoverHolds` | in the algorithm a counter is never behind its flow, and a flow without a counter has had at most the least counter's packets |
| `MonitoredOnceHolds` | in the algorithm no flow has two counters |

For any finite set of flows without the zero key, any number of counters, one included,
and any trace.

*The lists.* `StructureSound` speaks of what the pointers lead to, and a step that moves
two pointers changes that for nodes far away. The inductive invariant, `IInv`,
says the same in terms that a step disturbs only where it works (`Lists`). For the rings:
next and prev lead back and forth within one parent, and a set of key nodes
that next does not leave has all counters of a value or none (`Whole`). When a node leaves
or joins, such a set with or without that node is one of the ring before, and so
no path has to be followed. For the list: prev leads to a node of greater value, no two
listed nodes have the same, and no listed value lies between (`Ordered`). Only this last
part makes `BrotherHasNext`, which looks at one node, a test of whether any
node has the next value. That `SplitUp` finds the pool filled is a count: if it is empty
every value node is listed, so that each has a first, the firsts differ, and they are
all counters; but the counter that moves up shares its value, so one of them is not a first.
From `Lists` to `StructureSound` (`ListIsReached`, `RingIsReached`): of the listed nodes
that a closed set lacks, the one of least value contradicts it.

*The refinement.* Each of the four ways through `add_counter` raises the value of
the counter it is called for by one and leaves the others (`Raises`). `Table` adds that
the hash table knows exactly the keys that counters hold, and that a counter holds the
zero key just while it has counted nothing; the first node of `tail_node` has the least
value since the list falls towards it.

*The report.* The guarantee of the algorithm (`Covering`) holds of the code through
the refinement, and the values add up to the packets (`AddsUp`), so that a
flow above the average has a counter (`HeavyIsKnown`): otherwise all counters would be
at its packets or above. Then the loops. Each step of the climb leaves one node fewer
above, so that it ends at the greatest value (`HeadIsGreatest`). In the second loop,
what has been seen (`SeenAt`) is all of greater values, nothing of lesser ones, and of the ring
at hand the nodes from the first on; a step either finds the ring whole, by
`Whole`, or sees a new node of it. So the first Capacity entries are the counters, each once,
by falling value (`VisitsAll`), and cutting at the first entry below the threshold loses none
that is not (`HittersAre`).

### The rows, HashPipe, Sieving and the P4 heavy part

| theorem | statement |
|---|---|
| `EstimatesOrderedHolds` | `EstimatesOrdered`: conservative update estimates no flow below its packets and none above count-min, and the Count sketch is exact for a flow alone in more than half of its rows |
| `PipeReportsHolds` | `PipeReports`: what HashPipe reports of a flow never exceeds its packets, and is exact if the flow has a slot to itself in some stage |
| `CountsFromSampleHolds` | `CountsFromSample`: from the chains and the single increments, `get_entropy` makes for every sampled position the number of packets of its flow from there on |
| `LeavesAreHandedHolds` | `LeavesAreHanded`: a flow that leaves the stages was handed to the light part, only rejected packets are missing in the counts, and no count exceeds its votes |

For any number of rows, counters, stages, slots, cells and sampled positions, any hash and
sign functions and any trace, as invariants of `ArraySpec`. The assumptions on the constants
are those of the four modules (`ArrayAssumption`), and one on the trace, that it has at most 2^30
packets: `query` takes the least of the counters and of `1 << 30` (`CM.h:72`), and so
underestimates a flow that has more.

*The rows.* `RowsHold` compares counter by counter: no counter of conservative update is above
that of count-min, none of a flow's is below its packets, and in a row where no flow that
came shares a flow's counter the Count sketch has its packets there, with the sign. Two
least counters carry it through an insertion (`QueryIs`): what `CuInsert` raises a counter
to is one more than the least, so at most one more than this counter was, which is what
count-min has. The last part is about a set of rows that only gets smaller as flows come.
That the median is then exact is a fact about sorting: the numbers can be put in order
(`OrderExists`, by taking the greatest to the end), an order keeps how many there are of
each, and a value that more than half of them have is in the middle (`MiddleOfMost`), at
both places when their number is even.

*HashPipe.* One call changes a slot in each of several stages, and in the middle of the
loop a flow's count is in no slot. `PipeReports` needs of the state: who is in a slot came
and belongs there (`Seats`), and nothing of a flow is below a stage where it has a
slot to itself (`StopsAtOwn`), since there it is never turned out. `OnTheWay` is the loop's
invariant: what came is in the slots or is what is carried, and the carried flow has met no
slot of its own yet, so what falls out at the end belongs to a flow with none. Flows
that have not come can take a slot's privacy away later; `StopsAtOwn` speaks of the flows
so far, of which there are only more.

*Sieving.* Between samples only the newest item of a flow counts, so an older one has the
packets up to the next (`CountsHold`), and the rest is in the items that name each other as
the one before. `LinksHold`: an item is its flow's newest or is named by exactly one other,
which is younger. The walk of `get_entropy` adds each item to the one it names while it goes
down a chain in which flows mix; since the chain falls (`ChainsHold`), the item that names
another is passed before it, and adds its own count after that is complete
(`WalkSweeps`). Were an item named twice, or the chain out of order, some count would be
added twice or too early. The two folds of the model, over slots and down a chain, are first
shown to be the functions their definitions ask for (`FoldExists`).

*The P4 heavy part.* A call hands one flow after the other down the stages. `Moving` is the
loop's invariant: each flow that came is in its cell, was handed over or is the one
carried (`Followed`); no cell has had two votes, and none ahead has had one
(`VotedOnce`); and the counts have grown by one as soon as a flow other than the packet's
own is carried or a cell was found (`CountedOnce`). That last line decides between the
return values 1 and 2: a packet with return value 1 is counted, in its own cell,
though another flow has to leave.

### The FPGA table

| theorem | statement |
|---|---|
| `FpgaInvariantHolds` | `FpgaInvariant`, the inductive invariant below |
| `TableIsSound` | the registers have their types, and no FIFO ever has to refuse a word (`TableSound`) |
| `ReadsAreJudged` | a word whose read was made is judged by the value of that read (`JudgedByItsRead`) |
| `SmoothFlowIsExact` | in a smooth flow table 0 accounts for every packet, once (`SmoothIsExact`) |

For any finite set of addresses, any stream of them with any gaps, any stalls of the next
table, any number of edges, and any even depth above four, where the code has 512: at four
the two words on their way would fill the FIFO. The first
three hold for all four tables.

`FpgaInvariant` has a part for each. *`Room`*: the sender obeys the signal of two
edges ago, so the first FIFO is at most two words above its half; one, if the sender now
sees the signal off (`alf_seen[1]`), and none, if it was off at the last edge (`alf_seen[2]`); the second FIFO's words, the word in the
register and the word being taken are together at most two above the half. *`ReadsOnTheWay`*:
a word with a read behind it is at its age in clocks where the read's tag is: at one in
`tag`, at two in `core_tag`, at three in `rd_tag`; nobody waits for a read beyond three.
The order of the words in the FIFOs is not needed. *`ReadsAreCurrent`*: in a smooth flow the
last read of a bucket is that of the youngest word for it, so a write, which comes four
clocks after the read, never falls between another word's read and its judgement: the value
read is what the bucket then holds. From that `SmoothIsExact` is inductive: each edge moves
a word one place on, and a judgement moves its packets into the RAM or out
(`JudgeAccounts`), together with those of the flow it displaces.

### Only model-checked

- Liveness (`RingProgress`, `ConnectedIsServed`, `Termination`, `EndsAlone`): it rests on
  fairness and ENABLED, which the prover does not handle.
- `quick_insert` of the template class has no run of its own: what is said of it,
  `BucketsConserve`, is said of the split copy, which `SplitImplements` ties to the class.
- The algorithms with recursive operators (the heap, the cuckoo table, `dump`, the chains
  of CSS, the enumerations), of which the prover can say nothing: `HeapReports`,
  `LevelsTelescope`, `DumpDecodes`, `HeavyFlowsReversed`,
  `CountersSorted`, `EpochIsComplete` and `IsTheMap`.

## 5. What is not modelled, and the plan

- Floating point: the probabilities of `EMFSD`, the logarithms of `get_cardinality`,
  `get_entropy` and `LinearCounting`, `CountHeap::get_f2`.
- Hash functions and the arithmetic of key mangling: constants, of which the properties use
  at most that they are functions, or a bijection.
- The third copy of the sketch and the test framework: the same text as the split copy, called
  with weight 1, and a sequential driver.
- `elastic.p4`: its order of effects is that of the switch's pipeline; the C++ class is
  modelled instead.
- The FPGA's light part and the chain of its tables.
- File input, printing, timing, memory allocation, the kernel-device variants of the ring,
  and functions nothing calls (`flush_ringbuffer`, `read_complete_ringbuffer`,
  `write_ringbuffer_block`, `copy_configurations`).

Next: the FPGA's light part, eight RAMs behind one pipeline.
