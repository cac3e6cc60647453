# Draffmission in TLA+

Draffmission searches Minecraft seeds for very large mushroom islands. GPU
threads filter batches of seeds, CPU threads measure the candidates that are
left, the main thread writes the finds to a file and an uploader posts them to
the seed viewer, a web service with a database, thumbnails and a page that lists
the finds and draws their maps. Candidates can also travel over TCP from
searching machines to a measuring machine. This directory models those parts,
checks them with TLC on small instances, and proves the most important
properties with TLAPS for every value of the constants. Paths below are relative
to the repository root.

## Inventory

| Component | Source | State | Operations | What makes it correct |
|---|---|---|---|---|
| Seed iterator | `src/gpu.h` | atomic 64-bit position | `next` | batches neither overlap nor leave gaps, also when the position wraps |
| GPU thread | `src/gpu.cu`, `GpuThread::run` | device buffers, their lengths, table of noises, late-init flags | one turn per batch: clear, filter chain, synchronise, push | the chain of kernels computes the filters one after the other, whatever an earlier batch left in memory |
| Combined report | `src/gpu.cu`, `GlobalReportAggregator` | snapshots, generation, printing flag, mutexes, condition variable | `submit`, `print_combined`, `set_outputs_queue_size` | every report is one snapshot of each GPU over the same batches; nobody waits for ever |
| CPU threads | `src/cpu.cpp` | the candidate in hand | pop, measure, push | no candidate is lost |
| Island measuring | `src/cpu.cpp`, `src/cubiomes.c` | grids, stacks and sums of flood fills | `process`, `process_origin`, `measure_1to1`, `fast_find_center`, `floodFillGen` | the area reported is the island's, or says that it was cut |
| Main thread | `src/main.cpp`, `main_inner` | `seen_outputs`, output file | drain every second | one line per find and session; on disk before it is uploaded |
| Uploader | `src/uploader.cpp` | queue, item in hand | enqueue, post, requeue, sleep | nothing is lost or doubled; a dead backend does not stop the search |
| Client | `src/client.cpp` | pending bytes | connect, handshake, drain, write | whole records in order |
| Server | `src/server.cpp` | a buffer of 1024 bytes per connection | accept, compare the handshake, cut records | records unharmed; only clients of the same biome size |
| Backend | `seedviewer/backend` | SQLite rows, thumbnails, `render_lock` | post, list, delete, render | a seed answered with 200 is stored; `has_thumb` is true only of whole files; every row gets its thumbnail |
| Seed grid | `seedviewer/frontend/src/components/SeedGrid.tsx` | pages shown, filter, flags and refs | change the filter, load more | late answers change nothing; scrolling shows every row |
| Tile workers | `seedviewer/frontend/src/wasm.ts`, `worker.ts`, `SeedMap.tsx` | worker pool, pending tiles, current seed | init, sample a tile, answer | a tile asked for is answered, and with the right seed |
| Pages | `seedviewer/frontend/src/App.tsx`, `SeedDetail.tsx` | route, row shown | visit, fetch, delete | the page shows the row of the route |
| Options | `src/main.cpp`, `Args::parse` | none | parsing | a refused option ends the program |
| Renderer, WASM wrapper, size checker | `seedviewer/renderer`, `seedviewer/wasm`, `src/sizecheck.cpp` | none | pure computation | - |

Interaction. `gpu_outputs` (GPU threads or server to CPU threads or client
thread) and `cpu_outputs` (CPU threads to main thread) are queues with a mutex
each. Main calls `UploaderThread::enqueue` while it holds `cpu_outputs.mutex`.
GPU threads meet in `submit` every `PRINT_INTERVAL` batches. The uploader speaks
HTTP to the backend, client and server speak raw TCP. The browser reads and
deletes rows through the backend, and talks to its web workers with messages.

Hard behaviours. The mutex the uploader holds while it sleeps, and through it
everybody else; requeueing; a process that can only be ended by a kill; the
aggregator's mutex released while it prints; atomic counters whose order is
arbitrary; memory recycled between kernels and between batches; full buffers;
TCP that cuts the stream anywhere; flood fills that share a grid; a backend
that is slower than the uploader's patience, renders after it has answered and
crashes in between; a lock that covers the rendering and not the deletion;
answers that arrive after the visitor has gone elsewhere; workers that are still
starting when they are reused. `PROJECT.json` lists the hazards by line.

## Modules

| Module | Models | Proofs |
|---|---|---|
| `Pipeline` | seed iterator, GPU threads seen from outside, CPU threads, main thread, uploader, kill and restart | `PipelineProofs` |
| `ReportRounds` | what the combined report promises, without mutexes | |
| `ReportBarrier` | the aggregator and the part of `GpuThread::run` that feeds it; implements `ReportRounds` | `ReportBarrierProofs` |
| `GpuBatch` | the device memory through the kernels of a batch | `GpuBatchProofs` |
| `IslandMeasure` | what a CPU thread does with a candidate, against a reference definition of islands | `IslandMeasureProofs` |
| `Network` | client, server and the TCP connection between them | `NetworkProofs` |
| `SeedStore` | the backend's rows, thumbnails and threads, with the uploader's requests and retries | `SeedStoreProofs` |
| `SeedGrid` | the list of seeds in the browser over a table that changes | `ViewerProofs` |
| `TileWorkers` | the map of a seed and its web workers | `ViewerProofs` |
| `Viewer` | the pages; composes `SeedGrid` and `TileWorkers` | `ViewerProofs` |
| `Numbers` | nothing of the code: lemmas about division, least numbers and induction that the proofs share | itself |

An `MC` module gives a module its small instance, and each `.cfg` a question.
Definitions with the comment "Mutant" are wrong variants of the definition that
follows them. No specification uses them: they are substituted one at a time
for the original to make sure that each property notices the bug it is there
for (`"mutants"` in `PROJECT.json`). A module that is proved about ends with its
inductive invariant `IInv`, whose first conjunct is `TypeOK`; `GpuBatch` and
`IslandMeasure` have a second one on top of it, `CountInv` and `StackOK`.

### Pipeline

`Claim` is `SeedIterator::next`. `PushResults` is the end of a turn of
`GpuThread::run`: any candidates of the claimed batch, as many as the last
buffer holds, appended to `gpuQueue` under one lock. That the results belong to
the batch is what `GpuBatch` is about. `PopCandidate`, `Measure` and
`PushOutput` are `CpuThread::run`; `Process` is a constant function, since
`process` and `process_origin` depend on the candidate only (their random
numbers are seeded by the seed); what they compute is `IslandMeasure`.
`LockOutputs`, `DrainOne`, `Enqueue` and `UnlockOutputs` are the loop of
`main_inner`, `PopItem`, `PostOk`, `PostFailed`, `Requeue` and `WakeUp` are
`UploaderThread::run`.

A critical section that neither blocks nor calls out is one step. The other two
are not: `cpu_outputs.mutex` is held from `LockOutputs` to `UnlockOutputs`, and
`Enqueue` waits inside it for the uploader's mutex, which is held from `Requeue`
to `WakeUp`. A post that failed may have reached the backend all the same.
`Kill` may come at any point. What survives is the file, where each line is
flushed before the next step, and what the backend knows.

Abstractions. A candidate is a seed and a place, a find also has a score; the
key in `seen_outputs` has no score. A line of the file is the find. `Seeds` has
`SeedSpace` members, and the position wraps modulo it as in 64 bits.

### ReportBarrier

A thread's `pc` names where it is between a batch and the reset of its
statistics. `submit` is cut where it gives up the mutex: `Submit` up to
`cv.wait` or to the unlock before printing, `CopySnapshots` and `PrintReport`
for `print_combined`, `Finish` for the rest. `asleep` is the set of threads in
`cv.wait`; `WakeSpuriously` is the wake-up without a reason the standard
allows, and `Recheck` evaluates the predicate. `outputs_mutex` is a variable,
since a thread holds it while it waits for `gpu_outputs.mutex`. Of the figures
a report shows the model keeps which batches they cover and in which round the
queue size was recorded.

`Rounds` is the refinement mapping: `handedIn` is the number of snapshots a
thread has handed in, `printed` is the generation.

### GpuBatch

`Program` lists the kernels the stream runs for a batch, with or without
`--origin`. A kernel with separate input and output memory is one step that
puts its results in any order, drops those beyond the capacity and counts them
all the same. `KernelFilter2_0B` reads and writes `buffer_2`, so that its warps
are modelled one by one: `WarpRead`, `WarpCount`, `WarpStore`. A read of a place
that another warp is writing may mix the two candidates field by field.

What a filter thinks of a place is the constant `Emit`; the model is about
where data lie, not about noise. `noise[idx][part]` names the seed for which a
part of the octaves in the table was computed last. `LateInit` computes a part
for the seeds whose flag it can move from `Stage - 1` to `Stage`. A member of
`Setups` chooses the chain, the seeds of the batches and the capacities; one run
starts in all of them.

After an overflow the next kernel reads by the length that was counted, past
the end of its buffer. It finds candidates with arbitrary coordinates there
(`Junk`) or faults, which ends the process (`Fault`). In the code only the two
`gradvecs` kernels can produce more than they were given; the model lets every
kernel overflow. `Junk` is restricted to indices of seeds of the batch: other
indices can fault, or sample a place of the tables that has no meaning for the
batch, and no property is claimed for a batch that has overflowed. What is
claimed is that the next one is right.

`SeedsFit` is assumed: about 2^28 / 7000 = 38000 seeds of a batch pass
`filter_seeds`, and the tables have 65536 places.

### IslandMeasure

The thread goes through `MonteCarlo`, the coarse flood fills of
`cubiomes_test_biome_centers` (`StartCenter`, `FillGen`, `EndFillGen`), the fill
of `fast_find_center` on the scale-4 grid and one or two fills of `measure_1to1`
on blocks (`Measure`, `StartFill`, `FillOne`, `EndFill`), or with `--origin`
through one fill from the centre for each radius. The three fills of `cpu.cpp`
are the same loop and share their actions; `pc` says which one is running.

The world is data: which scale-4 cells are mushroom fields in the two layers at
sea level, and to which of the cells around it the Voronoi step moves a block,
by the place of the block in its cell. The arithmetic of grids and windows is
that of the code (cells of 4 blocks, margins, divisions that round towards zero
against shifts that round down); the sides and radii are small. The Monte Carlo
test may answer anything, so that its 32-bit overflow with large biomes
(`src/cubiomes.c:389`) is among its outcomes. The result is compared with
`Islands`, which joins places to islands without a stack, in a window or in
`World`, all blocks with mushroom fields. `taken`, the places the fill under way
has taken from its stack, is a history variable: no guard reads it.

### Network

The unit is the byte. `Record(c, n)` is the n-th candidate of client `c`, as the
bytes of a `GpuOutput`. The handshake differs between the two biome sizes in one
byte, at `SizeByte`. `WriteSome` is a part of `asio::write`, `ReadHandshake`
a part of `async_read`, and `ReadSome` is a whole call of `handle_read`: append,
cut, push, move the rest. TCP (the wire, `Reset`, the way a read ends anywhere)
is external. `HandshakeError` is `handle_handshake` after an error: the code
compares the array although it may be partly uninitialized, so that a
connection whose bytes so far are right may be taken as matching or not.

### SeedStore

The uploader sends a key (`Send`), and takes an answer, or gives up after five
seconds (`TimeOut`) and puts the key back; the request it has given up on may
still arrive (`net` with `live = FALSE`). `Insert` is the statement with its
commit in `add_single_seed`, `InsertFails` any exception of it, `Answer` the 200
that follows in both cases and the background task that comes after it.
`Lock`, `StartSave`, `FinishSave`, `RenderFails` and `RenderStumbles` are
`render_thumb`, for its three callers (the task of a post, `get_thumb`, the
start-up thread); `Update` sets `has_thumb` after the lock is released, by key or
by id, as each caller does. `Select` is a round of `_batch_render_pending`.
`DeleteSeed`, `Unlink` and `Erase` are the three steps of `delete_seed`.
`Restart` is a crash anywhere; `docker-compose.yml` says
`restart: unless-stopped`. Rows have ids, files are named by key, and both
survive. A save that fails leaves no file, as Pillow 11 does it; a save that is
cut by a crash leaves half of one.

So "acknowledged" in `Pipeline` becomes "stored" here: `Send`, `TimeOut` and
`Answer` are the uploader's `PopItem`, `PostFailed` with `Requeue`, and `PostOk`.

### SeedGrid, TileWorkers, Viewer

`SeedGrid` is the component with its refs. `FetchPage` voids the requests before
it (`requestIdRef`), `Deliver` and `Fail` are the two ends of a request. The
observer at the end of the list reports changes only: `Intersect` that the end
has come near the window, which fetches a page or, during a request, does
nothing, and `LeaveView` that it is out of it again; `inView` is its last
report, and a new filter makes a new observer. Rows that fit the window together
(`Fits` at most) cannot take the end of the list out of it. The backend's
`Count` and `Select` are two steps, with rows inserted or deleted around them. A filter is a
choice of tab, fields and order, given by its sorted rows (`Order`); `Listing`
keeps those that are in the table, by a recursive function over the sequence.

`TileWorkers` is `SeedMap`, `wasm.ts` and `worker.ts`. `MountMap` is
`initCubiomes` with its early return, which looks at the seed and at the number
of workers and not at whether they are ready. Messages to and from a worker are
queues; a tile that reaches a worker that is still loading is dropped, and a tile
that reaches the page before its listener is lost.

`Viewer` composes them with INSTANCE and adds the routes and `SeedDetail`: the
list and a row's page replace each other, while going from row to row keeps the
component and its requests under way. Both parts share the bound on events.

## Runs

| Run | Instance | Shows |
|---|---|---|
| `pipeline` | 1 GPU, 2 CPUs, 1 batch with up to 3 results, uploader; posts may always fail | finds are neither lost nor doubled on the way to the file and the backend, and nothing is made up; they are written in the end although the uploader keeps sleeping with its mutex, and acknowledged if the backend answers again and again |
| `restart` | 2 GPUs, 1 CPU, 5 seeds in batches of 2, 2 claims, 1 kill; the GPUs are symmetric | what was posted is on disk; batches tile the seed space across the wrap; the inductive invariant holds |
| `barrier` | 3 GPUs, interval 2, 3 rounds | reports are complete, no lapping, only printed snapshots are cleared, refinement of `ReportRounds`; `submit` returns |
| `batch` | 2 warps; 2 batches that fit, 3 of which the second overflows, and the `--origin` chain | no write past a buffer, filters see fresh noise, and a batch without overflow and race comes out right, also after one that overflowed |
| `batch_race` | 2 batches that fit | **violation**: filter 0B spoils its own input |
| `batch_silent` | 3 batches, the second overflows, 1 warp | **violation**: an overflow is never reported |
| `measure` | all patterns of 4 x 3 coarse samples and of 3 x 3 cells, four Voronoi steps, two positions and the origin | the coarse test overlooks no island, its stack fits, a window sees exactly its blocks, the largest island is measured, and what is reported is an island |
| `network` | 2 clients, 3-byte records, 2-byte handshake, 4-byte buffer, 2 candidates each | records arrive unharmed, only from matching clients, always with room to read, and all of them while the connection holds |
| `store` | 1 find to upload, 1 old row that cannot be rendered, 2 pool threads and the start-up thread, 2 faults, 1 deletion | what the uploader drops was stored, thumbnails are written by one thread, `has_thumb` means a whole file, every row gets its thumbnail |
| `store_lost` | the same | **violation**: a seed is answered with 200 and not stored |
| `viewer` | 4 rows in pages of 2, 2 filters, 2 seeds, 2 workers, a window that 1 row fits, 3 events besides the upload of a row | the list belongs to its filter, skips nothing and ends; the map has the tiles of its row and gets all of them; with the exceptions below |
| `grid_mixed` | the same | **violation**: seeds of the old filter stay under the new one without an error |

### Exceptions the properties make

Some properties hold only with an exception, because the code does not do more.
Each names one cause, most by a history variable, and TLC finds a counterexample
when it is taken away, but for the one said below. What is excepted
is not covered by the property.

- `UploadedIsStored`: keys whose insertion raised an exception (`refused`), the
  finding below.
- `FlaggedHasThumb`, `SavedByOne`: thumbnails torn by a crash (`torn`), which
  every later look takes for whole, and for the first also files that
  `delete_seed` removed while a row was being rendered or before its own
  deletion failed (`unlinked`).
- `StoredGetsThumb`: rows whose rendering or update raised an exception since
  the start (`failed`), and all rows if one ended the start-up thread (`died`;
  the counterexample without it takes two old rows that can be rendered).
- `NothingSkipped`: rows deleted while the visitor scrolls (`shrunk`), and a row
  inserted between the two statements of `list_seeds` (`slipped`), after which
  the list can end a page early. `ShownExactly` needs rows that do not change.
- `ListEnds`: lists of at most `Fits` rows whose first page failed, or from which
  rows were deleted (`Stuck`). Their end stays in view, its one report came while
  the request was under way, and nothing fetches again. For the first cause TLC
  finds a counterexample without the exception. The second needs two deletions
  between `Count` and `Select` and is beyond the events of the instance.
- `MapOfRoute`: pages reached from another row's page (`jumped`): `SeedDetail`
  does not cancel its request, and the answer that comes last is shown. Tiles are
  compared by world, so that the property does not tell a tile of an earlier map
  of the same seed from one of the present map; their pixels are the same.
- `MapGetsTiles`: workers that cannot load their module (`broken`), and maps
  opened while the workers for the same seed were starting (`early`), whose
  tiles are never answered.
- `Delivered`: connections that break. `BatchCorrect`: batches that overflow or
  meet the race of filter 0B.

### Bounds

`MaxClaims`, `MaxKills`, `MaxRounds`, `MaxRecords`, `MaxDeletes`, `MaxFaults`,
`MaxEvents` and the number of `Batches` bound behaviours that never end in the
code. They sit in guards, and reaching them only stops new work, new faults or
new visits, so that the liveness properties still see what was started come to
its end. `Stopped` (ReportBarrier) and `Done` (GpuBatch, IslandMeasure) are
stutters that say the bound or the end is reached; `Pipeline` needs none, since
its main thread never stops. In `network`, `store`, `store_lost`, `viewer` and
`grid_mixed` a state without successors is legal (all clients have gone, all
finds are stored and nobody visits), and deadlock is not checked there. Sleeps
and timeouts are states and steps, not durations.

One batch with three results is enough for equal finds from two candidates in
two CPU threads, for a failed post with another item behind it and for a drain
interrupted by the uploader's sleep. The seeds of `MCPipeline` include two
candidates that lead to the same key with different scores, a seed without finds
and a start at the last seed. Three rounds are needed for a thread to lap
another, two would do for the generation to change while a third thread still
waits. In `MCGpuBatch` a seed loses one of two centres in filter 0B, one drops
out before its last octaves are computed and its index is used again by the next
batch, and two centres collapse onto one place. A record of 3 bytes in a buffer
of 4 makes a read end at every byte of a record and lets the buffer hold a rest
and be filled; the code's 16 and 1024 differ in size only, since the records are
cut by division. In `MCIslandMeasure` the lattice of the coarse test has four
points in a grid of twelve samples, islands of one cell fit the first window,
others need the second or are cut by the largest, and windows lie on both sides
of an axis. `MinSize` is positive
there; the proofs include 0, which `--size` accepts (`src/main.cpp:162`) and with
which a find of size 0 is reported where there is no island. Two faults let a
request time out and its retry meet a crash, and a find that is a row already.
`StoreAssumption` says that fewer rows than `Limit` cannot be rendered: with 50
such rows `_batch_render_pending` sees no other. Three events are enough to change
the filter while a request is under way and another has failed, and to leave a
map, open another and come back; the rows still to be uploaded are bounded by
themselves. A window that one row fits, and pages of two, give lists that can be
scrolled and lists that cannot; `ViewerAssumption` says that a full page of 50
cards does not fit it (`Fits < PageSize`).

### Fairness

- Every thread's own steps are weakly fair: no thread is ever suspended.
- `PushOutput` and `Enqueue` wait for a mutex that another thread takes again
  and again, and are strongly fair. The main thread leaves `cpu_outputs.mutex`
  for a second at a time, and the uploader leaves its own during each post.
- `LockSize` and `PrintReport` wait for `outputs_mutex`, which is held for an
  instant every `PRINT_INTERVAL` batches: strong fairness.
- `Claim` is not fair: nothing depends on a further batch.
- A post ends (`PostOk \/ PostFailed`): sockets have timeouts. That it succeeds
  again and again (`SF(PostOk)`) is a hypothesis inside `WrittenIsUploaded`. It
  is an assumption on the backend, not on this code.
- `Network`: client and server go on, TCP hands over what it has taken. Kills
  and resets are never required.
- `SeedStore`: a thread of the backend that has something to do goes on
  (`Goes`), the renderer being stopped after 60 seconds; `Lock` is strongly fair,
  since `render_lock` is free between two renderings. Nothing is assumed of the
  uploader, the visitors and the faults.
- `Viewer`: requests are served, workers and page take their messages. The visitor
  keeps scrolling to the end of the list and, where it is longer than the window,
  back (`ScrollToEnd`, `ScrollBack`): the claim of `ListEnds` is about such a
  visitor. The observer reports what the scrolling changes and no more, so that
  this fairness makes no page come that the code would not fetch.

## Proofs

Each theorem `Spec => []P` is proved for every value of the constants that
satisfies the named assumptions; the bounds of the runs are among these
constants, so that the theorems hold for any number of batches, kills, faults,
deletions and events. The properties are seldom inductive by themselves. Each
module therefore has an inductive invariant `IInv`, proved in `Invariance`: it
holds initially, every action keeps it, and it implies the property.

### PipelineProofs

From `SpaceAssumption` and `ProcessAssumption`, for any sets of threads, any seed
space, batch size and `Process`: `TypeCorrect`, `NothingLost` (`NoFindLost`),
`ScanCorrect` (`ClaimsTile`), `FileCorrect` (`OneLinePerKey`), `LinesCorrect`
(`LinesWereFound`), `UploadExactlyOnce` (`UploadedOnce`) and `FileFirst`
(`PostedIsOnFile`).

`SeenIsWritten` ties `seen_outputs` to the lines of this session, which is what
makes a skipped find a written one. `HandsOK` says which thread can hold what:
without it a CPU thread could overwrite an output, or the uploader requeue
nothing. `InFlightWasFound` carries the origin of everything in the queues.
`ClaimsInStep` places the n-th batch `(n - 1) * Batch` behind the first seed,
modulo the seed space; that as many seeds are covered as were handed out
(`ScanCorrect`) then follows by counting, since numbers less than `SeedSpace`
apart have different remainders (`ModDistinct`). The proof goes by conjunct,
with one lemma for each (`TypeStep`, `HandsStep`, `WrittenStep`, ...) and in each
one step per action. Lemmas about sequences (`ElemsAppend`, `ElemsTail`,
`ElemsConcat`, `DistinctAppend`, `DistinctTail`) carry the queue reasoning.

### ReportBarrierProofs

From `GpusAssumption`, `BoundsAssumption` and `NoThreadAssumption`, for any finite
nonempty set of GPU threads and any interval: `ReportsAreComplete`,
`BarrierHolds` (`NoLapping`), `ClearsWhatWasPrinted` (`PrintedBeforeCleared`, an
action property) and `ImplementsRounds`: the aggregator implements
`ReportRounds`.

`PhaseOK` says from where a thread is whether its snapshot is in, and that a
thread still waiting after its round finds the generation changed; `OnePrinter`
that the last arrival is alone; `SnapshotsOK` counts the snapshots as the threads
that have arrived, which is what turns `snapshots.size() < gpu_thread_count` into
"somebody is missing"; `StatsOK`, `SizeOK` and `PrintOK` follow the numbers into
the report. One lemma per action.

### GpuBatchProofs

From `SeedsFit`, `SetupsAssumption` (sizes are numbers, there is a warp) and
`EmitAssumption` (there are finitely many places, a filter leads from places to
places, and filter 0B keeps a candidate where it is or drops it), for any seeds,
batches, capacities and number of warps: `TypeCorrect`; `OctavesCorrect`
(`OctavesFresh`); `PushedCorrect`: what is pushed is of the seeds of the batch
(`PushedOfBatch`), however the warps of filter 0B raced; and `SurvivorsCorrect`
(`BatchCorrect`): without such a race what is pushed is, with multiplicity,
exactly what the filters let through. All but the first are about batches
without overflow; that an earlier one overflowed does not matter.

`SourcesOK` says, for each place of the kernel list, that the candidates to be
read there are of seeds of this batch and that the late kernels before it have
raised their seeds' flags far enough; `NoiseOK` that a flag of `n` means that
octave parts 1 to `n` were computed for the seed that has the place now. The two
together make a table that is never cleared harmless. `WarpsOK` is about filter
0B: each warp has its own inputs, and no more places are taken than inputs were
counted, so that the kernel writes no further than it has read. `OctavesFresh`
survives the race because a mixture of two candidates is still one of a seed of
the batch, and the late kernels run on what is in the buffer after it.

`BatchCorrect` needs counting, which `CountInv` does (`CountInvariance`).
`TableOK`: the places of the table and the seeds of the batch are one to one, so
that counting candidates by place counts them by seed. `ExactOK`: what a kernel
finds in its input holds each candidate as often as the filters before it lead
there (`Ways`). `FilterCounts` shows that a kernel turns one such buffer into the
next, in whatever order it writes: a sum over the inputs is a sum over the places
they are at (`EmissionsCounted`). Filter 0B reads and writes one buffer, and in
the middle of it the buffer holds neither its inputs nor its results. `SharedBy`
says what it holds, with two witnesses that the state does not keep: `in`, the
inputs it started with, still in place beyond the places taken, and `from`, which
tells for each place taken the input it was taken for, one to one with the inputs
counted and kept. As long as no warp has read a place that was taken, each of the
steps of a warp extends `from` by one or leaves it alone, and at the end `from`
is a bijection onto all kept inputs (`EndFilter0BCounts`). This is the argument
by which the race of finding 1 is the only thing that can spoil a batch that
fits.

`Ways` is a recursive function and a sum is a fold; what they compute is brought
into the form the proofs use once (`WaysAre`, `SumIs`), the rest is sets and
cardinalities.

### IslandMeasureProofs

From `SizesAssumption` (sizes are numbers, the first radius of `process_origin`
lies between 1 and `MaxRadius`) and `CandidatesAssumption` (a seed has finitely
many cells of mushroom fields where the thread looks, the Voronoi step stays
among the cells around a block), for any seed, window, radius and numbers of samples: `CentersCorrect`
(`CentersComplete`), `WindowCorrect` (`WindowExact`), `LargestCorrect`
(`LargestMeasured`), `ReportCorrect` (`ReportedIsIsland`), `OriginCorrect`
(`OriginExact`) and `StackCorrect` (`StackFits`).

*The reference.* `Islands(S)` joins the places of `S` one by one to the islands
they touch. `IslandsAre` proves that for every finite set these are its
connected parts: subsets with no neighbour left outside, no proper part of which
has that property. The library has no induction over a fold, so `IslandsPartition`
takes the numbers of places added for which the result is such a partition, with
`SetInduction` of `Numbers`.

*The fills.* `FillOK` is about one fill: what it has reached lies in one island,
is disjoint from what is left, is taken once, and no neighbour of a place taken
is missing from what it has reached. When the stack is empty, what was taken is
therefore closed and within one island, so it is the island (`TakenIsIsland`);
`sum` keeps its mean within its box, `edge` says whether it meets the border.
`BestOK` compares it with the islands of the earlier fills. `CentersOK` is the
same idea for `floodFillGen`, whose fills also mark samples that are no hits and
stop where the tolerance ends: when a fill is over, the neighbours of the hits it
has marked are marked too, so that an island of hits is marked as a whole, by one
fill, or not at all. `StageOK` says what the other variables hold between the fills.

*The windows.* `PassGridExact` is arithmetic: `Trunc` rounds towards zero and
`>> 2` rounds down, and the grid of `Grid4` reaches far enough on both sides of an
axis for every block, with the cells its Voronoi step can lead to and the cells
around those (`GridCovers`). So the shortcuts flag the blocks the game would.

*The stack.* `floodFillGen` allocates one entry per sample and marks a sample
only when it is popped, so that a sample can be on the stack once for each
neighbour. That this is room enough does not follow from counting neighbours,
which gives four entries per sample, but from the order in which they are pushed:
up, down, left, right. An entry pushed up or down belongs to a step between two
rows, which has a marked end from then on and is not pushed again (`Spent`). One
pushed to the left and still there with others above it has been followed by its
right neighbour, so its parent was entered from another row, by a step whose entry
is gone, or was the start of the fill. Only the top entry can be without such a
step. So the stack has at most as many entries as there are such steps, one for
the start and one for the top (`StackOK`, `StackInvariance`), and the samples of
the first row, to which no step leads down, make up for these two (`StackRoom`).

*The report.* An island of the window that does not touch the border is an island
of the world, and any other is part of one (`IslandOfWindow`).

### NetworkProofs

From `ConnsAssumption` and `LengthsAssumption` (a record is at least one byte and
not longer than the buffer; one byte of the handshake tells the biome size), for
any clients and lengths: `RoomCorrect` (`RoomToRead`), `MatchingCorrect`
(`OnlyMatchingClients`), `RecordsCorrect` (`RecordsIntact`) and `StreamCorrect`
(`StreamConserved`).

`StreamByte(c, i)` is byte `i` of all that client `c` ever writes. The invariant
places everything in this stream: what the server has in `hs` and `buf` by how
much it has taken, the wire behind it, the rest of the write behind that
(`WireOK`, `ServerOK`). A connection that came to reading by a failed handshake
is at its end (`ServerOK`), which is why the wrong comparison lets nothing in.
That cutting by division gives whole records is `DivMod` and `DivModUnique`.

### SeedStoreProofs

From `StoreAssumption` (the old rows are finitely many, the sentinels are no keys
and no threads), for any keys, threads, faults and deletions: `UploadCorrect`
(`UploadedIsStored`), `SaveCorrect` (`SavedByOne`) and `FlagCorrect`
(`FlaggedHasThumb`).

`OneLive`: of all requests and answers under way at most one can still reach the
uploader, and it is about the key it waits for; a timeout takes this from the
others. With `AnswersKnown` this gives the first theorem. `IdsStable`: an id never
comes to belong to another key, so that setting `has_thumb` by id hits the row of
the key that was rendered or none; `FilesOK` ties a file to the thread that
renders it. That this thread holds the lock is part of `TypeOK`. One lemma per
action, most of them through a frame lemma (`AnswersKept`, `IdsKept`,
`FilesKept`, `FlagsKept`) for what the action leaves alone.

### ViewerProofs

From `ViewerAssumption` (a filter lists rows of the table without repetitions;
the page size and the number of workers are not zero, a page is longer than
what fits the window; a row is neither `List` nor
`NoRow`, and these differ) and `UnmountedAssumption`, for any rows, filters, page
size, workers and events: `OwnFilterCorrect`, `SkipCorrect` (`NothingSkipped`),
`ExactCorrect` (`ShownExactly`) and `MapCorrect` (`MapOfRoute`).

The list. `CurrentOK`: at most one request counts, it is for the filter that is
set and for its first page or the one after the last shown. `CoverOK`: rows that
were there from the start and lie on the first `page` pages are shown. It is
inductive because an inserted row moves others only towards later pages
(`SelectedLater`), so that no row slips from a page still to come onto one already
fetched. `ExactOK` says the same without insertions, as an equation. The proof
restates this invariant as a predicate `GoodIn` of a table, a state of the grid
and a set of requests, so that each action is a lemma about values and not about
primes.

The map. `WorldsOK` (of `TileWorkers`): workers, the open map and the tiles shown
all belong to the current seed. `DetailOK` ties that seed to the row of the page,
and the page to its route.

`SelectedType` and `SelectedLater` are induction over the rows of a filter.
The library's induction theorems take an operator as parameter, which the provers
cannot instantiate; `SetInduction` of `Numbers` takes the set of numbers for which
a statement holds instead, and is proved from the least number outside of it.

### Only model-checked

The liveness properties (`FindsAreWritten`, `WrittenIsUploaded`, `SubmitReturns`,
`Delivered`, `StoredGetsThumb`, `ListEnds`, `MapGetsTiles`): the provers at hand do
neither liveness under fairness nor `ENABLED`. Every safety property of a passing
run is also a theorem.

## Findings

1. *Filter 0B overwrites its own input* (`src/gpu.cu:1652` and `:1732`). Input
   and output are both `buffer_2` (`src/gpu.cu:2043-2044`). A warp that keeps a
   candidate takes output place n with an `atomicAdd`, and input n may belong to
   a warp that has not read it yet. `InputBuffer` declares `const T *data`
   (`src/gpu.cu:296`), and the kernel is written as if that held. Run
   `batch_race` shows a batch that loses a candidate and pushes another one
   twice. `BatchCorrect` shows that nothing else spoils a batch that fits.
2. *Overflows are never reported* (`src/gpu.cu:2188-2205`). The lengths are cut
   to the capacities before `StageStats::update` compares them with the
   capacities to print "outputs overflow" (`src/gpu.cu:1805-1809`). Run
   `batch_silent`.
3. *A seed that could not be stored is acknowledged*
   (`seedviewer/backend/main.py:178-179`). Any exception of the insertion, such as a
   full disk, is answered with status 200 and `duplicate`; if that comes within
   its 5 seconds, the uploader takes 200 for success and drops the seed
   (`src/uploader.cpp:146-149`). (A database that stays locked for the 30 seconds
   of `seedviewer/backend/db.py:30` outlasts the uploader, which tries again.) Run `store_lost`. `UploadedIsStored` shows that
   this is the only way to lose one between uploader and table.
4. *The list can show seeds of another filter*
   (`seedviewer/frontend/src/components/SeedGrid.tsx:60-79`), where
   `seedviewer/README.md:9` promises filtering. When the first page of a new
   filter fails, the old seeds stay; the next scroll fetches page 2 of the new
   filter, clears the error and appends its rows, which may be none. Run
   `grid_mixed`. `OwnFilter` shows that nothing else mixes filters.

Divergences noted without a run: `seedviewer/README.md:7` promises an infinite
scroll grid of all seeds, and a list that fits the window shows none, or those of
an earlier filter, for good after its first page failed
(`SeedGrid.tsx:83-92`, the exception of `ListEnds`); the comment at `src/cpu.cpp:193` calls
`fast_find_center` a replacement for a test with tolerance 2, and it has none;
`seedviewer/README.md:134` says `in_bounds` is within 2M blocks where
`WORLD_BORDER` is 29,999,984, and lists endpoints that do not exist. With one logical
processor `numWorkers` is 0 and no tile is ever drawn, which `ViewerAssumption`
excludes.

## Not modelled

- Kernel arithmetic (noise, random numbers, generated tables) and biome
  sampling: floating-point functions of seed and place. They are parameters.
- `Args::parse`: one sequential pass over the command line; what it chooses
  appears as constants.
- The branch of `cubiomes.c` for versions before 1.18, which this program never
  takes.
- The renderer, the WebAssembly wrapper and the size checker: sequential
  computation and file output without protocol state. Layout of the frontend,
  `BiomeMapViewer` (used nowhere), `/api/stats` and `StatsBar` (read only).
- The code after the endless loop of `main_inner`: it cannot be reached.
- Vendored libraries. All but about 6,600 of the repository's lines are `asio/`
  and `cubiomes/`, third-party code with their own projects, so that the modules
  cover a large part of this program and a small part of the repository. What
  this program uses of them appears as external actions (TCP, end of file, errors) and as constants (biomes). Build and deployment
  scripts.
- Losses the code accepts and no document denies: finds written but not
  acknowledged at a kill are never uploaded, a client that loses its connection
  loses what it holds, and a seed deleted while its retry waits is stored again.

## Plan

All modules above, their runs and the proofs of their safety properties are
done. `ReportRounds` has no theorems of its own: it is what `ReportBarrier` is
proved to implement; `SeedGrid` and `TileWorkers` are proved about as parts of
`Viewer`. What a next step would take up: the liveness properties with the
longest chains of waiting, `StoredGetsThumb` and `FindsAreWritten`, with a prover
for liveness under fairness.
