# QuietMap in TLA+

QuietMap computes a noise atlas of the world and serves it as a web map. This
directory holds TLA+ specifications of the parts of it that run concurrently,
survive crashes or keep state across calls, TLC configurations that check them
on small instances, and TLAPS proofs of their most important properties for
every instance. Paths below are relative to the repository.

    NoisePool ............ what callers of the native worker pool are promised
    NoiseSupervisor ...... server/src/engine/noise-onfly-supervisor.ts, workers/noise-onfly-worker.mjs
    NoiseSupervisorProofs
    TileMap .............. what one tile store promises its users
    TileStore ............ engine/tile-painter/src/tile_store/{store,format,locks}.rs, the packer's capture and reclamation
    TileStoreProofs
    StoreTransactions .... the repaint, derivation, ingest and pack programs over one store root
    StoreTransactionProofs
    ReleaseLayout ........ server/scripts/{build,activate-build,release-layout,start}.mjs
    Publication .......... what publishing promises
    PackPublication ...... tile_store_pack.rs, tile_store_gc.rs and the manifests' readers
    PackPublicationProofs
    ProgressiveTile ...... frontend/src/lib/{progressive-tile-loader,compose-off-thread}.ts
    StaySearch ........... server/src/routes/stay.ts
    Readiness ............ server/src/runtime-readiness.ts and the routes above it
    ArchiveReader ........ server/src/routes/heatmap-pmtiles.ts
    RasterTiles .......... server/src/engine/raster-tile-renderer.ts, routes/raster-tiles.ts
    PointQueries ......... source-reader/src/{lib,structure_store,result_cache}.rs: the caches of point queries
    CacheProofs .......... of these four; ServerProofs of releases, stay, tile and all of them together
    SurfaceStream ........ relevant_source_runner.rs, the stream of cells
    PaintBatches ......... relevant_source_runner.rs, batch_raster_lookahead.rs: one cell
    AirborneStream ....... gpu_airborne/stream.rs
    PipelineProofs ....... of these three
    ChainRunner .......... pipeline/chain/{run,gate,status}.ts
    ChainProofs
    MCStorage, MCServer, MCPipelines
                           several of these in one run, one moving at a time
    MC*.tla, *.cfg ....... the instances TLC checks

Run `tlc -config X.cfg MCModule` and `tlapm ModuleProofs.tla` in this directory.

## Inventory

How data flows: extracts of OSM, ADS-B and rasters are written per H3 cell
(`engine/osm-extract`, `engine/aircraft-extract`), enriched in place
(`pipeline/`), painted into per-layer tile stores (`engine/tile-painter`),
summed into a total layer, derived into lower zooms, packed into immutable
PMTiles archives that a manifest names, and read by the server (`server/`),
which also answers point queries through native worker threads. The browser
(`frontend/`) composes the layers it gets.

| Component | State | Operations | Hard | Correct when |
|---|---|---|---|---|
| Noise worker pool (`noise-onfly-supervisor.ts`) | FIFO queue, slots with a worker each, timers, abort listeners | enqueue, dispatch, worker message / error / exit, timeouts, aborts, recycle, close | callbacks in any order; native calls that outlive their answer; workers that die with events under way | every client is answered once; a slot is freed when its call ends and not before; no thread is terminated inside a native call |
| Tile store (`tile_store/`) | dense index, append-only log, in-memory tail, file lock | create, open, put, delete, sync, read; the packer's capture, validation, reclamation | process and host crashes between reservation, write and index entry; unsynced pages; readers and packers beside writers | space has one owner; a tile never reads as another's bytes; what is synced survives; what is held is not punched |
| Store transactions (`rebuild.rs`, `locks.rs`, `pyramid.rs`, the binaries, `build-heatmap.sh`) | marker files, four kinds of lock, tiles of all layers and zooms | scoped and world repaint, combine, pyramid, hub ingest, pack | six kinds of process interleave; kills between any two steps; retries that adopt a marker; bounded and unbounded lock waits | damage lies under a marker that covers it; a pack captures coherent layers; nobody waits for ever |
| Pack publication (`tile_store_pack.rs`, `tile_store_gc.rs`) | archives, staging files, transaction markers, `current.json`, environment pointers | stage, rename set, flip, recover, sweep | kills between renames and flip; sweep beside publication and browsers of older manifests | the manifest names complete archives only; what a pointer names is never swept |
| Readiness and manifests (`runtime-readiness.ts`) | cached pin, loads in flight, two caches and one check in flight above them | validate, check, probe | replaced pins, shared loads, stacked ages | an answer was true of a recent moment; descriptors are closed |
| Server releases (`server/scripts`) | release directories; links dist, dist.next, dist.previous; flock | build, prepare, prune, activate, roll back, start | kills between renames; servers of older releases | links resolve; a running server keeps its files |
| Raster tiles (`raster-tile-renderer.ts`) | per-layer LRU of source tiles, rendered tiles, barriers | render | concurrent reads around an await | bounded memory; failures not cached |
| Archive reader (`heatmap-pmtiles.ts`) | bounded map of opened archives | open, read, drop after a failure | late failures and newer entries | a failure drops only its own entry |
| Stay search (`stay.ts`) | result cache, in-flight table, upstream budget | query | shared in-flight calls, partial answers | no partial answer is cached; budget kept |
| Point queries (`engine/source-reader`) | caches of cells, structures, results | query | several worker threads in one process | bounded; no index under an identity it is older than; a kept result is of the cells that later queries see |
| Enrichment chain (`pipeline/chain`) | plan file, status record, exit code, gate baseline | run, resume, skip, gate, seal | failures and kills at any step, resumes, a manifest that changes in between | safeToSync and exit 0 only for what ran from the first step on, in order, and audited; for the whole plan if resumed as hinted |
| Frontend loader (`progressive-tile-loader.ts`, `compose-off-thread.ts`) | fetches, preview, in-flight composes, worker | load, refine, abort | races of fetches, timers, previews and worker death | the last image is the sum of what arrived |
| Surface painter pipeline (`relevant_source_runner.rs`, `batch_raster_lookahead.rs`) | permits, channels, cells on the card, verdicts | read, prepare, upload, paint, write | errors and panics of three kinds of thread at rendezvous points | two cells on the card at most; the exit status tells the truth; every thread ends |
| Airborne worker (`gpu_airborne/stream.rs`) | queue, channel, `VramGate` | read, prepare, acquire, build, fall back | condition variable with two priorities, upgrades, panics | large builds alone; no cell lost, doubled or starved |
| Tile painting kernels, extraction, enrichers, noise model, GPU kernels | numeric | batch | floating point | out of reach of TLC and the provers |
| Routes, shell drivers, generators, docs | none, or files written once | | sequential | not modelled |

They interact through the file system (stores, markers, locks, archives, the
manifest, release links), through calls within one process, and through the
message ports between the server and its workers.

## Plan

The order is by how much goes wrong when the component does. Done: 1 to 10.

1. `NoisePool` <- `NoiseSupervisor`: the abstract pool and its refinement.
2. `TileMap` <- `TileStore`: the crash contract of one store and its refinement.
3. `StoreTransactions`: all programs over the stores, one level of detail above 2
   (a level there is one `TileStore` whose writers exclude each other).
4. `ReleaseLayout`.
5. `Publication` <- `PackPublication`: pack, recovery, pins, sweep and tabs.
6. `ProgressiveTile` and `StaySearch`: what the browser and the proxy show.
7. `SurfaceStream`, `PaintBatches`, `AirborneStream`: the painting pipelines.
8. `ChainRunner`.
9. `Readiness`, `ArchiveReader`, `RasterTiles`: the caches of the server.
10. `PointQueries`: the caches of the native source reader.
11. Left: the dependency snapshots of releases.
12. Proved, in this order: the pool, the store, the stream, the releases, the
   packs, the batches and the airborne worker, the proxy and the tile, the caches,
   point queries, the server as a whole, the enrichment chain, the store
   transactions. Every safety invariant that a passing run checks is proved.

## NoiseSupervisor

One action is one callback of the Node event loop. `main` says whether a
callback is still running its dispatch loop (`startNextIfPossible`) or the
synchronous part of `close()`; no other callback runs meanwhile. The worker
threads run concurrently (`WorkerReply`, `WorkerCrash`, `WorkerStops`) and
reach the main thread only through the per-worker FIFO `events`.

| Variables | Code |
|---|---|
| `queue`, `answer`, `queueTimer`, `workTimer`, `listening`, `onWorker` | `queue`, `QueueEntry` |
| `active`, `worker`, `recycling` | `Slot` |
| `main`, `closeAt`, `closeStep`, `closeTarget` | where the running callback, or `close()`, is |
| `thread`, `home`, `inbox`, `events` | the worker threads, their ports and their captured slot |

`Enqueue` is `enqueue` with every early return, `Dispatch` is
`dispatchToSlot` with its two failures, `OnMessage`, `OnError`, `OnExit`,
`QueueTimeout`, `WorkTimeout`, `Abort`, `RecycleDone` are the handlers, and
`Close*` the four places where `close()` suspends. Payloads, error texts and
durations are left out: a timer may fire whenever it is armed.

Properties: `EveryWaitIsTimed` (each unanswered client is in exactly one place
and a timer there will answer it), `SlotIsHeldByCall`, `OneCallPerWorker`,
`NoTerminateMidCall`, `ThreadsBounded`, `WorkConserving`, `CleanShutdown`,
`AnsweredOnce`, and `PoolSpec`: the supervisor implements `NoisePool`, in
which a place is held until its computation ends even when the caller was
answered before. Liveness: `EveryClientAnswered`, `EverySlotFreed`,
`CloseReturns`.

Fairness. `LoopFairness` is weak fairness of the event loop (callbacks
queued are run, armed timers fire); it says nothing of native calls.
`EveryClientAnswered` needs no more: calls may hang for ever.
`ThreadFairness` adds that native calls return and terminated threads end;
`EverySlotFreed` and `CloseReturns` need it, as the code says itself (a slot
is parked until its call returns): they state it as their premise, so that one
run under `LoopSpec` checks all three.

Bounds. Four requests, two slots, a queue of one and one fault in the safety
run: enough for both slots busy, one queued and one refused, with a fault in
any of them. The liveness run has three requests, one slot and two faults, in
behaviours in which calls may hang for ever.

The runs check some properties in groups, to keep them few: `SlotsMatchCalls`
is `SlotIsHeldByCall`, `OneCallPerWorker` and `WorkConserving`, `ThreadsAreSafe` is
`NoTerminateMidCall`, `ThreadsBounded` and `CleanShutdown`, `PoolRecovers` is `EverySlotFreed`
and `CloseReturns`. The other modules do the same; each part has its own
comment and its own mutant.

## TileStore

One (layer, zoom) store. Writers are processes serialised by the lock of the
level; one writer has several `put_blob` calls under way (rayon), each a
reservation of log space, the write of the blob, the write of the index entry.
The packer takes the same lock, captures the index, validates, punches dead
blocks, ships. A reader of the master lock's domain holds an entry between its
two reads. `index`, `data` and `length` are the files as processes see them;
`onDisk*` collect every value a crash of the host may leave: those written
since the last sync. `HostCrash` picks one for each entry, unit and length
independently.

Properties: `NoOverwrite`, `NoAliasing`, `CommittedIntact`,
`HeldEntriesStable`, and `MapSpec`: the store implements `TileMap`, an atomic
map whose contents a host crash may undo or spoil only as far as they were not
synced. Two tiles, three blobs, two writers, one kill, one host crash;
`LogLimit` 4 makes the log overflow (u64::MAX in the code), `Block` 2 makes
gaps that are not block-aligned.

`NeverSilentlyWrong` is violated by a second host crash (see Findings).

## StoreTransactions

Every process is a program: a sequence of steps over locks, markers and tiles,
built by operators named for the functions they stand for (`BuildPyramid`,
`Fenced`, `Combine`, `Transcode`, `Ingest`, `Scoped`, `World`, `Pack`).
`pc` is its place, `Instr` its next step, and there is one action per kind of
step. A scoped repaint is one program although it is a script that runs four
binaries: the script holds the master lock throughout, and a kill of any of
them ends it (`set -e`), with the locks dropped and the markers left.

A column is a base tile with its ancestors, so pooling is the identity on
contents, and a content is the run that painted it: what is checked is which
version of what a tile was derived from. `owed` collects the columns that the
code changes outside of any transaction that derives from them: cells the hub
pushes, and source layers of a world repaint until its combine. It is struck
off by the transaction that derives it: when a fence over a directory is
finished, the columns of that directory which are coherent are owed no longer.
What another directory's transaction happens to leave coherent stays owed.

| Property | Says |
|---|---|
| `DamageIsFenced` | wherever processes were killed, a level that does not match the one above it, or a total that is not the sum, lies under a marker whose scope covers it (or is owed) |
| `PackIsCoherent` | a pack captures no damage, although pyramids run by hand do not take the outer locks |
| `FenceIsOwned` | nobody adopts, overwrites or removes the marker of a live process |
| `WritersExclude` | one writer per level, and none while a pack reads it |
| `RepaintArrives` | what a scoped update staged is there when it finishes, what went silent is gone |
| `EveryProcessEnds` | the lock order lets every process end |

The runs differ in which kinds of process meet and how many zooms and columns
there are: two processes at a time and two or three starts are enough for a
retry of a killed transaction beside a live one. `MinZoom` 11 and `BaseZoom`
12 keep the painted zoom below the one the ingest refuses (see Findings). The
run with two columns is the one in which markers differ in scope, so it checks
`DamageIsFenced` again, with `RepaintArrives` as `RepaintIsSafe`, beside
`EveryProcessEnds`. The hub pushes what its workers painted, and one that was
not updated may still push zoom 13, which the ingest refuses (`Pushed`).
Fairness: weak fairness of every step of a started process; nothing must be
started, no lock wait has to time out, and one process may be killed.

Left out: tile lists as scope, markers in the legacy format, host crashes
(markers are fsynced before the work they announce, levels before the marker
goes: `begin_owned_marker`, `sync_all`), and the hub's own locks
(`scripts/world`, in another repository).

## ReleaseLayout

Scripts exclude each other by a non-blocking flock, so one script position
`script` is enough; `Crash` ends it between any two renames or removals.
Servers start without the lock. `since` counts the activations begun while a
server runs, with 2 for "more, or a rollback".

`LinksResolve`: no dangling link ever. `DistStays`: dist is only renamed over.
`PreviousWasActive`: a rollback never reaches a release that was only
prepared. `ServerKeepsRelease`: a server keeps its release until a second
activation, or a rollback, begins. That is as much as the layout gives: an
activation that is killed after it replaced dist.previous counts, since the
older release is unlinked by then and the next build prunes it; and a server
still running what was rolled back from loses its files to the next build.

Four releases, two servers, two kills: a release can be prepared, active,
previous and pruned with one in each place. The smoke test is left out (it
holds the lock as long as it runs its server), and so are the dependency
snapshots that releases link to.

## PackPublication

One directory of archives `{layer}.{build}.pmtiles`, the head `current.json`,
one pin per environment, and browser tabs that go by the pin they fetched
last. A pack stages its layers, checks what it carries over, writes the
transaction marker, renames the staged files to their public names, flips the
head, and removes the marker; a failure at any step, a kill, and the recovery
of the next pack (which may itself be killed) are actions. `dir` is the
directory as processes see it, `maybe` the values a host crash may leave: all
it had since the last fsync of the directory. `kept`, `swept`, `handed` and
`reported` are history.

`ArchivesMatchReferences`: head and pins name whole, durable archives in every
directory a crash may leave (`ReferencesAreWhole`), and an archive nobody names
is under a marker (`NoOrphan`), since an orphan would refuse the retry of its
build. `BrowsersAreServed`: what a tab goes by is there, and a name that a
browser cached keeps its content. `HeadIsTrue`: one dataset year, and not older
than a pack that exited with success. `PublicationSpec`: the packer implements
`Publication`, in which a run flips all of its layers at once and a host crash
undoes at most what was not settled.

Assumed: operations of one directory become durable in their order (a
journalled file system), a tab polls more often than `--min-age-secs` lasts,
build ids are not used again after a sweep, and pins are moved by an operator
to heads that were published. Bounds: two layers, two build ids,
two packs, two faults (a failed pack and a killed recovery), one environment
and tab, two years.

## ProgressiveTile and StaySearch

`ProgressiveTile` is one call of `loadTileProgressively`: the race of its
fetches, the waits for a preview, for deck's ancestor and for the complete set,
the image it resolves with, and the tail that composes again as layers land.
The worker composes in the order it is asked and may reject; the call may be
aborted at any time, and deck's ancestor come or go. An image is named by what
it was composed from. `TileConverges`: once the last layer settled the tile is
the sum of what landed, unless the compose of all of it was rejected, and until
then its tail can be aborted. `ImageIsNotDegraded`: what is shown only grows.
`DataIsShown` and `AbortEnds` hold if timers fire, fetches that were cut end
and composes are answered; no other fetch has to end. Three layers for safety
and two for liveness, one rejected compose.

`StaySearch` is the accommodation proxy: cache, single flight, the sliding
window over upstream calls, pages, the clustered refetch of a cut flat list,
stale copies. Time is in ticks and everything carries its age. `ssSent` counts
calls independently of the code's own list. `SearchIsHonest`: any window stays
below the cap, and nothing the window cut is cached. `CopiesServe`: an error is
answered only where no copy was young enough, and a copy leaves the cache only
for a newer entry or as the oldest of a full cache. `SearchesEnd` needs every
page to be answered (the code aborts it after 12 s). Two clients; two or three
buckets around a cache of one or two; two calls a window, two pages.

## Readiness, ArchiveReader, RasterTiles

The caches of the serving process. All of it runs on one event loop: an action
is what happens between two awaits.

`Readiness` is the validated pin that the readiness check and the manifest
routes share (`readCachedValidatedPmtilesManifest`: open, stat, the cached
manifest or a load in flight of the same identity or a load of one's own,
validation, the second stat, one retry) and the check above it: all files at
once, cached when all are good, then the probe of the engine, whose success and
failure are remembered for a while, under one check in flight that monitors
join. Around it pins are published, archives and files break and heal, and the
probe may fail. Time is in ticks, a tick may pass while a check runs, and every
time is kept as an age. `HandlesAreClosed`: descriptors are open for those who
still need them only. `ReadinessIsHonest`: a manifest that is answered was the
pin at some time of the request, a request fails only for a pin that was bad or
changed twice meanwhile; "ready" says of every part that it was good within the
sum of the caches above it and the length of the check; and "not ready" names
what was bad during this check, or a probe that failed within its retry window.
`ChecksEnd` needs the file system to answer and the probe to end, which the
timers of the pool see to. One route, one monitor, one file part, two pins and
one publication or break for safety; liveness without the route.

`ArchiveReader` is the bounded cache of opened archives, where an instance keeps
the rejected promise of its header or of a leaf. `FailuresDoNotStick`: while a
cached instance keeps one, a request is on its way that will take it out.
`OnlyFailedGo`: no failure takes out another instance. Two archives around a
cache of one, two requests; files become unreadable and readable again.

`RasterTiles` is the cache of source rasters, which makes room before it awaits
a file, and the walls of the world behind one promise. `RastersAreBounded`:
reads overshoot by at most one raster each. `NoWallsLost`: a tile of walls is
drawn from the whole load, never from one that goes on or failed. Two rasters
and one absent tile around a cache of one, two reads, two cells of walls.

## SurfaceStream, PaintBatches, AirborneStream

Each action is what a thread does between two points where it may wait for
another; every fallible step may fail, every thread that runs foreign or
numeric code may panic.

`SurfaceStream`: a producer prepares and uploads cells under permits, a painter
paints them and returns the permits. `StreamIsSound`: no third cell on the card
(`CardHoldsTwo`), and an exit status of zero means that every line read was
painted and the input ended cleanly (`ExitIsHonest`). `StreamEnds`, except
after a panic of the painter (below). Four lines, two permits.

`PaintBatches`: the builders, the painter and the writer of one cell.
`ListIsPainted`: batches reach the card in order, and the cell is done only
with all tiles on disk. `CellEnds`: an error or a panic of any thread lets the
others end, since the channels are dropped with it. Five batches over three
builders, so that shares differ in length.

`AirborneStream`: reader, preparing thread, two device workers, and the gate of
permits with its two priorities, where a small build may fall back to one that
needs every permit. `BuildsAreExclusive`: such a build runs alone, and no cell
is lost or in two places. `CellsAreAnswered`, `InputEndsStream`, except when
every worker has panicked (below). A condition variable is the set of its
sleepers, and a woken thread looks again.

Fairness: weak fairness of each thread; nobody has to send another cell.

## ChainRunner

One invocation of the runner at a time: it resolves the plan of a scope and
phases and runs it, or resumes one. `ResumeChain` is `--from` as the code has it:
it begins at any step, by the plan file of any earlier run (`crPlans`), and is
refused only when that names another plan than the manifest resolves to now for
its phase (scope and phase are the file's, or it would be refused as well).
Steps are skipped, which changes nothing on disk, succeed (a floored one perhaps
with a part of its feeds), fail, or die with the runner; the gate refuses, passes
or fails; the manifest may gain or lose a step between two invocations and an
operator may seal a baseline. `crData` says what each step has left on disk, and
goes "stale" when a step before it runs; `crPlan` keeps, beside the plan, a
history that no guard reads: whether each resume since the start went by the hint
of the run before it (`Heeds`: that run's plan, at most from the first step without
a good record), and what was skipped before the part that is run.

`ChainIsHonest`, of what the runner says of its data:
`safeToSync` of any run means that the gate has passed them, and that everything
from the run's first step on is whole or on record as skipped
(`SafeToSyncIsEarned`; of a fresh run that is the whole plan); exit 0, that
everything from there on ran in its order or was skipped, with the gate after what
it audits (`ExitZeroRanTheRest`); exit 0 of all phases, if every resume went by its
hint, that this holds of every step of one and the same plan
(`ExitZeroIsWholePlan`); and what the record of a dead run calls done, or complete,
is so (`RecordIsHonest`). Nothing is promised, and the code promises nothing, of
the steps before `--from` when it names a step past the hint: `manifest.ts:667`
commends it to skip steps that are known to be done, and the exit code is 0 though
one before it is torn, never ran, or was the gate itself. Nor of a skipped step: why a step
is skipped is not part of the digest (`run.ts:203`), so that one left torn by a
failed run may be skipped in the resume, which exits with 0 over it; the record
says "skipped", not what it is.

One floored and one skippable step, a plan of four steps and one of three without
the skippable, two different plan files at most (`MaxPlans`), so that a resume may
use an older one; a plan is resolved at the launch, so the manifest changes between
runs only. In the run with the stores the baseline is foreign until it is sealed;
that there is none differs in the violations that pass only, and is in
`chain_resume` and the proof. Assumed: chains do not overlap ("Never run two
overlapping-scope chains concurrently", `manifest.ts`), and the extract is not
replaced.

## PointQueries

A worker of the pool answers a point query in a native call, and the calls share
four caches: the cells that are resident for the life of the process (`pqStore`),
the memo of structure indexes (`pqMemo`), the edge tables that the world build's
warm sweep leaves beside each `structures.arrow` (`pqEdges`), and the recent
results (`pqResults`). An action is one critical section, one read of a file or
one rename; the cells of a ring are loaded and indexed in any order. A table is
its version, replaced by a rename at any time, so that what was fingerprinted
and what is read later may differ, in a query and in the sweep (`pqSweep`).
Metadata may be unreadable, loads and builds may fail, the server may restart.

`QueriesAreTrue` is the type invariant with the bounds of the caches,
`IndexesAreCurrent` (an index a call uses is not older than the identity it goes
by, wherever it came from, and never newer than the disk) and
`ResultsMatchStore` (a kept result is of the very cells later queries compute
from: first insert wins, and a loser computes from the winner's). It is checked
in the run of the stores. Two workers, two versions, a point with one cell and
one whose ring lies outside the prepared world, each cache with room for one.

## What TLC checks

| Run | Shows |
|---|---|
| `supervisor_safety` | the safety properties of the pool and the refinement of `NoisePool` |
| `supervisor_progress` | clients are answered though native calls hang; slots become free and `close()` returns when they do not |
| `tile_store` | the safety properties of the store and the refinement of `TileMap`; those of the enrichment chain and of point queries |
| `tile_store_two_crashes` | finding: a deleted tile comes back as another's bytes |
| `transactions` | all six kinds of process on one layer and column, with a kill |
| `transactions_progress` | two columns: fences of different scope, scoped repaints arrive, no process waits for ever |
| `transactions_retry` | finding: the exact retry is refused |
| `transactions_silent` | finding: silent layers keep their old tiles |
| `server` | safety of packs, releases, stay proxy, tile and the caches of the server, and the refinement of `Publication` |
| `pipelines` | safety and liveness of the three painting pipelines; liveness of tile, stay proxy and readiness |
| `tile_failure` | finding: a tile whose layers all failed shows silence |
| `chain_resume` | finding: a resume exits with 0 over a feed that loaded short |

`MCStorage`, `MCServer` and `MCPipelines` hold several components that share nothing: the
variable `focus` names the one that moves in a behaviour while the others stay
in their initial state, so that the states of the run are the sum of theirs and
not the product. The fairness of a component is restated there for the
behaviours in which it moves, `WF_v(focus = "x" /\ A)`.

Each property of a passing run has a mutant, a definition next to the one it
changes as a plausible bug would (marked `Mutant:`, or named for what it does
wrong); under it the property fails. Symmetry (requests, tiles, writers,
processes) is used in runs of safety properties only, over values no definition
distinguishes. Deadlock is not checked where the system may really stop:
transactions, packs and releases end when the bounded number of starts is used
up, and a stream ends with its input.

## Findings

* `transactions_retry`. The ingest refuses to push zoom 13 into a store that
  has a zoom 12 level (`tile_store_ingest.rs:255`), and the world is painted at
  13 with 12 as its first pyramid level. A scoped repaint fails after its
  marker is up, and so does every exact retry, which `build-heatmap.sh:50`
  says can finish; the marker keeps packs from running.
* `transactions_silent`. The directory a scoped repaint makes for a wholly
  silent layer is named `z13` (`build-heatmap.sh:249`); the ingest reads
  numeric names only, so the layer is not swept and keeps its old tiles.
* `tile_store_two_crashes`. A deletion that was not synced can be undone by a
  host crash that also loses the length of the log; its space is handed out
  again, and after a second host crash the old entry may read another blob of
  equal length without an error (`store.rs:214`).
* `tile_failure`. A tile whose layers all failed "must FAIL (deck can refetch)
  instead of caching silence" (`progressive-tile-loader.ts:126`); one that had
  resolved with the ancestor preview before its layers failed is cleared to
  transparent by its tail (line 241) and cached.
* `chain_resume`. "The chain gate FAILS a run with any partial/missing on a
  floored step" (`status.ts:19`), and of a resumed run one is to "read its exit
  code, not this field" (line 71); but `run.ts:493` enforces it only without `--from`. A
  floored step that loaded short counts as done, so that the resume hint of a
  later failure, or a resume at the gate that refused, exits with 0.

By reading alone, without a run:

* A world repaint replaces its layers and derives the total in transactions of
  their own, so that in between a pack may ship a stale total
  (`build-heatmap.sh:234`); the model records it in `owed`.
* `relevant_source_runner.rs:6` says a panic ends the process; a panic of the
  painter unwinds into `thread::scope`, which joins a producer that may wait
  for a permit or for room in the channel. `StreamEnds` excepts it.
* `stream.rs:833` says the preparing thread exits when all workers are gone; the
  receiver lives on in its `Arc`, and the send blocks for ever.
  `InputEndsStream` excepts it. A read error of standard input looks like its
  clean end there (`stream.rs:876`).
* The caches of `raster-tile-renderer.ts` make room before they await a file,
  so concurrent reads overshoot the bound (`RastersAreBounded` says by how much),
  and a failed load of the walls is kept as the promise of all later requests
  (line 586). A cell whose file of walls cannot be read is skipped until the
  server restarts (line 218), and its tiles are drawn and cached as if it had
  none, which `raster-tiles.ts` calls "data loss disguised as a quiet place";
  `NoWallsLost` excepts it (`rtSkipped`).

* A recent result of a point "is what a recompute would return" since "Hex data
  never changes inside a process" (`source-reader/src/lib.rs:319`), but the
  structure indexes of a query are looked up by the fingerprint of the table
  that is there now: once a table was replaced, a kept result, "Show all" and a
  recompute may differ, and a recompute joins new walls with old sources. A cell
  that failed to load stays resident as an empty one until the server restarts.

## What is proved

For every value of the constants that satisfies the module's assumption
(finite sets of requests, positive pool and block sizes, the absence marker
outside the other sets):

* `NoiseSupervisorProofs`: `TypeOKAlways`, `WaitsAreTimed`
  (`EveryWaitIsTimed`), `AnswersAreFinal` (`AnsweredOnce`). Types alone are
  not inductive: a reply is delivered to the slot its thread was wired to, so
  `TypeInv` adds that spawned threads have a slot and that unborn ones have sent
  nothing. `WaitInv` adds that the queue has no duplicates, that a slot's
  request is on its worker, and that queue and slots are disjoint; each
  handler then moves a request between "queued and queue-timed", "in one slot
  and work-timed" and "answered, with nothing armed".
  `CallsAlwaysMatch` (`SlotsMatchCalls`) and
  `ThreadsAlwaysSafe` (`ThreadsAreSafe`), from `TypeInv`, `WaitInv` and `CallInv`.
  `CallInv` says of a thread that it has at most one call, computing or
  replied (`Fits`), that this call is the request of the slot it is wired to
  unless `close()` took the slot away (`Called`), that a live thread is its
  slot's worker, or being recycled there, or the one `close()` waits for
  (`Owned`), and that what a dead thread has left to report ends with its
  exit; of a slot that it waits for its own worker (`ActiveFits`); and of
  `close()` that the slots behind it are empty (`CloseFits`). `Owned` maps live
  threads one to one into slots, which bounds them.
  There too is the refinement, `SupervisorIsAPool` (`PoolSpec`): each step is a step
  of `NoisePool` or one that its state does not show; `WaitInv` tells in which
  place a request can be, and so which step.
* `TileStoreProofs`: `TypesHold` and `SpaceIsOwnedOnce` (`NoOverwrite`), for
  any number of process and host crashes. The invariant says that an open
  store has one writer, which holds the lock; that puts are in flight in open
  stores only; and that the tail is past everything that owns space
  (`TailPastAll`), which the recovery at open re-establishes from the index
  and the length whatever a crash left of either.
  `ReadsStayTrue` (`ReadsAreTrue`, for at most one crash of
  the host), `CommittedStaysIntact` and `HeldEntriesStay` (`HeldEntriesStable`).
  `ReadInv` adds to the previous invariant that the space of a put holds its
  bytes or nothing, none of them synced (`PutsOwn`); that the log has never
  been written past its end (`LogEnds`), which is where the tail points
  (`TailPastLength`); that every put's blob is its own (`Fresh`); and that, before
  the first host crash, every entry such a crash may bring back still owns
  its space (`Recoverable`). The last part is what the first crash destroys:
  an entry that was deleted or replaced after it may lie past the recovered
  tail, where a put reuses its space, and a second crash brings it back.
  Reads are stable because a put that could change a byte under a held entry
  owns that byte, and a reclamation spares what the index names, which is
  what was captured.
  There too is the refinement, `StoreIsAMap` (`MapSpec`), for any number of crashes
  of either kind. A tile's content is what a read of its entry returns, and what is
  `saved` of it is what a crash may make of any of its entries since the last
  sync. Only the write of an index entry changes a tile: the write of a blob
  leaves every entry's prospects as they were, since the put's space and blob
  belong to no entry; syncs and reclamation only narrow them. It is not a
  contradiction to the finding of two crashes: `TileMap` calls another
  blob's bytes garbage, and `NeverSilentlyWrong` says that garbage is noticed.
* `PackPublicationProofs`: `Types`, `ArchivesAlwaysMatch`
  (`ArchivesMatchReferences`), `BrowsersAlwaysServed` (`BrowsersAreServed`),
  `HeadAlwaysTrue` (`HeadIsTrue`) and the refinement `PackerPublishes`
  (`PublicationSpec`), for any numbers of packs, failures, kills and host crashes.
  The argument goes by directory and not by time: whatever value a crash may
  return to is as sound as the one the processes see (`AllSound`). `Sound` says of
  one value that its references are whole, that a marker is of a build which
  the head names in all its layers or in none, that an archive is under a marker
  or was published, and that what browsers hold is in it. A step adds one value,
  made from a sound one; `PackInv` says, phase by phase, what the packer may rely
  on when it makes it: its run is the latest, the only marker is its own, its
  archives are staged or renamed whole. A sweep is harmless since what a tab
  holds is pinned or was renewed after it ceased to be (`TabsFresh`). For the
  refinement, `HeadsSettle`: a crash leaves the head or the one before the last
  flip. It takes the oldest value that a crash may leave, which exists since
  the runs that heads name are naturals (`WFMin` of the library).
* `PipelineProofs`: `PipelineTypesHold` (`TypesHold`), `StreamStaysSound`
  (`StreamIsSound`), `ListAlwaysPainted` (`ListIsPainted`) and `BuildsAlwaysExclusive`
  (`BuildsAreExclusive`), with any panics. `SuInv` accounts for every line once,
  between the input and the printed words, with the counts of failures of both
  threads, and for every permit: it is free, or held by a cell of the producer,
  the channel or the painter, or lost to a panic, and what is on the card
  holds one. `PbInv`: the next batch of a builder is the first of its share that
  the painter was not handed, so that the channel whose turn it is holds the batch
  the painter is at (the arithmetic of shares is `SameResidue` and
  `NextResidue`); what the painter is done with is on disk or with the writer,
  unless that failed. `AbInv`: a worker holds permits exactly while it builds, as
  many as its cell wants; either one has all, or each at most one, and with the
  free ones they are all there are (`PermitsAccounted`); and a cell that was read
  and not answered is in one of five places (`OnePlace`).
* `CacheProofs`, the caches of the server, for any sizes and lifetimes.
  `OnlyTheFailedGo` (`OnlyFailedGo`): `ArInv` says that no two entries share an
  archive or an instance, and that a cached instance which is opening, or has
  failed, is awaited by a request. `RastersAlwaysBounded` (`RastersAreBounded`, `NoWallsLost`):
  a tile is in the cache once, so that as many are held as places hold a raster
  (a bijection), and they and the reads under way stay in bounds together; walls
  are drawn from a finished load only. `ReadinessAlwaysHonest` (`ReadinessIsHonest`) and `HandlesAlways`: in `RdInv`
  a reader knows every pin that was current since it began, so that what it
  opened, joins or meets is one of them (`HasSeen`), and what would excuse an
  error of its own (`HasExcuse`); and whatever a cache still counts as good was
  in order at most as long ago as the cache is old, to which the check adds
  what it took. `QueriesAlwaysTrue` (`QueriesAreTrue`): in
  `PqInv` every holder of a version (edge table, sweep, call, memo) claims it of
  what is at least as new and of nothing newer than the table (`Claims`), which
  a replacement of the table only weakens; a kept result is of the resident
  cells, which never change once they are there.
* `ServerProofs`. Releases: `LinksAlwaysResolve`, `RollbackIsToActive`,
  `ServersKeepTheirRelease`, joined in `ReleasesAlwaysKept` (`ReleasesAreKept`), and
  `DistAlwaysStays`, from one invariant: nothing a link names is doomed
  (`Pointers`), and a server that no second activation concerns runs what dist or
  dist.previous names (`ServerPointers`). Stay proxy: `SearchAlwaysHonest`
  (`SearchIsHonest`) and `CopiesAlwaysServe` (`CopiesServe`): the calls that
  were sent in the window are those the proxy still counts, without the oldest,
  which it has not shifted off yet (`SentAreCounted`); and whoever waits for a
  search that could fail remembers the copy there is (`CopiesPromised`). Tile: `TileAlwaysConverges` (`TileConverges`) and
  `ImageNeverDegraded` (`ImageIsNotDegraded`): composes are answered in the order of
  growing sets (`QueueAscends`), and what landed last was asked for, unless a
  frame is due (`NewestIsAsked`). The composition: `ServerIsItsParts` says that a behaviour of
  `MCServer` is one of each of its parts, since those that are not in focus
  stutter; so what is proved of the parts holds of the run:
  `ServerTypesHold` (`TypesHold`), `CachesAlwaysSound` (`CachesAreSound`),
  `CachesAlwaysHonest` (`CachesAreHonest`).
* `ChainProofs`: `ChainAlwaysSound` (`ChainIsSound`), for any manifests, any
  floored and skippable steps and resumes at any step. A step is good that has left
  something on which no step before it has written since, and the gate while its
  verdict stands. `CrInv` says that every plan file has a plan (`PlansInv`), that the
  record follows the plan from the run's first step and vouches only for what is
  good (`RecordInv`), that only a floored step is done and short (`FullInv`), that a
  complete record has all the steps of the run, and a gate that was read is in it
  (`EndInv`), and, if the hints were heeded, that all before the run's first step is
  good or was skipped (`PlanInv`). A step that runs takes away only what lies after
  it (`LeavesWhat`), which the record does not vouch for; a resume by its hint begins
  at most where the record ends (`GoodBefore`). Assumed of a manifest
  (`ChainAssumption`): its plans name each step once, phase after phase as
  `buildPlan` pushes them, with a gate behind all that enrich; the gate is never
  skipped.

* `StoreTransactionProofs`: `TransactionsTyped` (`TypeOK`), `TransactionsExclude`
  (`OwnersExclude`), `DamageStaysFenced` (`DamageIsFenced`), `PacksAreCoherent`
  (`PackIsCoherent`) and `RepaintsAreSafe` (`RepaintIsSafe`), for any layers, columns,
  zooms and processes, started and killed any number of times.
  The first half is about the text of the programs. A process runs one of six
  programs of any length, so what holds at a place is said of the text before it:
  what is held (`Holding`), which fence it stands in (`Fencing`), which levels it
  has written there (`Passed`). `PlaceFits` says what must be so of every place: a
  fence is begun, and stood in, under the layer's mutex; a level is written under
  its lock, top down, and a fence finished when all were; bases of source layers
  are written under the master, or by the hub. It is shown of the transaction of
  one store (`StoreShape`), carried through concatenation (`Part`: what is held
  around a part does not matter to it), and so of all six programs
  (`ProgramFits`); for the scoped update also that the root's fence is under the
  master, that bases come before derivations, and that the root is finished after
  every directory it covers.
  The second half is the invariant of the states, `TransactionInv`. What the text
  says is held is held (`LockInv`), and who stands in a fence owns its marker, with
  its own descriptor (`FenceInv`): two processes with one descriptor would adopt
  each other's marker, but both would need one mutex, or the master.
  `DamageIsFenced` alone is not inductive: a finished fence must leave nothing
  behind, so `WorkInv` says
  that the levels a process has passed in its fence are derived in its columns,
  unless someone else changed the base meanwhile and answers for it (`Excused`: it
  is owed, or under the root's marker of a scoped update that has yet to derive
  it); `PutInv` the same of the level under way; and `ScanInv` of the tile list of
  a pass, which is taken before the level is locked, that what it leaves out is
  silent. `DamageInv` splits the fences: a missing sum lies under the marker of a
  combine, not of any transaction over the total, since a pyramid repairs no sum;
  and the root's marker stands for a directory only while its owner has not
  finished there (`RootCovers`). A pack has looked at the markers under both outer
  locks and has every level locked: what is damaged then is owed.
  `ArriveInv` is about what a scoped update has written under its root marker; it
  needs that no hub ingests meanwhile (`"hub" \notin Kinds`), which is the instance
  the run checks, and what the property says: the hub may push a newer tile
  between the ingest of a repaint and its end.
  Assumed (`TransactionAssumption`): there is at least one layer, the total is not
  one of them, the root is no layer, zooms start above 0 (number 0 names the
  mutexes and the master), and there is no kind of process but the six.

The inductive invariants were checked with TLC before they were proved. For the
proofs some definitions use positions, `SubSeq` and named parameters in place of
`SelectSeq` and operators as arguments, which say the same, and the assumptions
on constants name what the code takes for granted: files and layers come in
finite sets, the words for "no bucket" and for the two parts of readiness
that are no files are not the names of others, and a manifest lists its layers
in some order.

Only model-checked: the liveness properties, and what the runs of the findings
refute. Out of the prover's reach: liveness under fairness and ENABLED (the
theorems of the library that take an operator as a parameter, and with them
induction over data, too; least elements are still had from `WFMin`);
RECURSIVE operators, which no module here declares.

## Simplifications

Where a definition says less, or more, than its lines, and no property tells the
difference: `TileStore.Clean` asks for the exact bytes where fsck decodes a blob and
compares its source id (`fsck.rs:126`); `TileStore.PutFails` is a failure with space
reserved, and not of the write of the index entry after it (`store.rs:439`), which
returns the error with the bytes written and unreferenced; `PaintBatches.WriteFails` is
a writer that panics or one that returns an error; the second stat of
`Readiness.StatAgain` ends within a tick.

## Not modelled

Nine tenths of the source is numeric or sequential: the noise model and its
generated tables, scatter kernels and their CUDA ports, the batch extractors,
some hundred enrichers of one country each, format readers, presentation. TLC
and the provers have nothing to say of floating point, and a transliteration of
sequential conversions would state nothing a unit test does not; what they share
with the rest of the system (files, markers, exit codes) is in the models above.
So the share of the source that the modules map stays small, and is meant to be
the part in which order, failure and concurrency matter.

Not modelled although they keep state: the dependency snapshots that releases
link to (their hazard is listed in `PROJECT.json`; it takes a snapshot that an
older build script left). The hub, its workers and `store-lock.sh` live in another
repository; what is assumed of them is in `StoreTransactions`.
