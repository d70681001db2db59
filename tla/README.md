# jxr: a verification project

`jxr` decodes JPEG XR images on the host, on CUDA and on Metal. This directory
holds TLA+ models of the parts of it in which order, sharing, failure, placement
and numeric edges matter, the TLC runs that check them on small instances, and
proofs that TLAPS checks for every instance. `PROJECT.json` lists components,
runs, mutants, the source lines of every definition, hazards and theorems.

## 1. The system

### Parts, their state and how they interact

| Part | State | Operations | Hard behaviour |
|---|---|---|---|
| Facade (`jxr`): decoder, views, routes, orientation | options only | decode, decode into, prepare, choose a backend | sequential |
| Batch preparation (`jxr/src/batch/prepare.rs`) | LRU cache of contracts behind a mutex | prepare, regroup, retarget a layout | several threads on one decoder; a lock per lookup |
| CPU batches (`batch/cpu.rs`) | worker pool, list of workspaces | decode a batch, decode into a caller's storage | jobs nest on one worker, images fail, output is compacted |
| CUDA batches (`batch/cuda.rs`) | a once-cell per contract | prepare coefficients in parallel, submit groups | a nested parallel iterator inside a once-cell |
| Metal batches (`batch/metal.rs`) | staged, prepared and pending chunks | submit, wait, drop | entropy decoding, encoding and the GPU overlap; any step may fail |
| CUDA session (`jxr-cuda`) | submission lock, scratch pool, upload cache, streams | submit, wait, drop | several threads and streams; locks released between steps |
| Metal session (`jxr-metal`) | pools, upload cache, schedule cache, pipelines, staging allocations | encode, submit, wait, drop | the GPU runs what was committed while its buffers are recycled |
| Native decoder (`jxr-native`): container, headers, plan | none | parse, plan | regions, scales and margins meet |
| Packets (`tile_decode/frequency/ranges.rs`, `entropy/bit_reader.rs`) | the tile index; a window of cached bits | locate, read bits, read a symbol | packets in any order, bands left out, a damaged index; the last bits of a packet |
| Entropy coding (`entropy/*`, `tile_decode/cbphp.rs`) | adaptive tables, models, scans, predictions of a tile | decode a block, decode a pattern, adapt | scans that reorder themselves, two forms of one block, indexes moved by what was read |
| Tile traversal (`tile_decode`) | coefficient arena, what a pass hands to the next | decode spatial and frequency packets | tiles in parallel into one arena; four passes that must equal one; code of its own for each kind of plane |
| Reconstruction (`reconstruct`, `decode`) | planes of a window | transforms, overlap filters, chroma | filters reach over tile and window edges |
| Output (`output_format`, `kernels/output.rs`, `output.metal`) | none on the host; compiled pipelines on Metal | pack, pack into the caller's storage, dispatch a store | one image in five ways that must agree; words that overflow |
| Device plans and kernels (`jxr-core/device_plan`, kernels) | work lists, device buffers | schedule, dispatch | sequential filters become parallel lists |
| `jxr-math`, `jxr-image`, `jxr-mpsgraph` | none | arithmetic, adapters | numeric edges |

Threads share the preparation cache, the workspaces, the pools and the once-cells;
a batch decoder calls a session, a session calls the planner and the device; the
host decoder locates the packets of a tile, reads them through the entropy coder
into an arena that either the host reconstruction or a device reads, and the
reconstructed planes are packed by the host or by a kernel.

### What makes each part correct

* Preparation: every input resolved by a contract of its own, stable groups, a
  bounded cache, no contract shared by two layouts.
* Batches: every input accounted for exactly once, samples under the right source
  index, one user of a workspace, every call returns.
* Sessions: no buffer used by two commands in flight, none lost, uploads before
  readers, a returned call has settled.
* Packets: each found where it was written, none overlapping another, read as a
  reader of single bits would read it.
* Entropy: a block has one meaning in one pass and in two, levels have places of
  their own, adaptation stays inside its tables, every bit string is one symbol.
* Arena and tiles: the result of a sequential decode whatever the order of tiles;
  both packet orders give the same macroblocks, whatever planes a tile has.
* Regions and overlap: a region is the same part of the whole image; a device
  filters what the host filters.
* Output: the host's paths and both devices make the same bytes of a request, or
  refuse it for the same reasons.

`PROJECT.json` has the hazards of these, line by line.

## 2. Modules

| Module | Source | State and actions |
|---|---|---|
| `ReconstructionCache` | `batch/cuda.rs`, `contracts.rs`, `dispatch.rs` | per worker a stack of frames and a deque of jobs, the injector, one cell per contract. `Enter`, `ForkTop`, `Return`, `PopOwn`, `Steal`, `TakeInjected` are the pool (external, as its use in the code requires), `StartDecode`/`ReadCell`/`FillCell` the once-cell, `DecodeTiles`/`JoinTiles` the nested decode, `Install`/`SubmitGroup` the caller |
| `PreparationCache` | `batch/prepare.rs` | cache entries; per caller the phase, results, jobs. One action per locked section: `LookupHit`, `JoinJob`, `NewJob`, `PrepareJobs`, `Insert` inside `StoreJob`, `Return`; `Retarget`, `Regroup` |
| `CpuBatch` | `batch/cpu.rs`, `cpu/output.rs` | calls, slots, a stack of jobs per worker, workspaces lent and retained |
| `MetalBatchPipeline` | `batch/metal.rs`, `session.rs`, `encode.rs`, `submission.rs`, `coefficient_staging.rs` | the session thread's steps, the chunk being decoded, the chunk ready to be submitted, commands in flight, leases on staging allocations |
| `BatchOutcomes` | contract of the module above | what a batch promises each image: it ends as an output, an error of its own or an error of its group, and stays so. `MetalBatchPipeline` implements it (`KeepsPromise`) |
| `CudaSession` | `jxr-cuda` session, pool, cache, submission, encode | lock, calls, pool, cache, commands, streams. One action per step between locks |
| `MetalSession` | `jxr-metal` session, pools, upload cache, encode, submission, shared images | the call the thread is in, pools, buffers and what was last written to them, cache and arenas, commands and queues. `BeginRequest`, `BeginGroup`, `Commit`, `FailEncode`, `EndGroup`, `EndCall` encode; `BeginWait`, `WaitOne`, `EndWait`, `BeginDrop`, `DropOne`, `EndDrop` settle; `Run` is the GPU |
| `PacketRanges` | `tile_decode/frequency/ranges.rs`, `tail.rs`, `prepare.rs` | the file, the packets written so far, the index. `WritePacket`, `LeaveOut`, `CloseFile` are an encoder that takes packets in any order and leaves flexbits out, and whatever damages its index; `Locate` is `packet_ranges` and `tile_packet_ranges` |
| `PacketBits` | contract of the reader | a position that moves past the bits of an element, or an error |
| `PacketBitReader` | `entropy/bit_reader.rs`, `vlc.rs`, `refinement.rs`, `coefficients.rs` | position and cached word. `Open` takes a packet, `Parse` any element a parser asks for, with the refills, look-ups and truncated ends on the way. Implements `PacketBits` (`PacketsReadSerially`) |
| `CodedSymbols` | the syntax above single bits | no state: levels, runs, DC, LP and flexbit elements over either reader |
| `PrefixCodes` | `entropy/vlc.rs`, `tile_decode/cbphp.rs` | no state: the code tables |
| `BlockCoefficients` | `entropy/coefficients.rs`, `entropy/scan.rs` | the block being decoded, the adaptive scans, what was placed and what was kept. `Begin`, `Continue`, `End` |
| `AdaptiveCodes` | `entropy/adaptive.rs`, `entropy/model.rs`, `TwoTableState` | a selector or a model. `Select` is a macroblock's symbols and the adaptation after them, `Update` a model's |
| `CodedBlocks` | `tile_decode/cbphp.rs` | patterns decoded so far, the row before, the predictor's counts. `Macroblock`, for planes and for joint components |
| `CoefficientArena` | `tile_decode/{mod,dispatch,output}.rs` | the arena and its capacity, a writer per tile and component, metadata. `Push`, `FinishTile`, `FailPacket`, `Describe`, `Abandon` |
| `TileBands` | `tile_decode/{spatial,high_pass,quantizer}.rs`, `frequency/*` | a tile of one component: the spatial traversal, and the DC, LP, HP and flexbits passes with the arrays they hand on |
| `TileChannels` | `tile_decode/{yuv,multicomponent,integrated_alpha,integrated_alpha_frequency}*` | the same for tiles of several components, with and without alpha, at every scale: `ChannelSpatialStep`, `ChannelPassStep` and their ends run the step of each kind of plane (`YuvMacroblock`, `MultiMacroblock`; `YuvHpPacket`, `MultiHpPacket`, `AlphaHpPacket` and so on), which has code of its own in each order, over a content both orders share |
| `OverlapFilters` | `reconstruct/{overlap,subsampled_overlap}.rs`, `device_plan/overlap.rs` | no state: which samples every filter reads and writes, on the host and in device lists |
| `OverlapDevice` | `device_plan/overlap.rs`, `overlap_plan.rs`, `encode*.rs`, `overlap.metal` | lanes that take items, load and store; barriers; Metal's schedule cache |
| `RegionDecode` | `prepare.rs`, `decode/*`, `reconstruct/*`, `sampling.rs`, `output_format/{planar,validate}.rs` | plan, stages of a plane, crop; the whole image first, then regions |
| `SampleScaling` | `output_format/{color,scaling,premultiply}.rs`, `jxr-math` | no state: the arithmetic of a sample or a pixel, in words of `WordBits` with every checked step |
| `OutputPacking` | `output_format/*`, `simd_pack` | no state: requests refused, chroma interpolated, owned packers, direct packers, vector and interleaved fast paths, planar YUV, premultiplication |
| `DeviceStores` | `device_plan/*`, `kernels/output.rs`, `output.metal`, `surface.rs` | no state: surfaces, dispatch parameters, the kernels of CUDA and Metal, and how Metal keeps compiled pipelines |
| `OutputRequests` | a client of the four ways | requests left, what was stored, pipelines. `NextRequest` |
| `OutputSessions` | | the small requests |
| `MC*` | | small instances |
| `*Proofs` | | theorems about `ReconstructionCache`, `AdaptiveCodes` and `BlockCoefficients` (`CoefficientProofs`), `CudaSession`, `MetalSession` (`MetalSessionProofs`, and `MetalResultsProofs` upon it), `MetalBatchPipeline`, `PreparationCache`, `CpuBatch`; `SequenceLemmas` for sums and sequences |

Modules that share no state are explored in one run: a variable `component` chosen
in the first state says whose next-state relation applies, and the variables of the
others stand still. The number of states is the sum of theirs, not the product.
`MCDecoding` holds `CpuBatch`, `TileBands`, `TileChannels`, `RegionDecode`,
`OverlapDevice`, `OutputRequests` and `MetalSession`; `MCPreparationCache` holds
`PreparationCache`, `PacketRanges`, `PacketBitReader`, `BlockCoefficients`,
`AdaptiveCodes` and `CodedBlocks`; `MCCudaSession` holds `CudaSession` and
`CoefficientArena`. `MCReconstructionCache` has two instances of one module:
callers that meet, and callers that follow one another.

What is abstract: coefficients and samples of the tile and region models are
numbers or names that say where they come from; the transforms and overlap
operators are one function `Filter` of which the runs take an instance that mixes
every value with its place; the entropy coder of `TileBands` and `TileChannels` is a
parameter whose contexts are their own history, so any difference of context shows,
and the coder itself is in the modules of packets and entropy; codestreams are the
facts planning takes from them. Only the output modules have words of a width:
integers of the others are unbounded, and the `i32` overflow checks of coefficients
are not modelled.

## 3. Runs

| Run | Shows | Bounds, and why they suffice |
|---|---|---|
| `reconstruction_shared` | contracts decoded once, outcomes shared, every image collected, every call returns | 3 workers, 2 callers, 4 images of which 2 share a contract and one contract is refused: a duplicate can be stolen, waited for or read late. Callers meet inside the group while no image has several tiles, or follow one another when one has |
| `reconstruction_deadlock` | **violated**, finding 1 | 3 workers; the deadlocked pool is a stopped state, so deadlock is not checked separately |
| `preparation_shared` | `MCPreparationCache`, see below | see below |
| `preparation_duplicates` | **violated**, finding 2 | the same instance of `PreparationCache`, one call each |
| `metal_pipeline` | images accounted for once and in order, staging unshared, nothing runs on, calls return, implements `BatchOutcomes` | two interleaved groups, chunks of 2, ranges of 2, commands of 1, so that a group has several chunks, a chunk several commands; failures of every kind. `"encode_later"`, an encoding failure after a committed command, is left to the next run because of finding 3 |
| `metal_staging_reuse` | **violated**, finding 3 | the same batch with `"encode_later"` |
| `device_coefficients` | scratch exclusive and conserved, uploads ready, retention bounded (in `CoefficientsTypeOK`), calls settle and return; the arena equals a sequential decode, addresses are right, every decode ends | see below |
| `decoding` | `MCDecoding`, see below | see below |
| `overlap_race` | **violated**, finding 4 | one 4:2:0 plane of one macroblock |
| `region_margins` | **violated**, finding 5 | one macroblock, left margin 3, a quarter |
| `hp_direction` | **violated**, finding 6 | the tiles of `decoding` |
| `output_into` | **violated**, finding 7 | the requests of `decoding` |

`preparation_shared`:

* `PreparationCache`: 2 callers of 2 calls, 4 inputs with a duplicate and a failure,
  `MaxEntries = 2` so that hits, misses and evictions of each other's entries occur.
* `PacketRanges`: up to three tiles and four bands, packets of one or two bytes, two
  packets of the index in play at a time (`Ahead = 1`), a byte behind the last
  packet, one offset of the index damaged or none: packets out of order, flexbits
  left out anywhere, a start that coincides with another or lies past the end.
  A file cannot start with flexbits: their offset would be zero, which is how an
  index says they were left out.
* `PacketBitReader`: words of three bytes (eight in the code), packets of up to nine
  bytes that end on and inside a byte with bytes behind them, a packet of zeroes,
  whose codes are the longest, an empty one; widths around every refill.
* `BlockCoefficients`: first places 1 and 10, runs that stay, that fill the block and
  that leave it, totals so close that a scan reorders at its first level, one block
  (every prefix of it is a state).
* `AdaptiveCodes`: every selector, models of every band and colour class, means that
  pull a model down, hold it and push it up; its state is finite without a bound.
* `CodedBlocks`: two rows of three macroblocks whose patterns fill, empty and cross
  quadrants, all samplings.

`device_coefficients`: `CudaSession` with 2 callers, 2 streams, a pool and a cache
that hold about two buffers, a call over budget, encoding and kernel faults;
`CoefficientArena` with four plans (unselected tiles, subsampled components, missing
bands, both packet orders), `Threads = 2`, `MaxDecodes = 2`: the second decode reuses
the storage of the first, smaller or larger.

`decoding`:

* `CpuBatch`: 2 callers, 2 workers, groups of 3, 1 and 2 images, some of several
  tiles (their workers take another job on top), limits passed by one input or one
  image, a destination of the wrong length.
* `TileBands`: 3 by 2 macroblocks with resets every `Columns = 2` (16 in the code),
  so boundaries of both kinds fall inside and at the end of a row; two contents per
  macroblock in every combination, two quantizer headers, four band selections,
  flexbits present, absent or escaped, a fault in any band of one macroblock,
  `Trims = {1}`.
* `TileChannels`: the same tile for 4:2:0, 4:2:2, 4:4:4, YUVK and two components,
  alone and with alpha, and luma with alpha; band selections of the primary and of
  the alpha plane in every combination, scales 1, 4 and 16, escaped flexbits, a
  fault in any band, quantizers inherited and not. Content varies with macroblock
  and component so that every prediction mode and direction is chosen.
* `RegionDecode`: nine images (wide, tall and square; soft and hard tiles; luma,
  4:2:0 and 4:2:2; planar output; margins) at the scales 1, 1/4 and 1/16, with
  regions chosen so that a filter's or an interpolation's reach ends at, before and
  beyond a window's edge. Five macroblocks leave some out on both sides. Margins
  are multiples of the denominator at reduced scales (finding 5), planar regions
  start and end on even samples: the planar crop halves coordinates and floors
  them, so an odd region has no chroma window that is exactly its own.
* `OverlapDevice`: two lanes; an item may be overtaken by two others
  (`Lookahead = 3`); a batch of two images with two planes, hard and soft tiles,
  windows of one partition at two origins, 4:2:0, 4:2:2, both passes;
  `RetainedSchedules = 1` (64 in the code), so the cache both hits and evicts.
  Regions two samples wide are left out (finding 4). The order of more lanes adds
  nothing to conflicts between two items; `Lookahead` bounds which pairs meet.
* `OutputRequests`: sessions of one to three requests over every storage, colour
  conversion and channel order, with and without alpha, cropped, in every chroma
  siting, bit-packed and packed, refused for each reason; samples that are mild,
  that surround the bound of the interleaved kernels and that surround the ends of
  the word. Words have 24 bits (32 in the code), which TLC's own integers leave room
  to overflow in; the bounds that depend on the width move with it. `Retained = 1`
  pipeline, so a session both reuses and replaces it. An alpha plane has the kind of
  depth the primary has and a shift of its own. Products of `f32` premultiplication
  are compared without rounding. Two kinds of request are named and left out of the
  comparison they would fail: `TwiceMultiplied` (finding 7), and `ClampedAfter`,
  ten-bit and signed samples outside their range with premultiplication, which the
  host clamps before it multiplies and the kernels after.
* `MetalSession`: two calls out of a batch, two dense batches and a shared one, of
  three plans that share commands or not and one over the budget; `PerCommand`,
  `PerDense` and `Queues` of 2 (8, 16 and 4 in the code), so a group has two
  commands on two queues and a call two groups; pools of five words and three
  buffers, so that recycling evicts and rejects; an upload cache one plan
  overflows, and an arena that may be replaced by another at its address. Encoding
  may fail after any buffer was taken, one image of a command or the whole command
  on the GPU.

Every property has a mutant: a definition of the model replaced by the bug it is
meant to catch (`..._Bug`, next to the definition), under which TLC finds it
violated.

### Fairness

Liveness is checked under weak fairness of the actors the code keeps running, and
of no one else. `ReconstructionCache`: each pool worker (threads that loop until
work is found) and a caller that waits in `install`; nobody has to call.
`CudaSession`: a thread inside a call, and each stream; submitting, waiting and
dropping are choices. `MetalBatchPipeline`: the session thread inside
`submit_prepared` or `wait`, the pool, the GPU. `CoefficientArena`: each tile that
was started, and the join; after a failure no tile has to be started, since the
collecting iterator may stop. The other modules are sequential code that ends by
itself; nothing is asked of their progress.

## 4. Proofs

### `CoefficientProofs`, of `ReconstructionCache`

For every number of workers, callers and images and every assignment of contracts
(`SizeAssumption`: at least one image; `ContractAssumption`: contracts and outcomes
are among the given ones):

* `TypeCorrect`: `Spec => []TypeOK`
* `EveryContractDecodedOnce`: `Spec => []DecodedOnce`
* `ImagesShareOutcome`: `Spec => []SharedOutcome`
* `EveryImageCollected`: `Spec => []CollectsEveryImage`

None of them is inductive. The invariant `CacheInv` adds what the once-cell relies
on. A frame inside the initialiser of a contract holds its cell, and the cell then
says "running" (`HoldersRun`); two frames, on one worker's stack or on two, never
hold the same cell (`OneHolder`); a contract was decoded once if its cell is no
longer empty and never if it is (`DecodesMatch`); a result an image got is what the
cell says now (`ResultsMatch`), and a refused request never touched its cell
(`RejectedUntouched`). The proof takes one step per action; `EnterKeepsHolders`,
`ReturnKeepsHolders`, `ForkShape` and `StartDecodeKeepsHolders` say once what
pushing, popping and forking do to the stacks, which all actions are made of.
`DecodedOnce` follows from `DecodesMatch`, `SharedOutcome` from `ResultsMatch`.

`CollectsEveryImage` speaks of the root only; what is inductive is about every job.
A finished job has a result for each image of its range (`Answered`). A range
finishes when its right half has, and the left half has because a worker runs it
first: it is finished, or it is the job right above the frame that joins it
(`LeftFirst`). A worker that waits takes other jobs on top, but only when its left
half is finished already, so stolen work never parts a frame from the half it needs.
The two halves cover the range (`HalvesCover`), for every length of it.

### `CoefficientProofs`, of `BlockCoefficients`

`LevelsPlacedApart`: `ScanSpec => []PlacesApart`, for any initial orders that are
permutations and leave place 0 alone, any totals, any first places and any runs
(`ScanAssumption`, which is what `scan.rs` declares its constants to be), and any
number of blocks. A scan swaps two entries while a block is being decoded, so the
indexes of places already filled change. What does not change is a set: the places
at the indexes the block has passed. A level swaps the index it is at with the one
before it, both passed by then, so the set only grows by what the block passes
(`SwapKeepsPassed`, `PlaceKeepsScan`), every place that holds a level is in it, and
the next level's place is not (`EmitKeepsApart`). `IInv` says so, with the scans'
permutations.

`DirectInverts`: `ScanSpec => []DirectIsInverse`, under the same assumption: a block
whose levels were placed as they were decoded and a block kept as runs and levels and
placed by `inverse_scan` at its end have the same coefficients and leave the same
scan. The invariant is `Direct`: after each level the direct form is where
`inverse_scan` gets with the levels so far (`Reaches`); a level more makes one step
more (`StepMore`). `InverseScan` is a pair of recursive functions over the block's
levels; that they exist and are unique is proved from a least counterexample
(`IndexesExist`, `StepsExist`, `OneWay`).

### `CoefficientProofs`, of `AdaptiveCodes`

For every set of selectors and models, up to 16 components, any symbols and any
magnitudes (`AdaptationAssumption`):

* `SelectorsStayInRange`: a selector names a table there is, and rows of its
  neighbours. `DeltaRows` gives the rows of a table's neighbours (`NeighbourRows`),
  the tables have one row less than there are codes (`RowsOfSelectors`).
* `ModelsStayBounded`: the bits of a model stay in 0..15, the largest shift the
  coefficients may be given, and its state in -8..8, by cases of one update.
* `AdaptationStaysBounded`: `AdaptSpec => []AdaptationBounded`, both together, which
  is what the run checks.

### `CudaSessionProofs`, with `SequenceLemmas`

For any callers and calls, any number of streams, any arenas and scratch sizes, any
budget and any limits of the pool and the cache, and with failures of every kind
(`SessionAssumption`: the plans of a call exist, a plan needs two scratch buffers of
positive size, there is a stream and room for one cache entry):

* `ScratchIsExact`: `Spec => []ScratchExact`
* `UploadsAreReady`: `Spec => []UploadsReady`
* `ReturnsAreSettled`: `Spec => []ReturnsSettled`
* `Typed`: `Spec => []TypeOK`, with the bounds and exact counters of pool and cache

The four share one inductive invariant, whose parts need each other:

* `LockHeld`, `Progress`: the lock belongs to the caller that encodes; how many
  submissions, copies and scratch buffers a call has follows from where it is, so a
  call that waits has launched all of its plans.
* `Placed`: where each buffer is, as disjoint sets. `ScratchConserved` counts places
  with cardinalities; each is one or zero because no sequence of buffers repeats one
  (`Counted`, `Conserved`).
* `Exclusive`: what a kernel that may still run uses is held by its own submission or
  was freed under it. Without the second case `FailEncode` breaks it (kernels launched
  before the failing one keep running on freed scratch); with it the pool can never
  hand such a buffer out again, since freed buffers stay freed.
* `PoolBounded`, `CacheBounded`: counters are sums over the retained entries. The
  evictions are the least numbers that make room; that they exist is
  `EvictionExists` and `RoomExists`, from the sums in `SequenceLemmas`. While a
  caller copies an arena the cache is unlocked, but only the holder of the submission
  lock inserts, so a miss stays a miss (`EncodesAlone`).
* `Queues`: a kernel in a stream is queued, is there once, and each of its copies has
  run or stands before it. A cache hit relies on the entry's stream: that is what
  keeps the copy ahead (`UploadsOnStream`).
* `Settled`: of what a call issued, all but its remaining submissions have completed,
  and without a failure unless the rest is being dropped. A submission whose command
  is queued still holds scratch, so dropping cannot skip it.

One lemma per action says what the action does to the types and to the parts of the
state it touches (`...Effect`), and one per conjunct of the invariant that every step
keeps it (`...Step`).

`SequenceLemmas` has what these proofs need of sequences: sums of appended, joined,
split and shortened sequences, and which elements they keep. Sums are recursive
functions; the induction the library states with an operator parameter cannot be
used, so these proofs take a least counterexample instead (`LeastElement`, from
`WFMin`).

### `MetalBatchPipelineProofs`

For any batch (groups that are not empty, no index twice), any chunk, range and
command sizes, any staging allocations and any faults (`BatchAssumption`):

* `Typing`: `Spec => []TypeOK`
* `Accounting`: `Spec => []EveryImageAccounted`
* `Refinement`: `Spec => KeepsPromise`, every step is a step of `BatchOutcomes` or
  changes no outcome
* `StagingApart`, `Quiescence`: `Spec => []StagingUnshared` and
  `Spec => []NothingRunsOn`, both for `"encode_later" \notin Faults`. With that fault
  the first is false, which is what `metal_staging_reuse` shows.

The invariant has one part for each thing the loop keeps:

* `Stages`: what is empty at which step. Everything between two groups, the encoder
  outside `submit_batch`, the staged chunk outside the scope; the plans of a chunk
  are of the staged chunk and keep some of its images.
* `Account`: the images of errors, groups, group errors, the group at hand, both
  chunks, the candidates and the groups to come have together as many places as the
  batch has images, and are the same set. A sequence as long as an injective one and
  with the same elements is injective (`Rearranged`), so nothing was copied or lost.
  Stated with sizes the invariant is kept by each step alone, where a statement that
  the parts are pairwise disjoint would need all the others.
* `Encoding`, `Resides`: the commands of a chunk carry, in order, what is no longer to
  be encoded, and the submissions of a group carry its indices. That is what makes
  the images of a group reside in their order, however commands complete.
* `Leasing`: a running command has a lease (`LeasesKept`: a step drops a lease only of
  a completed command), so a buffer that nothing references is read by no command.
* `Homes`: what is under way is of the group at hand, and two submitted groups never
  have images of one group of the batch. With `Account` it makes `Refinement` a matter
  of sets: the outcome of an image is a function of which result it is in (`Out`), and
  what a step adds to a result is exactly the images of one group with one outcome
  (`PromiseMove`), or images that were pending (`PromiseReject`).

`SequenceLemmas` has, for these, concatenations of sequences (`Flatten...`), by
induction over sequences (`SeqInduction`).

### `PreparationCacheProofs`

For any callers, inputs, surfaces, batches and limits (`OptionsAssumption`, whose
finitely many callers only the last theorem needs):

* `Typing`: `Spec => []TypeOK`
* `AllocationsApart`: `Spec => []LayoutsApart`
* `GroupsStable`: `Spec => []StableGroups`
* `DuplicatesAlone`: `Spec => []DuplicatesShareAlone`

Lookups and insertions of two calls interleave, so nothing can be said of which
entries are cached. The invariant says where each contract is from that an entry, a
job or a result still holds (`Live`):

* `IdsApart`: its id names a call that began and has left its lookups (`Earlier`), and
  two such contracts with one id are one contract. So what the parallel stage or a
  regrouping makes has ids nobody holds (`IdsKept`), and every other step only moves
  contracts about (`IdsSame`).
* `Progress`: results and jobs are of the inputs at their indices, through hits, joins
  and the parallel stage.
* `Answered`: a returned batch is `Grouped` of the results of its call. That a grouping
  of any results is stable is a lemma of its own (`GroupedSorted`), one result at a
  time (`JoinedSorted`, `PushShape`); it also gives the images that are regrouped
  (`ImagesGrouped`).
* `UniqueAlone`: while one caller is the only one that ever called, no input has two
  entries, what is still to be prepared is neither cached nor resolved, and during the
  lookups each result is still cached. An insertion of a second caller between two
  lookups breaks each of these, which is what `preparation_duplicates` shows.

### `CpuBatchProofs`

For any callers, calls and finite set of workers (`CallAssumption`):

* `Lending`: `Spec => []WorkspacesLent`
* `OwnResults`: `Spec => []BatchResultsTrue`
* `Typing`: `Spec => []TypeOK`

A worker that waits for the tiles of its image takes another one on top, so the
workspaces in use are those of the frames of all stacks. `FramesApart` says that these
frames are of different jobs and hold different workspaces, also within one stack;
`JobsJoined` that a job runs only while its caller waits, which keeps the jobs of one
group away from the next; `Homed` that a workspace is retained or lent and never both.
`Counted` then follows the numbers: a start takes one workspace and makes one job run,
an end gives it back unless the list is full, and the list is then as long as it has
to be. That `Fresh` is no workspace in use is `FreshIsNew`.

`OwnResults` adds what is decoded where (`RInv`). `ContentsTrue` says that a lent
workspace holds the coefficients of the very job whose frame has it, and `SlotsOf` that
a slot holds nothing, an unspecified part, or the image of its own index in the layout
of its group. `Kept` accounts for the groups behind the caller: their successes and
errors divide their inputs, each once (`Divided`), and `Owns` says that the samples of
a result are those of its indices. `JoinKept` is the step that counts: the slots of a
joined group are all decoded or failed, `Compacts` shows that the walk over them leaves
the decoded ones at the front in their order (`Walks`, by induction on the place; a
copy never overwrites a slot that is still to be read, because the next free place is
not behind the walk), and the group's inputs are apart from those before it. The last
is an assumption here (`PreparedOnce`: each input is in one group, in source order, or
among the errors), and it is what `PreparationCache` shows of the batches it prepares
(`BatchComplete`, `GroupsStable`). `OrderedLists` and `InOrderLists` show that the lists
which the model chooses (sorted errors, successful slots in order) exist.

### `MetalSessionProofs`

For any plans, arenas, calls, budget, number of queues and limits of the pools and the
cache, with encodings, kernels and commands that fail (`MetalAssumption`: plans and
calls are well formed, bands and samples are not empty, there is a queue):

* `BuffersStayApart`: `SessionSpec => []BuffersApart`
* `RunningStayApart`: `SessionSpec => []RunningApart`, which adds `WithinBudget`

`BuffersApart` compares what running commands use with everything else. Nothing of it
is inductive, because a buffer is handed from one list to another by most steps: from
a pool to a command, from there to a submission, to the batch of the caller, back to
a pool or to nobody. The invariant is an account of owners (`Safe`):

* `Well`, `Owners`, `Free`: the pools, the released buffers, each submission of each
  pending batch, the submissions of the call, its outputs, its images and the images
  callers hold are disjoint, and no list has a buffer twice.
* `UsersApart`: what a running command uses is used by no other running command, is in
  no pool and no image, and is scratch of no submission but its own. Its outputs are
  outputs of the call at the places of submissions that are not waited for
  (`OutputsOf`), so an image is made of an output only after its command has ended.
* `KnownOf`: submissions name commands and images that exist.
* `Shape`: what is empty at which step, and how the outputs, the submissions and the
  images got of a shared call add up. Only by these counts does a submission find its
  own output.

There is one lemma per way of moving buffers (`SafeCommit`, `SafeSettle`, ...), stated
of states and not of actions, and one lemma per action that says which of these it
does. `Take`, `Recycle` and `GetOrUpload` are folded over sequences of requests; each
fold is proved to be a chain of single steps (`FoldExists`, `TakeFold`), and what one
step does is then carried along the chain. The status buffer of a command that the
first of its submissions owns is where the account matters most: the first submission
that is waited for gives back all the scratch of its command, and `UsersApart` allows
that only because waiting for it ended the command.

`WithinBudget` needs more (`BInv`): a group is `Sized` when it is made, and while it is
encoded, what its commands hold and what the rest of it will take keep to the budget
together (`Keeps`), except for a single large image. Taking scratch allocates or reuses
buffers of exactly the size asked for (`TakenMore`), so what a command holds is what
its plans need (`HeldFirst`, `HeldAlone`).

### `MetalResultsProofs`

Under `MetalAssumption` too, upon the invariant of `MetalSessionProofs`:

* `ResultsStayTrue`: `SessionSpec => []ResultsTrue`
* `ImagesStayStable`: `SessionSpec => []ImagesStable`

That buffers are apart does not say what is in them. The invariant `RInv` adds that:

* `Machine`: every command the queues hold is running and is queued once (`Queued`),
  and within a command each image has a status word and an output of its own
  (`Formed`).
* `Tells`: the status word of a submission says what its kernels did (`Verdict`), and
  no other running command uses its buffer. It holds of the submissions of every
  pending batch and of the call, and of a call that waits even after a sibling has
  given the status buffer back: the buffer is then in the pool, and nothing is taken
  from a pool while a session waits. What keeps it true while commands are encoded is
  `Backed`: the buffer is owned by a submission of the same command which is held too,
  so it is no buffer that could be taken.
* `Ordered`, `Planned`, `Waiting`: the submissions of a batch are of the plans that
  were asked for, in order. During a call the submissions, the commands still to be
  encoded and the groups still to come make up the plans, whatever way these were cut;
  during a wait the images got and the submissions left make up the batch.
* `Outputs`, `Displayed`, `Shows`: an output holds the samples of its image once its
  command is done, and an image that was made of it, in the call or with a caller,
  goes on holding them.

A step that takes buffers or commits a command changes contents only in a set of
buffers that no one else owns (`Changed`), and `ReadKept`, `StandingKept` and
`DisplayedKept` say once that everything else reads as before. `Commit` adds a command
whose images are `MadeWell`; `Run` writes what one command uses (`Wrote`) and is told
by the status words of that command only (`TellsRan`).

### Only model-checked

Liveness, which is out of the prover's reach; the refinement `PacketsReadSerially`;
what most recursive functions compute for every input (the predictions of
`CodedBlocks`, the reader's refills, the tiles' traversals): the induction the library
states takes an operator and cannot be instantiated, and a least counterexample in its
place was worth it only for the sums and concatenations of `SequenceLemmas`, the groups
of `PreparationCache`, the scans of `BlockCoefficients` and the walk of `CpuBatch`; and
the invariants of the arena, the regions, the overlap lists and the output stores.

## 5. Findings

1. `reconstruction_deadlock`. CUDA preparation may never return: the worker that
   initialises a contract's once-cell waits for stolen tiles, steals a duplicate of
   the same contract and blocks on the cell it is initialising.
2. `preparation_duplicates`. Duplicates of one batch may end with two contracts
   when another thread inserts between two lookups, against
   `docs/architecture.md:104-107`. Nothing wrong is decoded, only more than once.
3. `metal_staging_reuse`. When a later command of a range fails to encode, the
   leases of those already committed are dropped without a wait, and the GPU may
   read staging memory that the next chunk is decoded into, against
   `coefficient_staging.rs:14-16`.
4. `overlap_race`. First-level chroma of a region two samples wide: two corner
   residuals of one parallel list read and write each other's sample, against the
   `SAFETY` comment of `jxr-cuda/src/encode.rs:375`. The host does them in order.
5. `region_margins`. A region at a reduced scale of an image whose margin is not a
   multiple of the denominator is cut one sample off, or falls outside the plane.
6. `hp_direction`. Subsampled chroma decoded beside alpha in frequency order is
   stored without the HP direction of its macroblock
   (`integrated_alpha_frequency/high_pass.rs:188`), against `high_pass.rs:27`, "the
   one macroblock HP direction shared by all YUV components"; the spatial order and
   frequency order without alpha store it. `decoding` compares the directions of the
   planes this does not concern.
7. `output_into`. Decoding into eight-bit storage of the caller multiplies colours
   by alpha twice (`output_format/packing.rs:129`), against the test
   `direct_typed_destinations_match_owned_component_packing`.

Observed while modelling, without a run: when a chunk cannot be staged its images
are recorded before those of the chunk ahead of it, so the order of a group error
is not the one `PendingGroup` documents; `checked_shl` refuses shift counts, not
lost bits (`entropy/coefficients.rs:184`), and `AdaptationBounded` only shows that
the counts are never refused; the overlap of a separate alpha arena is planned by
Metal with the mode and tiles of the primary image (`jxr-metal/src/plan.rs:247-250`),
by CUDA with those of each arena; the host clamps ten-bit and signed samples before
it premultiplies them, the kernels after.

## 6. Not modelled, and the plan

| Part | Why |
|---|---|
| Headers, metadata, Annex A container and writer | sequential parsing of bytes into values the planning takes; what planning does with them is modelled |
| Facade, routes, orientation; whole-image decoding with separate alpha | sequential glue over modelled parts |
| Budgets of device plans, caller-owned destinations, consumer events, readback | bookkeeping of one call; the events belong to the platform's queue |
| Exact arithmetic of transforms and overlap operators | the runs need only which samples they mix; the repository's conformance tests compare values |
| SIMD lanes of reconstruction and dequantization | vector forms of scalar loops without state, compared with them by unit tests |
| `jxr-mpsgraph`, `jxr-image`, test support, fuzz targets, tools | platform frameworks, adapters, test code |

Planned, in this order: `Container`, Annex A parsing and the writer as a round trip;
`DevicePlan`, budgets and destinations; `Facade`, the whole decode as a composition.
Abstract specifications to add: a session that owns buffers (`BufferOwnership`) which
`CudaSession` and `MetalSession` both implement, and `BatchOutcomes` for `CpuBatch`.

Theorems to prove next: that items of one device list never meet, for every region
at least four samples wide (`OverlapFilters`); that windows of `CoefficientArena` are
disjoint and cover it; that the images of `MetalSession` show what the caller asked for.
