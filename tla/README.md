# A TLA+ model of the Helion MLIR backend

`helion_mlir_backend` compiles a Helion kernel (a Python function whose device
loops are written with `hl.tile` and `hl.grid`) for the CPU: it reads Helion's
traced graphs, emits one MLIR module of `linalg`, `tensor` and `scf` operations,
lowers it with lighthouse's pipelines in a forked process, jit-compiles it and
calls it on the tensors it is given. This directory models the parts of it
whose correctness depends on orders, indices and shared state, checks the
models with TLC and proves the safety properties of most components with TLAPS.

Paths below are relative to `src/helion_mlir_backend/`; `mlir/` stands for
`_compiler/mlir/`.

## 1. The system

### Components

| Component | Source | State it keeps | Operations |
|---|---|---|---|
| Call convention | `mlir/driver.py` | per kernel: config -> callable (`_compile_cache`); per call: staged buffers | compile a config; run the host code; check tensors and sizes; stage; call the entry; copy back |
| Entry compilation and execution | `_compiler/execution.py` | per process: (text, pipeline) -> entry, at most `_JIT_CACHE_SIZE`; a forked child and a pipe per lowering | compile or reuse an entry; lower in a child under a timeout; pack descriptors and call |
| Module builder | `mlir/codegen.py`, `mlir/build_context.py` | the module; per function: block bindings, values of nodes | build one function per host phase, then the entry function, then the helpers |
| Kernel signature | `mlir/analysis/signature.py` | per phase: host tensors and scalars it takes and returns | derive from the graphs |
| Geometry | `mlir/analysis/geometry.py` | block -> size, bounds, numel | trip counts, tile extents, which block a tile belongs to |
| Loop lowering | `mlir/lowering/loops.py` | the iteration's bound blocks and owned regions | choose parallel or sequential; emit the iterations; two versions of a partial tile; nested loops |
| Written tensors | `mlir/lowering/tensor_state.py`, `mlir/analysis/tensor_effects.py` | tensor -> its current SSA value and ownership | who loads and stores which tensor, which dims a grid block owns |
| Slices, loads, stores | `mlir/lowering/slice_plan.py`, `memory_ops.py`, `load_slice_ops.py`, `tile_index_ops.py`, `mlir/support/index_meta.py` | none | subscripts -> one slice per dimension; padded loads; stores of the real part |
| Control flow | `mlir/lowering/control_flow.py` | loop-carried values | `if`, `while`, threading tensors through them |
| Size values | `mlir/sizes.py` | per function: expression -> value, where the next one goes | emit a size once, above every use |
| ATen helpers | `mlir/aten_bridge/` | per process: helper name -> lowered function; per module: requests | request, lower in one torch-mlir run or one by one, clone into the module |
| Contractions | `mlir/analysis/contractions.py`, `mlir/lowering/contraction_ops.py`, `mlir/support/einsum_spec.py` | per graph: the contractions and the nodes they absorb | plan: match products, einsums and accumulating adds, absorb transposes; emit each, falling back to two operations |
| Combines | `mlir/lowering/combine_ops.py` | none | reductions and scans by a combine function |
| In-place updates | `mlir/in_place.py` | none | rewrite the updates of a loop's carried values to write into them |
| Node lowerings | `mlir/lowering/*_ops.py`, `registry.py`, `mlir/snippets.py` | the registry | one MLIR operation per node |
| Host code | `mlir/host_code.py` | a generator per call | run the host function up to the device loops, then to its return |
| Tracing | `mlir/trace_mode.py`, `mlir/einsum_capture.py` | patched torch functions while tracing | capture einsums that would be decomposed |
| Backend, API, autotuning | `mlir/backend.py`, `mlir/autotune.py`, `api.py`, `inject.py`, `language.py` | registration | config keys, decisions of the autotuner |
| Debug options, errors | `mlir/support/debug.py`, `errors.py` | environment variables | default pipeline, dumps, compile timeout |
| Pipeline schedules | `_compiler/helion_transforms.py`, `pipeline.yaml` | none | which rewrites run on which operations, in which order |
| MLIR schedules | `mlir_transforms/` | none | operands of contractions padded, versioned, copied, aligned; tiles, vectors, transposes, masks, transfers; AMX loads; stack buffers |
| CPU kernels | `src/helion_mlir_cpu_utils/` | per process: bound kernels, the last `_FUSED_PACK_BOUND_SIZE`; per caller: packed weights | choose blocks, pack, call, cut out; linear layers that keep their packed weight |

### How they interact

1. A call `kernel(*args)` reaches `compile_config`, which finds the callable of
   this config in the kernel's cache or builds one: the module builder walks the
   phases of the kernel; loops bind blocks, loads and stores ask the slice
   planner, anything dynamic asks for size values, anything without a lowering
   of its own requests an ATen helper. When every function is built the helpers
   are materialised.
2. The module's text and pipeline are looked up in the process's cache of
   entries. On a miss the module is lowered, in a forked child when there is a
   timeout, and compiled.
3. The callable runs the host code up to the device loops, checks and stages the
   tensors, calls the entry once with packed descriptors, copies staged written
   tensors back and lets the host code finish.

The caches, the environment and the pipes of forked children are shared by every
thread of the process; nothing takes a lock.

### What is hard about it

* The iterations of an `scf.forall` run concurrently. Each works on the region it
  owns of every written tensor, so a wrong answer to "is this tensor partitioned
  by this grid?" loses updates, in some schedules of some shapes.
* Loops end inside, at or past tensors, start at 0 or elsewhere, in static and
  dynamic bounds, and each combination takes another formula for offset and size.
* The entry's arguments are `restrict`: no loads of an input may see a store.
* Sizes are emitted on demand in the middle of a body, recursively.
* A child of another thread holds this thread's pipe; a child may answer, raise,
  hang or die at any moment, also in the middle of its answer.
* Caches outlive what filled them: another module, an earlier environment, a
  failed build, a parameter since updated or replaced.
* A contraction is planned over the whole graph before anything is lowered, takes
  over nodes that others may read, and may turn out not to be expressible when it
  is emitted.
* An update moved into its destination is right only if nobody reads the old value
  later, in this iteration or in what the loop yields.
* The schedules decide from what is evident in the code (a bound, a pad's width, a
  use) and what they leave must be right for every size that is only known later:
  empty slices, partial tiles, pads without width, vectors at the end of a buffer.
* The kernels pad, chunk and pack for blocks that divide nothing in particular.

What makes each component correct is stated as the properties of its module
(section 3). The full list of hazards, with the line where each bites and the
properties that watch it, is `hazards` in `PROJECT.json`.

## 2. The modules

| Module | Models | Its variables are | Its actions are |
|---|---|---|---|
| `KernelBody` | the arithmetic of trips, offsets, extents, valid sizes and windows; the shape of one root graph: grid, tensors, loads and stores, a nested loop over the first grid tile | (operators only) | |
| `RootLoop` | `loops.py`, `tensor_state.py`, `slice_plan.py`, loads and stores, as the emitted loop runs; its mapping to `DeviceLoop` | the tensors, each iteration's place, its owned regions, the tiles it loaded | choose a mode (`LowerRoot`), `Start` (take the regions out), `Load`, `Store`, `Finish` (insert them), `Join` |
| `DeviceLoop` | what a root graph promises: the sequential program on whole tensors, an element holding what the last statement that stores it stored | outcome | `Complete` |
| `RootLoopProofs` | the theorems about `RootLoop` | | |
| `TensorThreading` | `control_flow.py`, `tensor_state.py`, `signature.py`, `codegen.py`: the values of the written tensors through loops, ifs, whiles, roots and phases | the table of current values, the operations emitted, and, when they run, the values in scope | one per construct lowered (`LowerLoop`, `LowerIf`, `LowerElse`, ...), one per region entered or left when run |
| `CarriedVariables` | `control_flow.py`, `loops.py`: the variables loops, whiles and ifs assign, from Helion's graphs to the values of the scf operations | the graphs, the nodes lowered and the value of each | `Lower` (one node, constructs with all their graphs), `Refuse` |
| `ControlFlow` | both parts of what a construct passes on: `CarriedVariables` and `TensorThreading` | theirs | theirs: the variables, then, unless they were refused, the tensors |
| `KernelCall` | `driver.py`: one call, from host code to copy back, on a line of memory cells | phase of the call, memory, staged copies, what the entry loaded and stored | one per check, `Stage` and `CopyBack` per argument, the entry's loads and stores in any order |
| `AtomicCall` | what a caller may rely on | memory, result | `Return`, `Raise`, `RaiseHalfway` |
| `TensorThreadingProofs`, `KernelCallProofs`, `LowerProcessProofs`, `SizeValuesProofs`, `CompileCachesProofs`, `HelperCacheProofs`, `CpuLinearProofs` | the theorems about the module each is named for | | |
| `LowerProcess` | `execution.py`, `_lower` and `_lower_in_child`: threads, their children, pipes inherited by fork | per thread: place, child, holders of the sending end, what is in the pipe | one per step of the thread, of the child, and `Die` |
| `SizeValues` | `sizes.py`: emission of sizes into a block that grows meanwhile | the block, the setup prefix and anchor, known values, recursion frames | `Request`, the arguments, `Emit`, `BeginFunction`, body operations |
| `CompileCaches` | both caches of compiled configs and the environment | both caches, per thread: config, key, entry | one per read or write of a cache, `SetEnviron` |
| `HelperCache` | requests, torch-mlir runs, the process-wide cache, copies | the cache; per module: requests, copies, blame | `Add`, `Materialize`, `LowerTogether`, `LowerAlone`, `Clone`, `BuildAgain` |
| `Tensors` | row-major tensors: views, permutations, tiles with padding | (operators only) | |
| `BlockChoice` | `matmul.py`: blocks, K chunks, tiles and panels chosen from sizes and threads | (operators only) | |
| `CpuMatmul` | `matmul.py`, `normalization.py`, `reduction.py`: packing, the kernels on packed operands, the padded result cut out | (operators only) | |
| `CpuLinear` | a program calling `matmul`, `bmm`, `linear`, `linear_affine`, `matmul_prepacked_b`, row-wise kernels; its parameters and caches | parameters, the tensors they ever were (`past`), kept packed weights, bound kernels, environment; per call: place, operands, kernel, result | `Request`, parameter updates (`Meanwhile`), one per decision, lookup and launch |
| `OperandTiles` | what contractions read: slices, pads, guards, packs, collapses over tensors, and the bytes they stand for at run time | (operators only) | |
| `OperandPasses` | the passes `materialize_operand_pads`, `version_padded_operands`, `align_operand_rows`, `materialize_copies`, `vectorize_pads` | (operators only) | |
| `LinalgTiles` | `utils.py`, `tile_sizes.py`, `loop_bounds.py`, `partition_linalg.py`, `widen_transposes.py`, `outer_transpose_tile.py`: tile sizes, groups, transposes of vectors | (operators only) | |
| `VectorTransfers` | `split_transfers.py`, `move_offsets_to_subview.py`, `unmask_contractions.py`, `legalize_for_llvm.py` | (operators only) | |
| `AmxLoads` | `schedule_amx_loads.py` | (operators only) | |
| `Schedules` | the pipeline: each pass in the order of `pipeline.yaml` on what it applies to | the code, the code it was, the passes still to run | one per pass |
| `DeviceGraphs` | `einsum_spec.py`: equations and which of them one contraction can express; traced graphs and what torch says a node computes | (operators only) | |
| `BodyOps` | the operations emitted, what each computes, and the emission of reductions, scans and transposes (`combine_ops.py`, `transpose_ops.py`) | (operators only) | |
| `Contractions` | `contractions.py`, `contraction_ops.py` | (operators only) | |
| `InPlaceUpdates` | `in_place.py` | (operators only) | |
| `GraphLowering` | one loop body from its trace to the operations updated in place | the graph, the plan, the operations, the value of each node, what is yielded, the phase | `Trace`, `Plan`, one per lowered node, one per updated yield |

`MC*` modules choose instances. Four of them also add a variable or two:

* `MCBuilding` and `MCBodies` put modules side by side that share no state, three
  each: `part` says which one a behaviour explores, and the others stay at rest. The
  actions and properties are those of the modules; where two modules use one name
  (`TypeOK`, `RefusalsExplained`), `MCBodies` takes them with a named `INSTANCE`.
* `MCLoweringClaims` and `MCScheduleClaims` take one input after another (`trial`)
  and collect which claims of the sources an input has refuted (section 4).

`PROJECT.json` maps every definition to the lines it stands for.

### Abstractions worth knowing

* *Data flow instead of data.* A stored tile is stamped with the iteration, the
  statement and the position within the tile; a load logs what it saw. Two
  executions with the same stamps and logs compute the same values whatever the
  arithmetic in between.
* *One list of statements.* A root graph's body is its loads and stores in
  order, then a nested loop over exactly the first grid tile. Elementwise nodes
  touch no shared state and are left out. Other subscripts (gathers, masks) and
  deeper nests are left out too.
* *Run time instead of compile time.* `KernelBody` gives the value the emitted
  MLIR computes. Whether a bound is known when compiling is kept (`static`)
  because it selects the formula; a dynamic loop's arithmetic is that of its
  run-time values.
* *A full tile has two versions.* In a parallel loop a tile that turns out full
  runs the version lowered with a known span (`FullVersion`), as `_lower_tile`
  emits it.
* *Conditions look at values.* In `CarriedVariables` a value is the term that made
  it and an if or while decides by its depth, so a condition that reads a stale
  value goes another way. The graphs are Helion's: only what `control_flow.py` says
  of them (the order of outputs, the phi of each, the picks of an if) is relied on.
* *The entry as an adversary.* In `KernelCall` the entry loads and stores any
  elements in any order, which is what `restrict` lets LLVM do.
* *Elements that say where they come from.* In `CpuMatmul` and `OperandTiles` an
  element is the place it was read from and an accumulator is the bag of products
  added to it, so two results are equal only if they are made of the same elements,
  whatever the arithmetic. In `GraphLowering` elements are small integers; wrap and
  rounding are left out, except that a conversion to a narrower type is an operation
  of its own.
* *Literals become constants.* The kernels' block of 32, accumulator of 2^18
  elements and K chunk of 2048, the schedules' vectors of 64 bytes and tiles of 8,
  and the 8 AMX registers are constants; the instances shrink them together so that
  small problems are below, at and above each.
* *Schedules are functions on code.* A pass is deterministic, so `Schedules` has one
  step per pass. What the code does is evaluated for every run-time environment
  (where the tile starts), which no pass may look at.
* *Compiling is deterministic, too.* `GraphLowering` has one behaviour per kernel;
  the interest is in the kernels (916 of them) and in the order of planning,
  lowering and updating.
* *Addresses are numbers.* In `CpuLinear` a tensor that replaces a parameter may be
  at a new address or at any one a parameter of that name may have had (memory that
  was freed), at version 0. A kept vector that is the parameter itself stays alive in
  the code, so its address is not reused; the model lets it be, which allows more.
* *History variables.* `seen`, `loaded`, `stored`, `slow`, `recent` and `past` only
  record; no guard reads them.

## 3. The runs

Passing runs check every property they name on every reachable state.

| Run | Instance | What it shows |
|---|---|---|
| `root_loop` | 1 and 2 grid loops; begin 0, 1 or 3, 0 to 5 elements, blocks of 1 to 4, static and dynamic; tensors shorter and longer than the loop; every pair of subscript forms; nested blocks of 1 and 2; at most 4 trips, extent 6, rank 2 | slices stay inside what they are taken of and fit the tile they are padded to (`SlicesInside`); parallel iterations own disjoint regions and lose no update; the outcome is the sequential program's (`RunsAsSequentialProgram`, a refinement) |
| `kernel_call` | 5 cells, calls of 2 or 3 arguments: contiguous, strided, broadcast, empty, overlapping in every way; static, symbolic and computed sizes that agree or not | no buffer the entry writes shares a cell with another; inputs read as before the call; a call is atomic and changes memory only where the entry stored (`CallIsAtomic`, a refinement) |
| `building`, sizes | two functions, sizes `n // 2`, `1 + n`, `(1 + n) // 2`, `min(n // 2, 1 + n)` with their arguments in sympy's order, one symbol nobody provides, a body operation | sizes are above every use, in this function, but for one that goes above the integer another size began with (`UsesInOrder`), and none is below the body, also when it is first asked for within it |
| `building`, helpers | four modules over five helpers, built concurrently and again: one helper that cannot be lowered, one of the wrong type, two that clash | a built module defines what it calls; success and blame are the module's own |
| `building`, lowering | two threads, each lowering once, one after the other or at once | an answer is the own child's, "died" means dead and, for a child alone, a timeout means it was still at work (`OutcomeIsTheChilds`); no child is left behind; every lowering under a timeout ends |
| `caches_together` | three threads, two configs of two modules, a cache of one, an environment that changes at any step | a callable runs its own module on its own pipeline; the cache exceeds its size only by what is about to be evicted and drops what was used longest ago |
| `bodies`, control flow | 324 programs of up to three nested constructs over two tensors and a reshape of one, in up to three roots and two phases; every branch, 0 to 2 trips. About 4,000 bodies over three variables in three orders: every loop of one and two levels and 0 to 4 trips, while and if around eight updates (one, two or three variables, read-only inputs between them, swaps, dead and inner variables) and around every other construct; variables both branches make; conditions of many elements and while-else | every value is in scope where it is read; every load sees all the stores before it and no other; phases pass their results on; every variable ends with the value the kernel gives it, and a body is refused only for the last two (`VariablesKept`) |
| `bodies`, graphs | 916 loop bodies: 14 forms of a product with and without transposes, other uses and element types; accumulators that are the folded transpose itself or a scalar; 13 einsum equations with known, runtime, broadcast and unequal extents, and extents known of one operand only; 9 combine functions (known ones, one argument twice, another constant, a scaled or longer sum) over each dim, forward and reverse; 19 bodies that update two carried values, where a partial result is also read or yielded, or made by a known combine function; the loop's condition true and false | every node's value and every yield is what the kernel says, after lowering and after each update (`ValuesKept`); updates that can happen in place do, and only those (`UpdatesInPlace`); a kernel is refused, raises or misses a value only in the cases `RefusalsExplained` lists |
| `bodies`, schedules | payloads at the edges of every pass: operands padded at run time, statically, both or not, guarded, packed, collapsed, shared; ops of static, bounded and unknown loops; masks of 0 to all lanes; transposes of 2 to 4 dims, of even and odd extents, in 8, 16 and 32 bits; transfers that start at a sum of indices, before, at and beyond the last vector; AMX blocks with stores between loads and with too few registers; every nest of 4 ops around a buffer | operands hold the same elements (`OperandsKept`), where the next stage needs them (`OperandsPlaced`); vectors stay within the limit (`VectorsFit`) and compute and move the same lanes (`VectorsKept`); tile registers suffice and buffers leave loops without leaving a scope that frees them (`StorageFits`) |
| `cpu_linear` | single calls of 234 requests (7 shapes, bf16 and f32, transposed operands, bias, scale and shift, explicit and chosen tiles, matmul, bmm, linear, prepacked, row-wise), programs of two calls with a change of parameters or environment in between, and a layer with two changes; memory is recycled; 1 and 4 threads; blocks of 4, two bound kernels | each element of a result is the product it should be, and each row its own reduction (`ResultsRight`); the product of a kept packed weight is that of one tensor the parameter once was, at the address and version it has now, and every other product is of the parameters as they are (`ParametersAsStamped`); what is refused is a request whose sizes disagree or a bound kernel's operand it cannot take (`RefusalsExplained`); a bound kernel's tiles were chosen for this call, fit it, and are few (`LaunchedKernelsFit`) |

The other six runs violate their one property each, which is what a comment or a
document says of the code: `nested_past_end`, `stale_view`, `integers_first`,
`linear_claims`, `lowering_claims` and `schedule_claims` (section 4).

### Why these bounds are enough

* Root loops: every formula branches on comparisons between an offset, a block
  size and an extent. With blocks of 2 and 3 over 4 and 5 elements the last tile
  is full, partial and (against an extent of 3) entirely past the end; loops that
  start at 1 separate `tile.id` from the trip; two trips show every conflict
  between two iterations, and ownership is decided per grid dimension, so two
  dimensions show a missing one.
* Threading: what a construct passes on depends on its own body and on the
  constructs right inside it, so every construct in every other one, after a store
  and before a load, shows each omission; two trips tell a carried value from an
  initial one.
* Carried variables: which input an output updates is decided from the order of the
  inputs and the node around it, so three variables, in orders that put read-only
  ones before, between and after, show each mistake; a second level and a second
  trip tell a carried value from an initial one.
* Calls: overlap is a relation between two spans; two and three arguments on five
  cells realise adjacent, nested, interleaved, equal and empty spans.
* Lowering: a pipe is held by its thread, its child and other threads' children;
  two threads give one of each.
* Sizes: three levels of recursion, with a shared argument, and integers first and
  last; one body operation separates sizes asked for before and within the body.
* CPU kernels: a K of 9 to 17 in chunks of 4 and blocks of 4 has one and several
  chunks, the last one full, partial and odd; rows and columns of 3 to 16 are below
  a block, ragged, and more than one tile; the caches' keys differ in one component
  per family of calls.
* Schedules: tiles of 2 by 4 over tensors of 5 by 6 end at, within and past the
  tensor in each dimension; rows of 6 and 8 elements are aligned or not to lines of
  4; a vector of 4 lanes at every offset of a buffer of 5 or 6 fits, is cut and is
  empty.
* Graph lowering: a fold is decided from a node, its operands and their users, so
  graphs of one or two products around shared transposes and accumulators show
  each decision; an update is decided from the uses of a value, in the body and in its
  yield, so two carried values show each; extents 1, 2, 3 and unknown tell a broadcast from a product.
* Caches: an eviction needs one key more than there are places, so two configs
  and a cache of one; three threads that insert before any of them trims are
  enough to empty it. What holds for more is proved.

### Fairness

Only `LowerProcess` states any. A thread's steps are weakly fair: the interpreter
runs a thread that can run, and `poll` returns when its timeout has passed. A
child that has its answer sends it and exits (weakly fair), because those steps
are bounded; no code enforces it, so a child that stalled there, and the `recv` and
`join` that would wait for it, are outside of what `EveryLoweringEnds` says. Nothing is
assumed of a lowering itself: the native passes may run forever, in the child or in the
process, and a child may die or not.
`EveryLoweringEnds` therefore only speaks of calls that opened a pipe. `MCBuilding`
states the same fairness, of those steps in its part. The other modules state safety
only.

Deadlock is checked in every run but `cpu_linear` and `linear_claims`, whose programs
stop when they have made their calls. What else ends says so with a step that changes
nothing (`Ended`, `LoweringTerminated`, `SizesTerminated`, ...).

## 4. What the runs found

Six runs violate what the sources say of themselves; `PROJECT.json` quotes each line.

* `nested_past_end`: `slice_plan.py:252` computes the size of a nested tile from
  the region's size without clamping the offset first. When the enclosing loop
  runs past the written tensor the size is negative, though the docstring
  promises a real part clamped to the region.
* `stale_view`: a load through a host reshape of a parameter reads the function's
  argument (`host_tensor_ops.py:28`), also after the phase stored into that
  parameter; the documentation says such a pair of names is rejected.
* `integers_first`: "values dominate every use" (`sizes.py:7`). When the first size of
  a function begins with an integer, as sums and products do in sympy's order, that
  integer's constant becomes the anchor of later sizes (`sizes.py:111`) and the size
  itself lands below it; a later size that uses it is emitted above it. The run asks
  for `1 + n` and then for `(1 + n) // 2`. `UsesInOrder` is what does hold: this is the
  only exception.

The three others hold several claims each, about one component. `SomeClaimHolds` says
that one of them at least is true; it is violated when every one has been refuted, and
the trace shows how, one after the other. Each claim is a definition of its own, with
the line it quotes.

* `linear_claims`, both in one state:
  * `ParametersCurrent`: a packed weight is "reused until the source parameters, input
    dtype, or device change". Its key is an address and a version (`linear.py:49`), and
    a tensor that replaces a freed one may get both. In the run the weight is replaced
    once, between two calls.
  * `AccumulatorsStay`: the accumulator of chosen tiles "stays within 1 MiB".
    `_balanced_rows` rounds rows up to a block after they were limited
    (`matmul.py:430`): 5460x512 by 512x96 on two threads gets tiles of 2752 by 96,
    1056768 bytes of f32. The run's 13x8 by 8x8 is that problem for blocks of 4 and an
    accumulator of 48. Results are the same; the buffer is on the heap.
* `lowering_claims`, four kernels in order:
  * `AbsorbedIsNotRead`: a transpose with one user is folded away
    (`contractions.py:170`) also when that user reads it a second time, as accumulator
    of a square `addmm(t, t, b)`, which then finds no value.
  * `AccumulatorsFallBack`: the accumulator of `addmm`, `baddbmm` or `dot` that must be
    broadcast or converted is refused, where emission is said to fall back.
  * `AddsAccumulate`: `tile.begin + a @ b` raises, since a scalar has no tensor type
    (`contraction_ops.py:156`), where it is meant to be emitted in two parts.
  * `CapturedIsContractible`: an einsum with a letter whose extent MLIR knows in one
    operand and not in the other is captured and then refused (`einsum_spec.py:173`).
* `schedule_claims`, five payloads in order:
  * `EachReadInPlace`: the versions of a contraction share its other operand, whose pad
    is then read twice and no longer versionable, so only the first padded operand of
    two is read in place where it pads nothing (`BothPadded`).
  * `EachAligned`: the chain of reshapes of an operand ends at the branch its
    contraction was versioned into, so a collapsed slice of misaligned rows is not
    copied into aligned ones (`CollapsedFirst`).
  * `TiledBecomeVectors`: an op with a loop of unknown extent and a long static one is
    not too large while the first has no bound, is tiled in that one only, is then too
    large, and is left to scalar loops (`HalfBounded`).
  * `VectorsAtMost`: three loops of a whole tile each make a vector of more elements
    than allowed (`Unbounded`).
  * `RunsAtLeast`: a tile of a transpose takes a divisor of each extent, so an odd one
    reads single elements (`OddTranspose`).

The passing runs hold what does hold in these cases, and name what does not: tensors
that end before a *nested* loop's grid tile (`MCRootLoop`) and reshapes of a tensor the
same phase stores (`MCBodies`, where `MCViewsApart` says so) are left to the violation
runs; `UsesInOrder` names the sizes of `integers_first`, `ParametersAsStamped` and
`TilesFit` state the weaker bounds that are kept with recycled memory and rounded
rows, `RefusalsExplained` lists every way a lowering stops, and `OperandsPlaced` and
`VectorsFit` name the first padded operand (`Min(branched)`), `HidesSize` and
`EvenExtents`.

Behaviours met on the way that a reader of the code should know, and how the
models treat them:

* `control_flow.py:197`: the first input that is the phi's node is taken for the
  variable an output updates. Two variables held by one node (`y = x` before the
  loop) are told apart only if both are assigned; when a read-only name comes first,
  its input is carried instead, and the variable keeps its value from before the
  loop. Whether this can happen is Helion's choice: with `CopiesAliases = TRUE` an
  alias is a node of its own and `VariablesKept` holds; with `FALSE` TLC violates it
  (`y = x`, then a while that assigns `x` from `x` and `y`).
* `execution.py:245`: `_lower` closes only its own copy of the sending end of its
  pipe. A child another thread forked holds one too, so a death may go unseen and
  be reported as a timeout. `OutcomeIsTheChilds` says what remains true.
* `execution.py:200`: another thread may evict a key between `get` and
  `move_to_end`, which raises `KeyError` for an entry that was found. The model has
  the step; the properties of `CompileCaches` do not forbid it. At line 205 two
  threads that both found the cache too long may both trim it, below its size, and
  with a cache of one a third finds it empty, where `popitem` raises `KeyError`.
* `matmul.py:462`: the key of a bound kernel has no dtype for the bias. A later
  call whose bias has another dtype raises; `RefusalsExplained` names this refusal.
* `matmul.py`: the K chunk is rounded up to two blocks after it was limited to the
  bytes of a packed operand, and may exceed them by less than a block.
* An `i8` product fused into an `i32` sum does not wrap where eager code would, and
  `emit.py` returns values unchanged between `bf16` and `f16`; both are beyond the
  integers of `GraphLowering`.
* `schedule_amx_loads` is registered but not part of `pipeline.yaml`; `Schedules`
  runs it on AMX blocks as its own stage. `hoist_allocas` also moves buffers out of
  exclusive branches, so both are live at once.

Three more behaviours are worth a reader's attention and are not violations of a
stated promise. A config that names no pipeline keeps the default of the time it
was compiled (`driver.py:43`). A written tensor whose elements share memory is
staged, and torch refuses its copy back after the entry has run (`driver.py:152`;
`RaiseHalfway` in `AtomicCall`). Two threads that compile one module at once both
insert it, and the second insertion does not count as a use (`execution.py:203`).

## 5. The proofs

Each theorem holds for every value of the constants that satisfies the named
assumption of its module. The proofs of a state machine all go the same way: an
inductive invariant `Inv`, that `Init` implies it (`InitInv`), that every action
keeps it (`StepInv`, one step per action), and the theorem `InvHolds`, from which the
properties follow. Each `Inv` was checked by TLC on the run's instance before it was
proved.

| Module | Assumption | Proved | Beyond the run's instance |
|---|---|---|---|
| `RootLoopProofs` | `KernelAssumption` | `TypeOK`, `RegionsDisjoint`, `NoLostUpdate`; `SlicesInside` and the refinement of `DeviceLoop` (`RunsAsSequentialProgram`) if `IndexesInside` | any grid, extents, blocks, statements |
| `KernelCallProofs` | `CallsAssumption` | `TypeOK`, `RestrictHolds`, `InputsReadAsBefore`, `SizesAgree`, `CallIsAtomic` | any memory, number of arguments, strides and overlaps |
| `LowerProcessProofs` | none | `LoweringTypeOK`, `OutcomeIsTheChilds`, `NoChildLeftBehind` | any number of threads |
| `CompileCachesProofs` | `CachesAssumption` | `TypeOK`, `EntriesMatch`, `MostRecentKept` | any finite number of threads, any configs, any cache size |
| `HelperCacheProofs` | `HelpersAssumption` | `HelpersTypeOK`, `CallsAreDefined`, `OutcomeIsTheModules` | any modules, helpers, failures and clashes |
| `SizeValuesProofs` | `SizesAssumption` | `SizesTypeOK`, `SizesBeforeBody`, `UsesInOrder` | any sizes, nested to any depth, their integers anywhere, any functions |
| `TensorThreadingProofs` | `ProgramsAssumption` | `ValuesAreInScope`; `PhasesPassResults` if `WrittenOwnMemory`; `LoadsSeeTheProgram` if `ViewsApart` | any tensors, phases, nesting and trips |
| `CpuLinearProofs` | `CpuAssumption`, `BlockAssumption` | `RefusalsExplained`, `LaunchedKernelsFit`, each index of K in one chunk, and that a kept weight is of its address and version, whatever memory is reused | any requests, shapes, threads, blocks and programs of any length |

### Root loops

`RootLoopProofs` proves, for every set of kernels, grid, extent, block size and
interleaving that satisfies `KernelAssumption` (the fields of a kernel have their
types and its loops and tensors respect the bounds, which are arbitrary):

* `TypeCorrect`: `Spec => []TypeOK`.
* `DisjointRegions`: `Spec => []RegionsDisjoint`. Ownership is a fact about the
  kernel, so no induction over the iterations' work is needed: from `mode =
  "forall"` follows `Partitioned(kernel)` (the invariant `Parallelism`); two
  different iterations differ in some grid block; `Partitioned` gives a dimension
  of the tensor owned by that block; in that dimension the two regions lie in
  tiles at least a block size apart (`OffsetSpacing`, `WindowWithinTile`) or are
  different points (`TileIdsGrow` for `tile.id`, where a loop that starts
  elsewhere divides by the block size). The last needs a little nonlinear
  arithmetic, isolated in `Spacing` and `Quotients`.
* `UpdatesSurvive`: `Spec => []NoLostUpdate`. The inductive invariant is
  `NoLostUpdate` with `Parallelism`; only `Finish` writes the shared tensors, and
  what it writes lies in its own region, which by disjointness is nobody else's.
* `SlicesStayInside`: `Spec => []SlicesInside` if the kernels index their tensors as
  `IndexesInside` says, which the backend emits no checks for: loops start at or after
  0, positions are elements of their dimensions, tiles belong to tile loops (so does
  the end of a tile), a nested loop runs over the tile of a tile loop, and a written
  tensor indexed by the tiles of the nested loop reaches as far as the loop
  around it (without that the property is false: section 4, `nested_past_end`). Tiles
  of grid loops may run past the tensor, whole tiles may be assumed or not, blocks need
  not divide anything. `TilesReal` is the heart of it: the real part of a tile is never
  empty nor ends after its loop, also when the compiler proved every tile full and kept
  no size (`WholeTiles`). `NestedTilesReal` carries it into a nested loop, which covers
  the real part of the tile around it and may take that tile's static span instead;
  `WindowInside` and `InnerTileInside` clamp it to a dimension or a region, and
  `ShiftsAccepted` is what `Refused` guarantees of a tile that is shifted left. That
  only accepted kernels run is the invariant `Accepted`. TLC checks the run's kernels
  against `IndexesInside` (`MCIndexesInside`).
* `RunsSequentially`: `Spec => RunsAsSequentialProgram` under the same condition, so
  `RootLoop` implements `DeviceLoop` for every kernel, not only the run's. `DeviceLoop`
  says without any machine what the program does: its events are the statements of all
  iterations in order, an element holds the stamp of the last event that stores it
  (`Stored`), a load takes what the events before it left (`Loaded`). The inductive
  invariant `Right` relates the three pieces of state to it: the tensors hold what the
  finished iterations stored (`MemoryRight`), the regions of a running iteration hold
  what the program would have left there before its next statement (`LocalRight`), and
  the tiles loaded so far are the program's (`SeenRight`). Each action then rests on a
  lemma of its own. `StartsRight`: what is taken out is what the program left, because
  in parallel nobody else stores in the region (`StoredByOwner`, from disjointness) and
  in sequence exactly the earlier iterations are over (`Places`). `EventInside`: a
  statement reaches exactly the elements its subscripts name, those of its iteration's
  region; `DimensionInside` shows it for each form of subscript and owner.
  `StoresRight` and `LoadsRight` follow for one statement, `EndsRight` for what is put
  back. `NestOrder` (the order of iterations is total) needs a least natural number,
  the one use of well-founded induction. When the nest is over, all events have
  happened (`OverIsSequential`); a refused kernel has a shift below zero
  (`RefusedShiftsDown`). TLC checks the refinement itself on `root_loop`.

### Calls

`CallsAssumption` says that arguments are tensors within the cells of memory. `Inv`
has, besides the types: before the entry runs nothing is stored (`NothingYet`); a
staged argument is a copy exactly when it is strided or an input that overlaps
(`StagedRight`); a copy holds what was stored and else what the tensor held before
(`CopiesFollow`); memory holds each stored element that has reached its tensor
(stored in place, or copied back so far) and else its old contents (`MemoryFollows`);
the tensors to be written do not share cells (`Separate`). `Separate` is where the
code's arithmetic is: `_spans_overlap` compares half-open byte ranges, and that two
tensors that share a cell have overlapping spans (`ApartCells`) needs the
monotonicity of multiplication by a stride. From these follow `RestrictHolds`, which
speaks of the buffers, and `InputsReadAsBefore`. `SizesAgree` holds from `CheckSizes`
on (`SizesChecked`): each tensor of a symbol, and each computed from one, is compared
with the tensor that binds it.

`CallsAreAtomic` is the refinement: with the mapping `Result`, `Seen`, `Done` every
step of `KernelCall` is a stutter of `AtomicCall` until the call finishes. The step
that raises or returns is `Raise`, `Return` or `RaiseHalfway`; for the last two `MemoryFollows`
gives memory as `Replaced(stored)`, where the place of an element identifies it unless
its own tensor shares cells with itself, which is the hypothesis of `RaiseHalfway`.

### Lowering processes

`Inv` says who can hold the sending end of each pipe (`PipesHeld`: the process between
opening and closing it, living children, nobody that has ended), which child a thread
has at each place (`ChildrenPlaced`), how far an answer has come (`AnswersSent`), and
that an outcome is settled once (`OutcomesSettled`). The step that decides is the one
where `poll` has timed out: nothing is readable, the process has closed its end, so
some living child holds the pipe; if no other child is around it is the thread's own
(`WaitedForAlive`). With other children around a death may be reported as a timeout,
which `OutcomeIsTheChilds` allows.

### Caches of compiled configs

`RecentLast` says that the cache is the end of the history of uses, in which no key
occurs twice; inserting, `move_to_end` and `popitem` all keep this. `Bounded` counts
the threads that have inserted an entry and not yet measured or trimmed it: the cache
exceeds its size by at most as many. Neither needs a lock; what the missing lock
allows are the two `KeyError`s of section 4.

### Helpers

`Local(m)` relates each module to the shared cache: its requests are its calls in order
of first call, what it lacks is among `missing` while it is lowered, its copies are
those of requests, and a raised error is the verdict on its calls (`BlameFits`). Other
modules only add to the cache, and what they add is lowered, so `Local(m)` survives
their steps. That the first request with a defect is the first call with it
(`FirstRequested`) carries the order from calls to requests.

### Sizes

`Inv` says that operations have distinct identities below the next fresh one, that the
point where each level of the recursion inserts is above every body operation
(`FramesPlaced`, `AnchorPlaced`), and that every level but the innermost waits for an
argument. `SizesBeforeBody` is part of it.

`UsesAlwaysInOrder` has no hypothesis about the sizes. Its invariant `OrderInv` adds that
the anchor is an integer or a body operation, never a size (`AnchorIsNoSize`), and that
what a level has in hand is either a size or above the anchor it will insert at
(`InHand`). So an operation that ends up above one it uses uses a size, and does so
across the anchor: if that is a body operation `SizesBeforeBody` excludes it, and if it
is an integer, it is the one an earlier size began with (`AcrossInteger`). That this
does happen is `integers_first`.

### CPU kernels

`BoundByKey` says that each bound kernel has the plan its key stands for (`PlanOf`), so
a kernel found in the cache has the plan for the shapes, the threads and the tiles of
this call: a key that lacks one of them would not give `PlanOf`. `Fits` says that a
packed weight has the shape its kernel expects; what is packed fits (`PanelsFit`,
`BlocksFit`), and what is kept fits every call with its key. So `Compatible` fails only
if K differs, and the one other refusal is a bias of another type.

`KeptWeightsAreOfTheirStamp` says of a packed weight about to be used that it is packed
from contents the weight had at the address and version it has now, and the same of the
vectors kept with it (`PreparedAsStamped`). The invariant `StampedInv` says so of the
cache (`KeptAsStamped`): what is kept under a key was made from tensors the parameters
of that key were, which `past` remembers (`Remembered`, `Remembering`); a change of a
parameter adds to `past` and takes nothing away (`ContentsKept`), and a call that finds
its key in the cache has the address and version of the key. Nothing is assumed of
where new tensors are placed. Where every address is new, the contents of an address and
version are one, and this says that the weight is current; where memory is reused it
says which tensors it may be, and `linear_claims` shows that it may be an old one.

### Chunks of K

* `FusedPackContractsOnce` and `PrepackedContractsOnce`: the K chunks the kernels
  walk (`Chunks` of `FusedPlan` and `PrepackedPlan`: whole chunks, a rest that ends
  with its loop, a padded tail) meet every index of K in exactly one chunk. Both
  follow from `ChunksMeetEachOnce` about any `Sound` plan: `ChunkByChunk` says where
  each chunk starts and ends, and an index lies below `chunked`, between it and
  `even`, or above.
* `LaunchesContractOnce`: so does every kernel the program launches, with the K of the
  operands it was bound to. The chunk of the fused plan, a hypothesis of the first
  theorem, is here given by the request or by the heuristic, which is shown to choose
  a positive one.

That the elements an index contributes are the right ones, and land in the right
place of the result, is `ResultsRight`, checked on small shapes.

### Chosen tiles

`LaunchedKernelsAlwaysFit` is `Spec => []LaunchedKernelsFit`: whatever was called
before, tiles are whole blocks, at most a block row over the accumulator, and K is
walked in whole steps of two blocks.

* The heuristic narrows columns, then widens them, in `while` loops, written as
  recursive functions in `BlockChoice`. A property of such a function's value needs no
  induction over the function: `LoopsExist` shows that the equation that defines it
  has a solution (a number and the one after it have the same set of numbers they can
  end with, at most one, so choosing from it solves the equation), and `LoopsEnd` that a
  solution maps a number the loop keeps some property of to one that has the property
  and leaves the loop, if a measure in `Nat` falls with each round: a number without a
  good end and of least measure has none. `ColumnsNarrowed` and `ColumnsWidened` use
  them with the columns and with `n - columns`.
* `RowsBalanced`: the candidates of `_balanced_rows` are finitely many numbers, one of
  them (the first) within the limit, so the least busy one exists (`LeastNumber`
  twice: the least load, the fewest tiles among those); more tiles than the fewest only
  lower the rows.
* `HeuristicFits` puts them together: rows, columns and chunk are positive multiples
  of their blocks if the padded operands hold one tile.
* `OperandSizes` is the invariant that they do: operands smaller than a block were
  padded (`SmallerThanTile`) before a kernel is looked up, and no later step, of the
  same call or of the next item of a batch, shrinks them.

`BlockAssumption` says of the literals what the code relies on: an accumulator holds a
row of the widest tile the heuristic starts from, and a K step of any tile can be
packed (with 32, 2^18 and 2048: `128 <= 262144` and `16384 <= 262144`).

### Tensors through control flow

A phase is a text of statements whose constructs are nested (`WellNested`: each
opening statement has its end, and each if and while one `else` and `do` of its own,
which is what Helion's graphs are). Lowering reads it once, with a stack of open
constructs; a run walks the lowered text back and forth, with a stack of frames that
hold the values in scope. What connects them is a sequence `values`: the value of every
written tensor before every statement, in the order of the text.

* Lowering determines `values` (`PartlyLowered`, then `BuiltWith` for the finished
  phase): each operation reads the values of its place, its results are those after it,
  a construct's body starts with its arguments, and what a body yields is what the
  text reached at its end. The then and the else of an if start with the same values.
* A run at a place has the values of that place in scope (`RunWith`), and each frame on
  its stack the values of the construct it entered, because `Scope` grows within a
  region and is cut back when the region is left. `ValuesAlwaysInScope` follows, for
  any programs.
* If every written tensor owns its memory (`WrittenOwnMemory`), the value of each place
  holds the memory the sequential program would have there, so the phase returns what
  it should: `ResultsReachLaterPhases`. If besides no phase reads a view of a tensor it
  stores (`ViewsApart`), a load sees that memory: `LoadsAlwaysSeeTheProgram`.

Both hypotheses are about the programs alone. `MCViewsApart` makes TLC check that the
programs of `bodies` satisfy them; those of `stale_view` do not, and violate the
conclusion. Most of the proof is about the text: which construct a place is in, that
the stack of a place is determined by it (`Nesting`), and that leaving a construct
leads to the end its opening statement names.

### What is only model-checked

* Liveness (`EveryLoweringEnds`): fairness is out of the prover's reach.
* `VariablesKept` of `CarriedVariables`: what a body of variables means is recursive
  over the constructs in it.
* `ResultsRight` and `ParametersAsStamped` of `CpuLinear`: results and packed weights
  are folds over tiles and chunks. `KeptWeightsAreOfTheirStamp` proves the part of
  `ParametersAsStamped` that the caches decide.
* `Schedules` and `GraphLowering`: their operators are recursive over code and graphs.

## 6. What is not modelled, and why

Listed per component in `PROJECT.json`. In short:

* node lowerings whose meaning is that of an MLIR dialect (elementwise, views,
  scalars, inline MLIR), the registry's texts, error messages and dumps;
* sample tensors for shape inference, source rewriting of host code, the
  replacement of torch's methods while tracing (`einsum_capture.py` is a near copy
  of `trace_mode.py` that nothing imports);
* Helion itself, torch-mlir, lighthouse's passes and LLVM: external, modelled where
  the code depends on what they do;
* of the schedules: pinning, marking and isolating transposes, the hoisting part of
  `align_operand_rows`, unrolling of transfers, folding of empty slices,
  linearisation and the approximations of math functions;
* of the kernels: softmax, elementwise functions, VNNI packs of whole blocks, and the
  list of extra biases of `linear`;
* host code that raises after the device loops (`KernelCall` has one that returns), a
  child that cannot be started, and a claim that calls of several threads never raise
  (the two `KeyError`s of section 4 are followed and not forbidden);
* in loops: gathers and masks, tiles of nests deeper than one level;
* in contractions and updates: tuples of inputs to combines, reads of a carried
  value through a map that is not the identity (`in_place.py:105`).

## 7. Plan

1. *Done*: the loops (`KernelBody`, `RootLoop`, `DeviceLoop`, their proofs), calls,
   lowering processes, sizes, caches, helpers, the threading of tensors and the
   carried variables (`CarriedVariables`); the CPU kernels and linear layers
   (`CpuLinear`); the schedules (`Schedules`); contractions, combines and in-place updates (`GraphLowering`).
2. *Done*: the proofs of calls with their refinement, lowering processes, caches,
   helpers, sizes, written tensors through control flow, the CPU kernels' caches and
   tiles, and root loops with their refinement (section 5). *Left*: what section 5
   lists as only model-checked.
3. The tiles of several nested levels and masks in `RootLoop`.
4. The remaining schedules (pinned transposes, unrolled transfers).
