# Formal models of DaCe

DaCe turns Python functions (and other languages) into SDFGs, graphs of
dataflow inside a graph of control flow; rewrites SDFGs with passes and
transformations; generates C++ or GPU code from them; compiles that code to a
shared library; loads it; and calls it. This directory holds TLA+ models of the
parts of that path whose correctness depends on order, state and interleaving,
configurations that check them with TLC, and proofs checked with TLAPS.

`PROJECT.json` maps every definition that models code to the source lines it
stands for and lists components, runs, mutations, findings, hazards and
theorems. Paths below are relative to `src/dace/`.

## 1. Inventory

| Component | State | Operations | Hard behaviour | Correct when | Here |
|---|---|---|---|---|---|
| Topological order (`sdfg/utils.py`, `dfs_topological_sort`) | visited set, stack of child iterators, position in the starts | one generator step | nodes offered through each of several parents; children dropped by a condition; cycles | predecessors first, nothing twice, nothing missing | `DfsTopologicalSort` |
| Pass pipelines (`transformation/pass_pipeline.py`, `passes/simplify.py`) | list of passes, `applied_passes`, results, suspended recursive generators | construct, iterate, apply a pass, repeat to a fixed point | results that go stale while the generator is suspended; end of the fixed-point loop | results fresh, no redundant runs, real fixed point, termination | `PassPipeline` |
| Streams and consume scopes (`runtime/include/dace/stream.h`) | concurrent queue, atomic unsigned counter, a chunk per thread | push, bulk push, try-pop, consume loop | queue and counter change in separate steps; counter wraps; threads leave early | nothing lost or consumed twice, empty at the join, termination | `ConsumeStream` |
| Compiled programs (`codegen/compiled_sdfg.py`, `codegen/tools/dacestub.cpp`, `SDFG.compile`) | library files, `dlopen` references, function pointers, state handle | compile, load a precompiled program, probe, initialize, call, finalize, delete | error paths that undo half of a step; leaked references; files that outlive a process | no shared or overwritten library, the right program runs, calls are sound | `CompiledSDFG` |
| SDFG, states, control flow regions (`sdfg/*.py`) | graphs, data descriptors, symbols, the shared cfg list | add, remove, nest | ids taken from a list that is replaced while others keep it | ids agree with the tree | planned: cfg list only |
| Pattern matching (`transformation/passes/pattern_matching.py`) | metadata of the patterns, the match being applied | match, apply, repeat | the graph changes under the matcher; transformations that undo each other | a match is applied only to the graph it was found in; nothing matches at the end | planned |
| Program cache and hooks (`frontend/python/cached_program.py`, `parser.py`, `hooks.py`) | ordered dictionary, the closure of the last parse, a copy of the globals, hook list | call, compile, to_sdfg, load, clear, register, unregister | keys made from what an earlier parse left; ids that are given out again; failures between parsing and caching | the program that runs is the one for this call; bounded size | `ProgramCache` |
| Grid barrier (`runtime/include/dace/cuda/multidim_gbar.cuh`) | a flag per block, position of each thread | setup, sync, reset | blocks a round apart; flags reused by the next round and the next kernel | nobody leaves a round before all have entered it; kernels end | `GridBarrier`, `Barrier` |
| Dynamic maps (`runtime/include/dace/cuda/dynmap.cuh`) | shared union, what each thread has left | schedule at three granularities | racing writes to the owner; barriers that all must reach; overlaid memory | each index worked once; threads change granularity together | `DynamicMap` |
| Streams and events of GPU programs (`codegen/targets/cuda.py`, `cpp.py`, `cpu.py`) | stream of each node; what is queued on each stream | annotate, emit copies, launches, host code, end of a state | asynchronous streams that wait for each other and for the host only where the generator says so | nothing overtakes what it depends on; nothing pending at the end | `CudaStreams` |
| Device streams (`runtime/include/dace/cuda/stream.cuh`) | queue positions | push, pop, commit | wrapping positions | no element lost | planned |
| Memlets, subsets, symbols; propagation; validation | symbolic expressions | pure functions | - | semantic, over unbounded integers | no |
| Transformations; analyses; canonicalization; autodiff | the SDFG | graph rewrites | - | preserve the program's meaning | no; their declarations are inputs of `PassPipeline` |
| Frontends (Python, Fortran, Octave, ML) | syntax trees | translation | - | preserve the program's meaning | no |
| The rest of code generation, compiler driver, instrumentation, libraries | text, files, subprocesses | emit, build | - | emitted code means what the SDFG means | no; the outcome of a build is an input of `CompiledSDFG` |
| Runtime support headers | event list under one mutex, numeric kernels | - | - | - | no |
| Configuration, serialization, tuning, command line, viewer | settings, JSON, measurements | I/O | - | - | no |

How they interact: the frontend builds an SDFG and a `SimplifyPass` (a
`FixedPointPipeline`) simplifies it. A pipeline orders its passes with
`dfs_topological_sort` over their dependency graph. Code generation walks
states and scopes with the same sort and emits one piece of code per node it is
handed; `CudaStreams` takes its order from there. Emitted consume scopes call
`Consume::consume` of the runtime, emitted GPU kernels `__gbar.Sync()` and
`DynamicMap::schedule`.
`SDFG.compile` builds the emitted code to a library and wraps it in a
`CompiledSDFG`, which loads it through a stub library and calls its exported
functions. The Python frontend caches compiled programs; hooks rewrite an SDFG
on its way to the compiler.

Python code runs in one thread; what interleaves there are generators and their
consumers, objects and the garbage collector, and one process and the next on
the same build folder. Real concurrency is in the generated programs: threads
on the CPU, blocks and threads on the GPU, and the streams of the GPU next to
the host.

## 2. Modules

| Module | Models |
|---|---|
| `DfsTopologicalSort` | `dfs_topological_sort` |
| `DfsTopologicalSortProofs` | theorems about it |
| `PassPipeline` | `Pipeline`, `FixedPointPipeline`, and the refusal of incompatible passes by `SimplifyPass` |
| `PassPipelineProofs` | theorems about it |
| `ConsumeStream` | `Stream` push and try-pop, and `Consume::consume` |
| `ConsumeStreamProofs` | theorems about it |
| `CompiledSDFG` | `SDFG.compile`, `load_precompiled_sdfg`, `ReloadableDLL`, `CompiledSDFG`, `dacestub` |
| `CompiledSDFGProofs` | theorems about it |
| `ProgramCache` | `DaceProgramCache`, its keys, the methods of `DaceProgram` that use it, and SDFG call hooks |
| `ProgramCacheProofs` | theorems about it |
| `Barrier` | what a barrier promises (abstract) |
| `GridBarrier` | `GridBarrier` and `GridBarrierLifetime`; implements `Barrier` |
| `GridBarrierProofs` | theorems about it, the refinement among them |
| `DynamicMap` | `DynamicMap::schedule` |
| `DynamicMapProofs` | theorems about it |
| `CudaStreams` | `_compute_cudastreams` and the synchronization that is emitted for copies, kernels, host code and states |
| `CudaStreamsProofs` | theorems about it |
| `MCDfsTopologicalSort`, `MCPassPipeline`, `MCConsumeStream`, `MCCompiledSDFG`, `MCProgramCache`, `MCGridBarrier`, `MCDynamicMap`, `MCCudaStreams` | instances for TLC |

An operator marked `mutant` is a plausible bug of the definition after it;
`PROJECT.json` says which property it violates. Nothing else uses it.

### DfsTopologicalSort

One behaviour is one call, driven until the generator is exhausted. `nbrs` is
the accessor `neighbors` as an ordered list per node, so parallel edges,
self-loops and cycles are included; `reverse=True` swaps the accessors and is
another value of `nbrs`. `next` is the position of the outer loop, `stack` the
frames (node and next child), `visited` and `order` the visited set and the
nodes yielded.

`Start`/`SkipStart` are the body of the outer loop; `SkipChild`, `YieldChild`
and `RejectChild` the three outcomes for a child (ineligible, accepted,
rejected by the condition); `Backtrack` is the `StopIteration` handler.

### PassPipeline

Passes are identified with their types, as the pipeline requires. What passes
declare (`depends_on`, `modifies`, `should_reapply`) is data, fixed in `Init`.

* Construction: `RejectDuplicates`, `AddDependency`, `KnownDependency`,
  `RejectObject`, `CheckNextPass`, `Constructed` - one cursor over the growing
  list of passes.
* Iteration: `BeginIteration` takes any order the topological sort may yield on
  an acyclic graph (this is where the first module's theorems enter, by
  specification: every pass once, dependencies first). `EnterPass`,
  `SkipDependency` and `EnterDependency` walk the stack of suspended
  `reapply_recursive` generators. `ApplySubpass` runs the pass on top, with any
  outcome its contract allows (`r`: whether it returned a result; `m`: what it
  changed, within `modifies()`), and does all the bookkeeping of the loop.
* End: `ReturnPlain`, `Repeat`, `ReturnFixedPoint`.

The SDFG is abstracted to two history variables that the code does not have:
for each pass, the kinds of element changed since it last ran (`dirty`) and
since its stored result was computed (`outdated`).

### ConsumeStream

Each thread's control point is one of the steps of the loop of
`Consume::consume`: reading the counter, the dequeue, the contents, a push
(which enqueues in one step and counts in another), the decrement. `Consume<1>`
is chunk size 1. Elements are identities, and the queue is a set, because the
moodycamel queue gives no order between producers; `PopFail` is always possible,
because a dequeue of that queue may come back empty-handed while elements are
being added. The counter is taken modulo `Modulus`, which stands for 2^32.

### CompiledSDFG

One process at a time, one thread; `Restart` ends the process, also after a
crash, and the files stay. A library is named by a sequence: `<<i>>` for the
i-th name that `compile` gives the SDFG, with one more element for each
renaming of a copy by `load`. An object records the library file it names
(`fname`), the one it has open (`lib`), the one its function pointers were
looked up in (`bound`), whether these still point to mapped memory, the
`_initialized` flag, the handle, and the version of the program it was made for
(history).

`Probe` models `is_library_loaded`, whose `dlopen(..., RTLD_NOLOAD)` takes a
reference that is never given back (`codegen/tools/dacestub.cpp:43`): the
library stays mapped after its last object is gone. The leak has a useful side:
a library that ever had a copy remains mapped, so a `compile` that generates
code takes another name instead of rebuilding it, and within one process its
copies do not become stale. `RunsItsProgram` depends on it, and giving the
reference back (operator `ProbeOnly`) breaks it.

`Compile` is `SDFG.compile` with generated code. With `regenerate_code` false and
a build folder that exists (`CompileKept`) the SDFG is not renamed: the library
of its own name is rebuilt where it is, mapped or not, from the code in the
folder, which the user may have changed in between (`v`). Then `MappedFileIntact`
does not hold of that library (`RebuiltInPlace`), and a copy of it that is loaded
may be stale. The folder has the code of the last name it was generated for
(`generated`); if that is not the SDFG's own, the functions are not found and no
object is made (second part of `GetProgramHandle`). `LoadPrecompiled` is with the
SDFG that the user has, of the original name, or with the one saved in the
folder, of the name that the code was generated for.

`FastCallFails` and `FastCallReloadFails` are the error path of `fast_call`,
`DeleteFails` an error in `finalize` inside `__del__`. A call through a dangling
pointer ends the process; a call with a null or freed handle may. `env`, chosen
in `Init`, says which of the faults may happen in an execution, whether users
call `finalize()` on objects that are not initialized, whether the process may
end, and bounds the objects.

### ProgramCache

One `@dace.program` and its cache. The function reads some variables of its
closure, which ones depends on the types of its arguments: constants, whose
values become part of the SDFG, and arrays, of which the descriptors do. The
user assigns to these between calls (`Assign`). `globals` are the variables now
and `global_vars` the copy of them that the program last took; `closure_keys`
and `arg_mapping` are what the last parse left (`closure_constant_keys`,
`closure_array_keys`, and what `closure_arg_mapping` evaluates to).

`__call__` makes its key from those (`CallKey`), and on a miss parses, applies
the hooks, compiles, makes the key again and adds the entry (`CallMiss`);
`CallHit` runs the entry, and `CallFails` is an error after parsing, when the
closure is already replaced. `ToSDFG` stands for `compile` too: both parse and
cache nothing. `ToSDFGCached`, `Load` (an SDFG or a compiled one) and `Clear`
are the rest of the interface. A program is what it was made from: types,
constants, how often each hook rewrote it, and whether it was parsed or loaded.
A parse takes the SDFG of an entry with its key, which the hooks of the call then
rewrite once more (`Hooked`); `CallIsCurrent` says which hooks have rewritten a
program (`RewrittenBy`), not that each did so once. `Register` and
`Unregister` are those of SDFG call hooks, whose `id()` is part of the key; a
hook that was removed is collected and its address may be given to the next.

### GridBarrier

Every thread of every block has a control point in `Sync`. `CtaSync` is the
barrier within a block, which its threads take together. `Report` raises the
flag of a block, `Collect` and `Release` are the two loops of block 0, whose
threads share the flags among them by stride, `Ack` and `Spin` the loops that
wait. `Launch` is `Setup` and the launch: the flags are zeroed only if more are
needed than were allocated. `HostReset` is the destructor: the code generator
makes a barrier for each launch, the class allows it to be kept, and the model
has both. `Place` is the device, which puts the blocks of a plain launch where it
has room (`capacity`, another one for each launch) in any order. Only blocks
that have a place take steps, and a block keeps it until its threads have ended.
The safety properties are about all kernels, those that do not fit among them.

`Barrier` has a set of threads, the rounds each has left and who is inside one;
`Leave` needs everybody to have entered the round. `GridBarrier` implements it
with the active threads as the party, and as inside those that are anywhere in
`Sync`.

### DynamicMap

One call of `schedule` by the threads of a block; `conf` holds the template
arguments. The shared union is modelled word by word, so that the owner, source,
start and size of the block scheduler and the arrays of the fine-grained mode
share their words as in the code, and uninitialized words hold `Junk`.
`Begin` to `Work` are the loop of the block scheduler between its barriers
(`BlockSync`, for which threads that have returned do not count), `WarpShare`
and `WarpWork` the warp's, `Own` the coarse remainder, and `WarpDone`,
`Scatter`, `WarpSync` and `Gather` the fine-grained one. `any`, `ballot`, `shfl`
and the prefix sum are collective steps of a warp. `worked` is the bag of calls
of `work`.

### CudaStreams

A program is a sequence of states, a state a graph of access nodes of GPU and of
pinned host memory, kernels (a GPU map with its contents) and host code (a
tasklet or CPU map). The first phase is `_compute_cudastreams`, step by step:
`AnnotateSources`, the walk of `dfs_edges` (`StartWalk`, `WalkEdge`,
`LeaveNode`) with the annotation of every edge it yields (`Annotate`),
`NextState`, and `RemoveStreams`. In the second phase the host runs what is
generated for each node in a topological order: `AccessNode` issues the copies
out of it, `Launch` a kernel, `Host` runs host code, `EndState` synchronizes or,
if that is relaxed, does not. Generation and execution on the host are one step
since the code is straight-line. `queue` holds what the GPU has still to do on
each stream, and `Execute` takes the head of a stream, if it is not an event that
has not happened yet. CUDA itself is external and modelled from its use.

`DependenciesMet`, `StatesOrdered` and `NothingPending` are stated for programs
in which none of three situations occurs, named `DropsEvents` (finding 4),
`ThirdStream` (data written from several streams, and read on a stream other
than its own: the reader waits for some of the writers only) and
`CopiesUnsynced` (a copy between two host arrays, of which the GPU wrote the
first: the host does not wait). The last two also exclude states that are
`BeginsIdle`: with streams on their sources, but no work on any of these.
The synchronization before such a state can be left out, since only the streams
it begins with are compared, and the state then waits for the others only. That
the properties hold for all other programs of the instance says that these are
the only situations; that they are proved, that there are none in larger
programs.

## 3. Runs

All bounds are `CONSTANT`s in the `.cfg` files.

| Run | Configuration | Instance | Shows |
|---|---|---|---|
| `dfs` | `MCDfs.cfg` | 800 DAGs of five nodes met in a scrambled order; 375 graphs with cycles and parallel edges; with and without sources; with and without a condition that drops a child | no node comes before its predecessors (`PredecessorsFirst`) or twice (`YieldedOnce`), none of a DAG is missing (`CompleteOnDAG`), the generator ends (`Terminates`) |
| `pipeline` | `MCPipeline.cfg` | the passes of `SimplifyPass` that have dependencies, with the flags they declare, in the order the sort yields; 268 pipelines of up to four passes over two kinds of element, every order, every outcome of a pass; two changes | `ResultsFresh`, `TransitivelyFresh`, `NoRedundantRun`, `FixedPointReached`, `Terminates` |
| `consume` | `MCConsume.cfg` | three threads, three elements, chunks of two, counter modulo 4 | `Conservation`, `ConsumedOnce`, `Drained`, `Terminates`, `EventuallyConsumed` |
| `compiled` | `MCCompiled.cfg` | two builds; four objects without disturbances, with code that is kept, and with failing finalizers and a restart, two with everything | `NoSharedLibrary`, `MappedFileIntact`, no negative reference count (`TypeOK`), `RunsItsProgram`, `SoundUnlessDisturbed` |
| `compiled_call_error` | `MCCompiledCallError.cfg` | two objects, failing calls | finding 1 |
| `program_cache` | `MCProgramCache.cfg` | two combinations of types of which one uses a constant and an array, two values of each; two hooks and two addresses; caches without a size and of size one; three operations between any assignments and hook changes | a call runs the program for its types, constants and hooks (`CallIsCurrent`), `HooksAreOpen`, `Bounded` |
| `program_cache_arrays` | `MCProgramCacheArrays.cfg` | the same | finding 2 |
| `grid_barrier` | `MCGridBarrier.cfg` | two kernels of one to three blocks of two threads, two rounds each, with room for two or three blocks at a time | refinement of `Barrier` (`ImplementsBarrier`), `LowersOwnRound`, `FlagsDownAtEnd`, `KernelEnds` |
| `dynamic_map` | `MCDynamicMap.cfg` | blocks of four threads: two warps without, one warp with the fine-grained mode; ranges of none, less than a warp, a warp and more than a block | `EachOnce`, `UniformExit`, `Terminates` |
| `dynamic_map_race` | `MCDynamicMapRace.cfg` | two warps with the fine-grained mode | finding 3 |
| `cuda_streams` | `MCCudaStreams.cfg` | all states of four nodes, all pairs of a state of three and one of two nodes, and larger ones with joins, forks and several writers; no limit, and a limit of two streams; nine streams, as many as the largest state has nodes | `DependenciesMet`, `StatesOrdered`, `NothingPending`, `Returns`, and only streams that exist (`TypeOK`) |
| `cuda_streams_copy` | `MCCudaStreamsCopy.cfg` | a kernel's output that is used and copied, and the copy used | finding 4 |

Why the bounds are enough for the interesting cases to happen:

* Five nodes allow diamonds, two starts that share descendants, and a start
  next to a cycle, with edges listed in every order.
* Two transformations and two analyses allow an analysis to be used before and
  after a modification, directly and through the other analysis, and to be
  suspended while its own dependency is rerun. Two changes allow a second and a
  third round of a fixed point.
* Three threads are the fewest with one thread between enqueue and count, one
  consuming what is not yet counted, and one reading the counter meanwhile. With
  chunks of two and modulus 4 the counter does wrap below zero.
* Four objects, three names and copies of copies cover a rename by `compile`, a
  copy by `load`, and a renamed program that is copied; also both ways to a stale
  copy (a restart, and code that is kept). Deadlock is not checked
  in the configurations of `CompiledSDFG` and `ProgramCache`: a process may stop
  at any time, and the objects and operations of the instance run out. The
  objects are interchangeable, hence the symmetry.
* For the cache, three operations allow an entry, something that replaces the
  closure (a call with other types, a load, a failure), and the call that must
  not be misled by it; in between hooks come and go and get each other's
  address. Values and addresses are interchangeable.
* Three blocks of two threads give one thread of block 0 two peers and the other
  one; two rounds and two kernels let flags be reused within and across kernels.
  Room for two lets three blocks be placed that never fit, and room for three all
  of them, in any order and at any time.
* In a block of four threads several threads compete in several rounds; warps of
  two let one warp be in the last granularity while the other is in the first.
  With one warp of four the fine-grained array and the prefix sums have three
  steps. `FirstSrc` is 4 in the passing run so that no source equals an owner.
* Four nodes are the fewest with a copy and a reader on another stream, a data
  node with two writers and a reader, and a kernel with two outputs. A limit of
  two makes streams wrap.

**Fairness.** `DfsTopologicalSort` and `PassPipeline` are single-threaded
loops: weak fairness says only that the interpreter goes on. In `ConsumeStream`
each thread's steps are weakly fair (the operating system schedules every
thread), and `Pop` is strongly fair: a thread that returns to `pop_try` again
and again while the queue has elements eventually gets one, since a moodycamel
dequeue fails spuriously only while it races with other operations.
The contents of an element are assumed to return: they push finitely many
elements because `Item` is finite. In `GridBarrier` the steps of every thread
and the barrier of every block are weakly fair, but only those of blocks that
have been placed take steps, and the device owes a place only while it has room
(`Place`). The code generator launches plainly (`cuda.py:1895`) and bounds the
blocks by nothing, so `KernelEnds` is about kernels whose blocks fit on the
device together. In `DynamicMap` the device
goes on with some thread (weak fairness of the whole step, which is enough as
nothing spins). In `CudaStreams` the host and every stream make progress:
kernels and copies end. `CompiledSDFG` and `ProgramCache` have no fairness and
no liveness property.

**What is assumed of passes.** A pass that returns `None` changed nothing, and
otherwise changed at most what `modifies()` declares: the contract in the
docstrings of `Pass`. `should_reapply` is monotone and additive (a pass that two
sets of changes do not concern is not concerned by both together), and
dependencies are acyclic, as they are for every pass of the repository: each
`should_reapply` there is constant or tests flags. `ResultsFresh` is stated for
dependencies that are analyses, as are all those of the repository;
`FixedPointReached` for pipelines whose implicitly added passes are analyses,
`TransitivelyFresh` for dependencies that ask for reapplication whenever their
own dependencies do, and `Terminates` for fixed-point pipelines that are given
no analysis.

## 4. Findings

Each is a run that TLC refutes; `PROJECT.json` quotes the lines.

1. `codegen/compiled_sdfg.py:588`. After a call raises, the library is unloaded
   but the object stays initialized with its old function pointers; the next
   call, and the finalization in `__del__`, go to unmapped code.
2. `frontend/python/parser.py:405`. Arrays of the closure are looked up in the
   globals of the last parse, for the key and for the call: after a global is
   bound to another array, a call that hits the cache gets the old one.
3. `runtime/include/dace/cuda/dynmap.cuh:163`. In the fine-grained mode, the
   default, a warp that is done with the block scheduler writes over the owner
   that another warp has still to read, which then waits at barriers alone.
4. `codegen/targets/cuda.py:1029`. A copy to an array that is read on the
   array's own stream records no event at all, so that the reader may run before
   the copy when that is on another stream.

Other things seen while modelling, which the conditions of the properties above
leave out:

* `sdfg/utils.py:163`: on a graph that has a source node, the nodes of a cycle
  are never yielded, while the docstring says the sort "works on any directed
  graph"; `CompleteOnDAG` is about acyclic graphs.
* `transformation/pass_pipeline.py:542`: an up-to-date dependency hides that its
  own dependency must be reapplied, while the comments say that dependencies are
  looked at. `ScalarWriteShadowScopes` does not ask for all that its dependency
  `AccessSets` asks for, so that `Covering` fails for it; within `SimplifyPass`
  it holds.
* `transformation/pass_pipeline.py:630`: a `FixedPointPipeline` that is given an
  analysis never ends.
* `codegen/compiled_sdfg.py:411`: the check for a failed initializer compares
  object identities and never holds.
* `codegen/compiled_sdfg.py:131`: a copy of a library that an earlier process
  left behind is loaded although the program was rebuilt since.
* `sdfg/sdfg.py:2736`: with `regenerate_code` false the library of the SDFG's name
  is built in place although it may be mapped, and an existing copy of it, of the
  program before, may be loaded for the new one. If an earlier `compile` renamed
  the program because it was loaded, the folder has the code of that other name,
  and looking up the functions of the own name fails.
* `codegen/targets/cuda.py:1456`: when the synchronization between two states is
  relaxed, host code in the second does not wait for the first;
  `StatesOrdered` is about states without host code. The comment there says that
  the next state must "use ONLY the same streams", while only the streams it
  begins with are compared (`_begin_streams`): before a state that is
  `BeginsIdle` a kernel may still run when the program returns. A state that
  makes copies in host memory and launches a kernel on another stream than it
  begins with, after a state with one kernel on the former, is an example
  (`Second` and `Idle` in `MCCudaStreams`). `ThirdStream` and `CopiesUnsynced`
  above are two more situations that are not synchronized.
* `codegen/targets/cuda.py:1819`: a grid barrier is also made for kernels at their
  full grid size (1596-1602), and for persistent ones with a number of blocks from
  the configuration (1806-1812), while the launch (1895) is a plain one. A grid that
  does not fit on the device spins for ever, the blocks that have a place waiting
  for those that have none; `KernelEnds` is about the others.
* `frontend/python/cached_program.py:106`: the dictionary is built with the
  argument and not with `self.size`, so that the cache of a program is not
  bounded by the configured size.
* `frontend/python/parser.py:471`: a call whose key misses only because of the
  closure that another call left finds its entry when it parses (line 923), which
  is an SDFG that the hooks have rewritten (line 482), and applies them to a copy
  of it again: with one hook and two combinations of types, the third of the calls
  `f(big)`, `f(small)`, `f(big)` runs a program that the hook rewrote twice. It
  is optimized and simplified again too. Hooks that are not idempotent notice.
* `frontend/python/parser.py:793`: loading from a file that does not exist adds
  an entry under the key `None`.

## 5. Proofs

The theorems hold for every value of the constants that satisfies the
`ASSUME`s of the component's module.

**DfsTopologicalSortProofs**: `DfsTypeCorrect`, `DfsPredecessorsFirst`,
`DfsYieldedOnce`, `DfsCompleteOnDAG`, from the assumptions that `NodeOrder`
lists every node and the graphs are functions from nodes to lists of nodes. The
order's properties are inductive together with the fact that yielded nodes are
visited. Completeness needs more: `Pending` says that an unvisited node whose
predecessors have all been visited is still to be offered by some frame of the
stack (the predecessor visited last is on the stack, with the node among its
remaining children), and `Started` that every start before the cursor is
visited. When the stack is empty and the starts are exhausted, an unvisited node
would have an unvisited predecessor, so the unvisited nodes would be a set
without a minimal element, which an acyclic graph does not have.

**PassPipelineProofs**: `PipelineTypeCorrect`, `PipelineResultsFresh`,
`PipelineNoRedundantRun`, `PipelineFixedPoint`, `PipelineTransitivelyFresh`, from
monotone and additive `should_reapply` and acyclic dependencies. `StackChained`
says that each frame is a dependency of the frame below it; with acyclicity no
pass occurs twice on the stack, so a pass cannot be rerun below a frame that is
suspended on it. `FramesCurrent` says that the dependencies a frame has already
checked are still up to date: only analyses run above it, and these modify
nothing. `Tracked` says that what changed since a stored result was computed is
contained in the flags the code has accumulated; monotonicity then turns "the
code sees no reason to reapply" into "there is no reason to reapply".

Fixed points need `Visited` (the passes that the iteration has gone by are all
applied) and `Settled` (while no pass of this iteration has returned anything,
nothing has changed since any applied pass ran), so that an iteration without a
result leaves nothing that a pass has not seen. Transitive freshness needs `Backed`:
whenever an analysis has a stored result, so have those it depends on, and what
makes one of these stale since its own run also does since the run of the
analysis. Additivity is for its induction step: changes accumulate in both
sets of flags, and if the union concerns the dependency then the old or the new
part does.

**ConsumeStreamProofs**: `ConsumeTypeCorrect`, `ConsumeConservation`,
`ConsumeOnce`, `ConsumeDrained`, for any finite sets of threads and elements,
any chunk size, and any counter that can count the elements. `Conservation` is
an equation modulo the counter's width, because the counter may be consumed
below zero before a push is counted; the lemmas at the head of the module are
the modular arithmetic this takes. `Owners` keeps the sets of the threads
disjoint, so that cardinalities of unions add up. `Drained` follows from
`JoinedAtZero`: the last thread to leave sees zero, and then nobody holds or is
pushing anything, so the queue is empty modulo the width, hence empty.

**GridBarrierProofs**: `GridTypeCorrect`, `GridFlagsDownAtEnd`,
`GridLowersOwnRound`, `GridImplementsBarrier`, for any numbers of kernels, blocks,
threads per block and rounds, with kernels smaller and larger than those before,
and blocks placed in any order, all of them or not.
The invariant counts the rounds a block has been through (`Done`), and `InStep`
keeps the threads of a block on the same side of the block's own barriers.
`FlagOfRound` is the heart: the flag of another block is down as long as it
has not reported, and block 0 is in the same round; then it is up until block 0,
already counted a round further, releases it; and down again for as long as the
other block has not gone on.
`Strides` and the lemmas on `%` say that every flag is the business of one
thread of block 0, so that when all threads of block 0 have collected, all flags
are up (`AllCollected`). The refinement follows: a thread that leaves has seen
its flag lowered, hence block 0 has released it, hence all had entered.

**CompiledSDFGProofs**: `CompiledTypeCorrect`, `CompiledNoSharedLibrary`,
`CompiledMappedFileIntact`, `CompiledRunsItsProgram`,
`CompiledSoundUnlessDisturbed`, for any objects, names and numbers of builds and
restarts. `Exclusive`: a library that an object has open is mapped and no
other object has it open, since `load` opens only names that are not mapped.
`Linked`: valid pointers are into a mapped library of the object's program, or
into a copy that may be stale (`CopiesMayBeStale`: a process has ended, or code
is kept). The latter needs `CopiesCurrent`: otherwise a copy has the contents
of what it was copied from, which the code does not see to but the leak
does: a library that was copied was probed, the probe keeps a reference
(`Pinned`), so it stays mapped and `compile` takes another name. `Sound` follows
each object's library, pointers and handle through calls and finalization.

**ProgramCacheProofs**: `CacheTypeCorrect`, `CacheBounded`, `CacheHooksAreOpen`,
`CacheCallIsCurrent`, for any types, variables, values, hooks, addresses and
cache sizes. `HookPlaces`: a hook's identifier is its place in the list, and
places are not moved, so that the ids of a key tell registered hooks from
removed ones although addresses are given out again. `Correct` says what an
entry may be trusted for. Not every entry is the program of its key: `load` adds
entries under keys that were made from the closure of an earlier parse
(`SameConstants` singles out those whose constants are the ones the program
uses). But an entry that can run has them, and a call finds it only under a key
of the same constants.

**DynamicMapProofs**: `DynamicTypeCorrect`, `DynamicUniformExit`,
`DynamicEachOnce`, for any sizes of blocks and warps and any ranges, in every
configuration in which the fine-grained mode has one warp per block (`OneWarp`);
the others are finding 3. `Together` lists the parts of `schedule` that the
threads are in at a time, and for each what the shared words hold and which
elements have been worked: in `Winning(s)` and `Reading(s)` everything that was
handed out but the range of the winner `s`, in `Working(s)` of that range the
elements whose thread is through, and so on. Elements of different ranges
differ, so a step that works on a thread's share adds elements that were not
there, and the bag keeps single copies (`BagFacts`). In the fine-grained part
each thread's elements are placed where the sum of the sizes before it says
(`Place`); `PrefixIsSum` shows that the doubling steps of the warp's prefix sum
compute that sum, by induction over the steps, `SumsOrdered` that no two threads
write the same word, `SumsBounded` that all fit the array, and `SumsCover` that
every word that is read was written. Induction over the naturals is had without
the library's schema: a set of numbers without a least element is empty
(`NatSetInduction`), and `Recursion` gives the functions that recursion defines.

**CudaStreamsProofs**: `TypesAreCorrect`, `ReadersFollowWriters`,
`StatesFollowEachOther`, `ReturnsWithNothingPending`, for any programs, of any
number of states with any number of nodes, and any limit of the streams, from
the assumptions that code and data alternate as in an SDFG
(`ProgramsAssumption`) and that there may be as many streams as a state has
nodes.

The annotation: while it is walked (`Walking`), a visited node has visited
readers or is on the stack with edges left to follow, so that the whole state is
visited in the end (a node that is not would have a writer that is not, and the
least of these cannot); a node that is visited has a stream, and what a single
kernel writes has that kernel's (`Follow`). `FreshOK` counts the streams that
were given out, of which each went to another node when there is no limit.

The execution: an invariant about events that are waiting in queues needs to say
what will have been done when they are through. A *cut* is an amount of
completed work per stream that respects the events, a moment that the GPU may
reach (`Cuts`); work is `Done` in a cut if it is finished or within the
completed part. `Covers(s, w)` says that in every cut in which stream `s` has
done all that is on it now, `w` is done; `Precedes(v, w)` that no cut has `w`
without `v`. Both are kept by every step: the host only adds to the ends of
queues and the GPU only removes possible cuts (`Evolves`). The invariant is then
that the streams of those who read data cover what generated nodes wrote to it
(`EmittedOK`), that the work of earlier states is finished or, when their
synchronization was relaxed, covered by the streams that the state begins with
(`Earlier`), and that whatever work needs precedes it. As what is completed now
is a cut, what precedes finished work is finished. At the end of a state, of the
work that the streams of the sinks might not cover, the last one would have a
reader that comes later or write a sink (`StateIsDone`).

**Only model-checked**: the liveness properties (`Terminates`,
`EventuallyConsumed`, `KernelEnds`, `Returns`), as liveness under fairness and
`ENABLED` are beyond the proof system that is used. All invariants of the
passing runs are proved.

## 6. Not modelled

* Of `sdfg/utils.py`, the other traversals and helpers.
* Of the pipelines, the recursion of `SimplifyPass` into nested SDFGs, its
  reports and validation, the visitor base classes, and serialization.
* Of `stream.h`, blocking pops, `push_try` (its callers decide what a failure
  means), `consume_cond` (its end depends on a predicate of the user) and
  streams that are views of arrays.
* Of compiled programs, argument marshalling, return values, workspaces,
  `safe_call`, and two processes that copy a library at the same time.
* Of the program cache, `recreate_sdfg=False`, methods and their `self`, programs
  nested in others (whose constants are not in the key of the outer one), and
  loading from a missing file; the second list of hooks, of compiled SDFGs.
* Of the GPU runtime, the device streams; errors of CUDA calls in `Setup`;
  dynamic maps over reversed ranges, whose size is negative and compared
  unsigned (`RangesAssumption`).
* Of the GPU code generator, views, library calls, nested SDFGs, dynamic map
  ranges, `nosync` states, the default stream (`max_concurrent_streams` -1),
  loops and branches of states, unpinned memory and the release of memory pools.
* The components marked "no" in section 1: symbolic algebra, graph rewrites and
  translators, whose correctness is the equivalence of programs over unbounded
  data, and input and output. Most of the 270,000 lines of the repository are of
  that kind (frontends, several hundred transformations, library nodes, code
  templates), so that the share of lines that the models stand for is small and
  remains so: what is modelled is the part whose correctness is a matter of
  order and state.

## 7. Plan

Done: all modules of section 2, with proofs of every invariant. What is left:

1. Models of pattern matching over small graphs, of the device streams with a
   small counter width, of the cfg list, and of several processes on one build
   folder.
2. Loops and branches between the states of `CudaStreams`: the order of states
   is a line there, while the relaxed synchronization looks at all states that
   may come next.

A configuration is merged with another of the same module where they ask the
same question, to keep the suite short enough to run after every change.
