# Models of ubiquitous-goggles

ubiquitous-goggles is a stochastic superoptimizer: it searches for a short
sequence of x86 instructions that computes the same as a given function.  This
directory holds TLA+ models of its core, the TLC configurations that check them
on small instances, and proofs of their main properties that TLAPS checks.

## 1. The system

Two programs run side by side.

* The **server** is the user's testcase, linked with `server.c`.  Every call of
  the target function goes through `spawn_impl`, which forks a **worker**: a
  snapshot of the process in the state in which the target was called.  The
  parent goes on, runs the target, and copies the state it left (stack, heap,
  return registers) to memory it shares with the worker.  A worker waits for
  that copy, then listens on a socket; for each path it is sent it forks a
  **child**, which loads the library at that path, runs the rewrite in it and
  reports the distance of its state from the target's.
* **ug** is the search.  It connects to all workers (`ReplayClient`), keeps one
  candidate, the *rewrite* (`Transformation`), edits it at random, has every
  worker test it, and accepts or undoes the edit (`Searcher`).

| component | state | operations | interacts with |
|---|---|---|---|
| `Transformation` (transform.cpp/h) | the basic block, the instructions on the heap, `NumInstrs`, undo state | seven proposals, `Undo`, `Accept`, `select`, `doSwap` | called by the searcher |
| Rewriting strategy (search.cpp `transformRewrite`) | none | draw a proposal by the rewrite's size | calls `Transformation` |
| `Searcher` (search.cpp/h) | `cost`, `bestCorrect`, `bestCorrectCost`, the loop | `synthesize`, `optimize`, `calculateCost` | calls `Transformation`, `ReplayClient` |
| `ReplayClient` (replay_cli.cpp/h) | the sockets, the library of the test | constructor, `testRewrite`, destructor | worker file, sockets, libraries |
| Server (server.c) | `invo`, the semaphores, the workers and their children | `spawn_impl` (parent, worker, child), signal handler | worker file, sockets, libraries |
| `Instrumenter` (mf_instrument.cpp/h) | register buffer layout | `dumpRegisters`, `protectRTFrame`, `instrumentToReturn` | adds code to a rewrite before it is compiled |
| Server generator (create-server.cpp) | an LLVM module | `createServer` | puts `spawn_impl` in front of the target |
| Compiler (mf_compiler.cpp/h) | none | object files from machine code | LLVM |
| Driver (ug.cpp) | none | builds and starts the server, sleeps, runs the search | all of the above |
| Allocator (malloc.c, built with sbrk only) | segments, `top`, `dv`, small bins, tries of large chunks, footprint and its limit | `malloc`, `free`, `realloc` and their relatives, trim, limits, parameters | every test program, whose heap `server.c` takes as the range it compares; sbrk |
| test cases, Makefile | | sample programs, build | |

What is hard about it:

* *Undo in place.*  The block is edited through raw pointers and iterators whose
  targets are cloned, deleted and recycled, and one set of undo fields serves
  eight kinds of edits (`transform.cpp:82`).
* *A count kept by hand.*  `NumInstrs` is apart from the list, and random
  selection advances an iterator by it (`transform.cpp:126`).
* *Measure, decide, then remember.*  What is measured, what is kept and what is
  remembered as best are three rewrites that must not be confused
  (`search.cpp:154-183`).
* *Three processes per test without message framing.*  Requests and responses are
  matched by order only, two processes write to the same socket, and crashes
  are reported by another process than successes (`server.c:298-314`).
* *Start-up without synchronization.*  The client sleeps for a second and then
  reads a file that the server may still be writing (`ug.cpp:122`).
* *Processes that must end* although nobody waits for them.
* *A rewrite that runs in the process that judges it.*  The code around it saves
  and restores its arguments, makes the server's frame read-only and leaves by
  `siglongjmp` (`mf_instrument.cpp:160`, `server.c:171`).
* *A heap described by bits in its own blocks.*  Free chunks are merged, split,
  binned and sorted into tries whose nodes are the chunks (`malloc.c:3725`,
  `malloc.c:4358`), and the system may refuse memory, or give it to others.

What makes each component correct: the block is a list of live, distinct
instructions; undo restores it exactly; nothing leaks; the rewrite's size is
bounded; the cost belongs to the rewrite that is kept; a crash is never kept; what
is handed from `synthesize` to `optimize` and from there to the user has passed
the tests; a response belongs to the test and the worker it is taken for; nothing is compared
with a reference that is not there yet; every test is answered; every worker ends;
the response is what the rewrite, and not the code around it, did; a block of memory has
one owner and keeps what it holds.

## 2. Modules

| module | models | |
|---|---|---|
| `AbstractTransformation` | what `Transformation` promises | a rewrite, the one before the proposal, whether a proposal is open |
| `InstrList` | LLVM's instruction list, `replaceInst` | operators only |
| `Transformation` | transform.cpp/h | implements `AbstractTransformation` |
| `Rewriter` | `Searcher::transformRewrite` | extends `Transformation`, chooses among its actions |
| `Searcher` | search.cpp and the end of `main` | extends `AbstractTransformation`, of which it is a client |
| `Wire` | worker file, sockets, libraries | what server and client share |
| `Server` | server.c | extends `Wire` |
| `ReplayClient` | replay_cli.cpp | extends `Wire` |
| `AbstractReplay` | what `ReplayClient` promises | |
| `Replay` | `Server` and `ReplayClient` side by side | implements `AbstractReplay` |
| `Instrumenter` | mf_instrument.cpp, `instrument` of the client, and the frame, copies and distances of server.c | one child, instruction by instruction |
| `MallocSizes` | sizes, alignments, padding | arithmetic modulo the width of `size_t` |
| `MallocState` | `struct malloc_state`, boundary tags, bins, `dlfree` | extends `MallocSizes`; operators from a state to the next |
| `SysAlloc` | segments, `sys_alloc`, `sys_trim` | extends `MallocState` |
| `Malloc` | the entry points | extends `SysAlloc` |
| `MallocChecks` | `do_check_malloc_state` and what it calls | predicates on the state |
| `AbstractAllocator` | what the entry points promise a program | |
| `Allocator` | a program that calls them, and others that move the break | extends `MallocChecks`, implements `AbstractAllocator` |
| `AbstractTreeBins` | large bins as a queue per size | |
| `TreeBins` | the tries of large chunks | implements `AbstractTreeBins` |
| `MC*` | instances for TLC | |
| `Induction` | | lemmas: recursive functions, sums over sets, walks |
| `HeapProofs` | | what each operation of `Malloc` and `SysAlloc` does to a well-formed heap |
| `TransformationProofs` (with `Rewriter`), `SearcherProofs`, `ReplayProofs`, `InstrumenterProofs`, `AllocatorProofs`, `TreeBinsProofs` | proofs | |

Definitions whose comment begins with "Mutant:" are faulty variants of the
definition below them.  No specification uses them: putting one
in the place of the original must make TLC find a named property violated, which
shows that the property would notice that mistake.

### Transformation

`block` is the list of the addresses of the block's instructions and `heap` says
what each address holds; what is not live may be handed out again by the next
allocation.  An iterator is an address or `End`.  Addresses and instructions are
separate because the undo state (`Old`, `New`, `NextLoc`, `Swapped1`, `Swapped2`)
holds addresses: a clone says the same and is not the same.  There is one action
per proposal, each the whole function, with its early return as
`ProposeNothing`; `Undo` has one disjunct per case of the `switch`, including the
fall-through of `MOVE` to `DELETE`.  What an instruction says is a model value;
the sets `OpcodeChanges[i]` and `OperandChanges[i]` are what `MutateOpcode` and
`MutateOperand` may turn it into.  The class asserts (and aborts) when `Move` is
called on an empty block; `Move` has no step there, and the search never calls it so:
`transformRewrite` inserts into an empty rewrite (`Rewriter`).  `pending` and `before` are history: the client's
obligation to settle each proposal, and what Undo has to restore.

`getNextNode` of the last instruction is the sentinel.  In LLVM 3.7.1 this is what
the build gives (its test for the end reads the field behind the sentinel's half
node, which holds the parent block); with a null pointer there, undoing a move of
the last instruction would be a wild insertion.

### Rewriter

A draw is `0 .. 100` for `rand()`, both ends included, as in the code.  The
probabilities are integers of hundredths; rounding is modelled where it decides
something: `1 - pu` is rounded up to a float, so at `NumInstrs = MaxInstrs` the
largest draw still chooses `Replace` and not `Insert`.

### Searcher

An iteration is two steps, the proposal and its settlement, so that the state in
between can be seen.  The rewrites are model values with a latency and a set of
possible outcomes of a test; a test outcome is a vector of responses, and
`calculateCost` is computed on it as in the code.  `UINT` is the width of costs.
Random acceptance is a free choice where the probability is neither 0 nor 1.
`maxCosts` enumerates `cost - log(r)/beta`, the undefined conversion at `r = 0`
included.  `kept` and `passed` are history.

### Server, ReplayClient, Replay

Each process has its program counter; a step is what happens between two points
at which another process can see something.  The streams are sequences of
messages, which `MessageBoundaries` justifies.  Distances are not modelled here:
a child reports, crashes, or cannot load its library (`Crashes` says which).  `Faults`
switches the things that may go wrong: `"early"` (the client wakes before the
server is ready), `"socket"` (a worker's socket, bind or listen fails),
`"compile"` (`cc` leaves no library), `"fork"` (a fork fails: of a worker,
which the parent does not notice, or of a child, which leaves `retval`
uninitialised and the worker's answer open).

### Instrumenter

A test is a rewrite, its target, the frame pointer of `spawn_impl` in this worker and in
`Workers[0]` (`test.first`), and the type of the result.  `code` is what
`ReplayClient::instrument` and `mf_instrument.cpp` make of the rewrite; the child
runs it one instruction per action.  Memory is words, a distance counts bits, and a
call leaves anything (`Junk`) in the registers.  `frame_begin` is the page
above the boundary, `mprotect` works on whole pages, and `crash` is the signal the
worker reports.  Because it covers whole pages, `_server_spawn_worker` allocates a
placeholder of a page between the frames of the testcase and that of `spawn_impl`: the testcase's
words begin at `stack_pointer`, above the placeholder and the words of the linkage (`Linkage`: saved
registers and return addresses).  `Writable` is what the code of a test may store to: its own frames below
`stack_boundary`, the testcase's from `stack_pointer` on, and the heap.  Targets do
(`TargetAssumption`), rewrites may store anywhere.  `calculateRegBufferLayout` and the dump have the offsets of the code;
`output_dist` is the relaxed comparison of server.c, which forgives a result in another
register.  The target is a sequence of the same instructions run by itself, because
server.c runs it uninstrumented.

### The allocator

The unit is the word of eight bytes.  `gm` is one record with what the code has in
`_gm_` and `mparams` and with the headers in memory; a function of the code that
changes them is an operator from a record to the next, named as in the code, so that
each of `Allocator`'s actions, one per entry point, is the whole call.  A header that
was merged away, or a `prev_foot` that became payload, is erased, so that reading it
later is seen as an error.  `live` is what the program has (size, how much of it holds what was
written, alignment, owners), `foreign` what other code took from the system.
The arithmetic wraps at `2^SizeWidth`, as in `tmalloc_large`, whose test relies on it.
A failing check of the code (`USAGE_ERROR_ACTION`, `CORRUPTION_ERROR_ACTION`)
sets `aborted`.

`MallocState` keeps large chunks as one queue per size.  `TreeBins` has the tries with
their root, child, parent and ring pointers, the shifts that sort a size into them,
insertion, the replacement of an unlinked node by a leaf and both searches, and shows
that they are those queues.

## 3. Runs

| run | bounds | shows |
|---|---|---|
| `transformation` | 5 addresses, 2 instructions, one of them without operands, steps from blocks of at most 4 (`RoomLeft`) | type, well-formed block, valid undo state, `Restoration`, no leak, `select` ends, undo restores, also when `MutateOperand` ends as a NOP after it replaced the instruction; the contract is implemented |
| `rewriter` | `MaxInstrs` 3, 5 addresses | size bounded |
| `searcher` | 5 rewrites, 2 tests, 4 iterations of `optimize` | cost and kept rewrite agree, crashes are never kept, hand-over, best cost, protocol, end of `optimize` |
| `searcher_best` | the same, 3 iterations | **violated**: the final rewrite need not be correct |
| `replay` | 3 workers, 4 invocations, 2 tests; faults but `fork` | the client keeps its promise; every test is answered; connected workers end |
| `replay_faults` | the same, all faults | reference before comparison, message boundaries, libraries, no orphans |
| `replay_connect` | 2 workers, `early` | **violated**: connecting may fail |
| `replay_kill` | 2 workers, `early` | **violated**: a late worker outlives the destructor |
| `replay_fork` | 2 workers, `fork` | **violated**: a test may never be answered |
| `instrumenter` | pages of 4 words, frames at 3 places in a page, rewrites of up to 2 instructions, 3 targets, 4 result types | a response says exactly how the rewrite by itself compares with the target, and one that keeps to the testcase's words is a crash just when it traps; no rewrite reaches the server's frame |
| `allocator` | heap of 8 pages of 8 words, chunks of 4 to 14 words, six programs, at most 3 blocks at once | the code's own checks of the heap, nothing lost or shared, the break accounted for, statistics, the contract, best use of free memory, the limit |
| `tree_bins` | 8 chunks in 4 bins, tries of up to 4 levels, requests on both sides of `IndexRange` | tries are well formed, every chunk is found, queues, best fit |

Why the bounds are enough.  *Transformation*: an edit touches at most two
instructions and one neighbour; five addresses leave room for a block of three
and both clones of a swap, and for every proposal on a block of four that needs one
address or none; a block of five is checked but not edited.
The proofs drop the bound.  *Rewriter*: three is the least size at which a rewrite can be empty, partly
full and full with two instructions to swap.  *Searcher*: five rewrites give every
order of latency and cost that the two loops distinguish; a wrong rewrite with a
lower cost than a correct one, and a longer correct one, are among them.
*Replay*: three workers give a first, a middle and a last in each of the client's
loops; the fourth invocation is beyond `MAX_WORKER`; the second test shows what
the first leaves behind.  *Instrumenter*: the frame pointers lie at the
start of a page, one word and three words into it (16, 17, 19), and the testcase's words begin at 21, 22 and
24; the stores go to the frame, to the linkage and the placeholder in its page and in
the next one, to the testcase's words and to the heap.  *Allocator*: chunks of 4 to 15 words are small, 16 and more
large; each program (`MCAllocator`) brings the calls of one family, in any order, and starts or
proceeds with foreign words where the break matters: eight pages are enough for two segments, a failed `sbrk`, a
second call after a failed one, and a trim.  Addresses are 8 bits wide, so that products
and `dvsize - nb` wrap.  *TreeBins*: the last bin is unbounded and takes its first digit
from the top bit; four levels give a node with two, one and no children below
the one that is replaced, with and without ring.  An unsigned int has three bits, so that sizes from 256
words lose digits: the requests 300 and 400 are looked for in the first bin and in the last.

Deadlock is checked for `rewriter` and `tree_bins`, which never stop.  The others may:
instructions without operands leak until the addresses are used up (a path of `MutateOperand` that no
supported opcode takes, and that `transformation` has all the same), the search ends, the
processes exit, the child ends, or a program has used up memory and blocks and has nothing
left to call.

Fairness.  `Searcher` is one thread that never waits for itself: weak fairness of
its next-state relation.  It says nothing of `synthesize`, which may search for ever.
In `Replay` each process has weak fairness: the operating system
schedules it, and each blocking call (`sem_wait`, `accept`, `read`, `waitpid`,
`recv`) returns once it can.  That a child ends rests on rewrites having neither
branches nor calls (`chooseNonBranchOpcode`); that compiling ends, on `cc`.

### Disagreements between code and comments

1. `search.cpp:178`: `optimize` copies the rewrite *after* the decision, so a
   correct rewrite that is not accepted makes the incorrect one that is restored
   the "final optimized rewrite".  `SynthesizedIsCorrect` and `BestCostAchieved`
   hold: input and best cost are right, only the copy is wrong.
2. `replay_cli.cpp:48`: a worker's line is written before it listens; a client
   that is early exits, though "establishing connection with the server" is its
   first responsibility.
3. `replay_cli.cpp:173`: "kill all the workers" reaches those whose lines were
   there when the file was read.
4. `server.c:310`: after a failed fork the worker reads an uninitialised `retval`
   and may answer nothing; the client has no timeout.

Other behaviour of the code that the models have, and that no run is about:

* `replay_cli.cpp:137`: rewrites are instrumented with the frame of `Workers[0]`, a
  FIXME says; `ResponseExact` and `RuntimeFrameKept` are therefore about
  the workers with that frame, and what happens in others is in the model but promised by nobody.
* `server.c:171`: the frame is not rounded up to pages, `mprotect` does round: words
  above the frame pointer in its page become read-only.  These are linkage and placeholder
  (`server.c:353`) and never the testcase's, so no correct rewrite is a crash for it; `ResponseExact` says so.
* `malloc.c:2835`: `compute_tree_index` keeps the size in units of 256 bytes in an unsigned
  int.  A free chunk of 2^40 bytes or more may lose its leading digits: one of 2^40 lands in bin 0, where the
  bound asserted at `malloc.c:3306` fails, and a request of 2^39 does not find it.  The operator truncates as the
  code does, and the models assume that no chunk is that large (`ChunkAssumption`, `IndexAssumption`);
  requests may be.
* `malloc.c:4891`: for an alignment above the largest power of two the loop wraps to 0 and never ends.
  Programs are assumed not to ask for one (`Alignable`).
* `malloc.c:5354`: `malloc_set_footprint_limit(0)` sets no limit where a least limit
  is meant, for want of an `else`; before the first allocation the granularity is
  not set and every limit is rounded to 0 (5359).  The model does the same.
* `mf_instrument.cpp`: a rewrite that never writes the result is compared by what
  `mprotect` left in `RAX`.  (For a result of 16 bits `getReturnRegs` gives `AL`, half of
  it; that is not in the instance.)

## 4. Proofs

*Assumptions.*  `InstrAssumption`: `End` is no address, `Free` no instruction, and
mutations stay within `Instr`.  `MaxInstrsAssumption`: `MaxInstrs` is positive.
`SearcherAssumption`: types of the constants, latencies within `UINT`.
`CostAssumption`: the distances and penalties of one rewrite's tests add up to less
than `UINT`, which the code does not check.  `SizeAssumption`, `PowerAssumption`, `BreakAssumption`: widths and sizes,
what a power of two is (the provers do not know), and that memory is less than half of what `size_t` can count.
`UnsignedAssumption` does the same for the width of unsigned int, and `IndexAssumption` and `ChunkAssumption` say that
memory and chunks are below `IndexRange`, which is 2^40 bytes in the build: the code relies on it and does not check it.
`ProgramAssumption`: a program's arguments are of type `size_t`, it asks for alignments that there are (`Alignable`), and it does not ask
`independent_comalloc` for a total that none can hold, which `ialloc` does not check.
`InstrumenterAssumption`, `BodyAssumption`, `TargetAssumption`: types, room on the stack for what a rewrite pushes and
for the placeholder, and that a target, which is part of the program under test, stores only where a test may.
`TreeAssumption`: finitely many chunks of even, large sizes below the range of `size_t`, requests of that type, and an even
number of bins for which `size_t` has the digits (32 for 32 or 64 bits in the code).
TLC evaluates all of them.

*TransformationProofs.*  The inductive invariant is
`TypeOK /\ BlockWellFormed /\ UndoStateValid /\ Restoration`.  `BlockWellFormed`
alone is not inductive: after a bad `Undo` the block would be anything.
`UndoStateValid` says where the undo fields point, so that `Undo` is a well-formed
edit; `Restoration` says that the list they describe, read with the heap as it is
now, is what the block said before the proposal, which is what `UndoRestores` and
the refinement need.  The module begins with what `insert`, `removeFromParent` and
`replaceInst` do to elements and order.  One lemma per proposal shows that it establishes
`Restoration`, one per case of `Undo` that it lands there.
From the invariant: `TypeCorrect`, `BlockAlwaysWellFormed`, `UndoStateAlwaysValid`,
`RestorationAlwaysPossible`, `SelectAlwaysTerminates` (for any block of two or more there
is another place to draw), `UndoAlwaysRestores`, and `ContractImplemented` (each step of `Transformation` is a
step of `AbstractTransformation` or a stutter).

`NothingLeaks`: `NoLeak` speaks of the time between
proposals only; the invariant adds that while one is open, an instruction alive outside
the block is the one the undo state names.

The strategy, at the end of the same module: `SizeAlwaysBounded`, for every `MaxInstrs`.  A full rewrite may
shrink by a deletion and grow back when it is undone; the invariant adds that an
open deletion leaves room for that, and `FullIsNotExtended` that no pair of draws
inserts at `MaxInstrs`.

*SearcherProofs.*  `SearchInv` relates the iteration's two halves (`pending` exactly between
them), the kept rewrite and `cost`, and `passed`.  From it `SearchTypeCorrect`, `CostAlwaysCurrent`, `CrashIsNeverKept`,
`SynthesizedAlwaysCorrect`, `BestCostAlwaysAchieved` and `TransformationUsed`.  What a cost tells of the
tests (`OutcomeFacts`: zero only if all were passed, below the penalty only if none crashed) is an induction over the sum.

Together `ContractImplemented` and `TransformationUsed` join the two halves: the
class implements the contract that the search, as its client, follows.

*ReplayProofs.*  `ReplayInv` has, per worker, what its program counter, its child, its two
streams and the client's place in its loop say of each other.  Its core is a token:
between the client's send and its receipt of the answer there is at most one (after a failed fork, none)
of a request in the stream, a worker or child at work on it, and a response in the stream.  `MessageBoundaries` and
`LibraryKept` are not inductive without it: a second message is excluded only because
the client has not gone on.  From it `ReplayTypeCorrect`,
`ReferenceAlwaysPublished`, `MessagesNeverRunTogether`, `LibraryAlwaysKept` and
`NobodyOrphaned`, for any number of workers, invocations and tests and with all faults.

`PromiseKept`: server and client implement `AbstractReplay`.  It needs
that no fork fails (a failed one leaves the answer open; run `replay_fork`);
the other faults may happen.  To `ReplayInv` it adds that the token carries the
verdict on the current test in that worker, and that what the client has
collected so far is the verdicts of the workers before it.

*InstrumenterProofs.*  `RuntimeFrameKeptAlways` and `ResponseExactAlways`, for any page size,
frames, heap, rewrites, targets and return types.  The code of an
instrumented rewrite is a sequence of parts at fixed places, and `FrameInv` says what
the child's program counter tells of it: where the stack pointer is, what the argument registers of the two
calls of `mprotect` hold, which words are read-only, and that no word of the server's
frame has changed.  The last two depend on the first two, and on the page that `stack_boundary`
leaves between what is pushed and what is protected.  That what is protected is none of the testcase's words
(`PlaceholderSeparates`) rests on the placeholder: rounding up to a page goes less than a page beyond the frame
pointer.  `TestInv` adds what the response rests on: the six
arguments are on the stack until they are popped, so that the rewrite begins in the registers of the call; it
then goes through the states it would go through by itself (`Simulates`), in
the registers it may count on and above the frame's locals, unless it traps or writes to a protected
page; its result stays in `RAX` until it is dumped, and then at the place of the
dump that no other register shares (`LayoutFacts`, by induction over the registers);
and four bits decide a word (`BitsDecide`), so that the three distances are 0 together
just when registers, stack and heap agree.

*Induction.*  The library's induction theorems take an operator as a parameter, which the
provers cannot instantiate.  Here induction is a fact about sets of naturals
(`SetInduction`, from the library's `NatLessThanWellFounded`), so that it can be cited like any other:
what a recursive function is (`Recursion`), that its values stay in a set (`StaysIn`),
and that a sum over a finite set, as the community modules fold it, is 0 only if every term is (`SumZero`)
and counts the members of sets that are apart (`SumUnion`); and what a recursive walk from word to word comes by (`WalkIs`).

*HeapProofs and AllocatorProofs.*  Every property of the run `allocator` is a theorem: for any
memory, page and `size_t`, any programs that may call the entry points in any order, and
anybody else who moves the break.  The properties are far from inductive: that blocks
do not overlap rests on every boundary tag of the heap.  The invariant (`InvAlways`) is
`program \in Programs /\ Holds(gm, live, foreign)`, which says that there is a *layout*, a function from
the first word of every chunk to its size, such that

* the segments are in order, the chunks fill them, each begins where the last one
  ends, and top ends before its foot (`Segs`, `Layout`);
* the headers agree with it: size, `cinuse`, the `pinuse` of the next chunk, and the `prev_foot` there if
  the chunk is free (`Tags`); no two free chunks are neighbours (`Apart`);
* the free chunks but dv and top are in the bin of their size, once (`Bins`), and dv and top are what the
  state says (`DvOK`, `TopOK`);
* the chunks in use are the program's blocks and the segments' records (`HeapOf`), each
  large enough, aligned and with one owner (`LiveOK`);
* every word below the break is in one segment or somebody else's, and the footprint counts the former (`Accounts`).

In the course of a call the heap is broken: `Hole` is a heap in which the headers of
some chunks are still to be written and some chunks are in no bin.  One lemma per
primitive says which of these it opens or closes (`HoleUsed`, `HoleBinned`, `HoleJoin`, `HoleCut`,
`HoleToFree`, `HolePut`, ...), and each operation of the code is a sequence of them that ends in a heap (`Settles`).
`dispose_chunk` with the cases of the chunks before and behind, the three ways to resize a chunk in place,
`add_segment` and `independent_calloc` took most of the work.
What the operations are to the program is said by `Goes` (which chunks are left, which keep their size, that the
footprint stays within its limit), and a call is a step of `AbstractAllocator` by
`OpStep`.  From the invariant: `TypeOKAlways`, `CheckMallocStateAlways`, `InUseAccountedAlways` (the walk through the
segments, as the code does it, comes by the chunks of the layout), `BreakPartitionedAlways` and `StatisticsAgreeAlways` (by
counting the words of the chunks), `KeepsPromiseAlways`,
`SystemAskedLastAlways` (a free chunk that fits would have been found), `CheckMallocedChunkAlways` and `FootprintLimitedAlways`.
`ChunkHoldsRequest` and `CallocNeverWraps` are about the arithmetic of requests modulo any width of `size_t`.

*TreeBinsProofs.*  Every property of the run `tree_bins` is a theorem, for any finite set of chunks below `IndexRange`, requests of any
size, any widths of `size_t` and unsigned int and any number of bins.  None is inductive: whether a leaf may replace a node
that is unlinked depends on the digits of every size below it.  The invariant (`TreeInvariance`) is
`TypeOK /\ \E lvl, Q : Tries(lvl) /\ Rings(Q)`:

* `Tries`: there is a level for each node such that a child has all the digits its parent has up to the parent's level, and
  then the one that leads to it.  So what is below a place in a trie is exactly the sizes that begin with the digits of the
  place, whoever stands there, and no two nodes have one size;
* `Rings`: there is a queue for each size; the chunks of it are linked in that order, both ways, and the
  oldest, and it alone, is a node.

The argument begins with numbers: the code shifts a size to the left and looks at the
top bit, the proofs speak of the digits of a size below the two that its bin fixes (`IndexFacts`, `KeyBits`,
`KeyStep`; `IndexKept` says that the truncation leaves a size below the bound as it is), and sizes are ordered as their first different digits (`PrefixLess`).  The walks of the code are
recursive functions over the links, which might have cycles; they are functions anyway (`WalkAll`),
which lets a proof unfold one step, and in a trie each step uses up a digit.
`DescentFinds` and `DescentHits` say where the descent to a size ends; `InsertKeeps` follows.
For `unlink_large_chunk`, `Replacement` is what its first half leaves, whether a chunk of the ring or the rightmost leaf
is to take the place; `PlaceTaken` is the second half, `PlaceEmptied` the case of a node without either, and `UnlinkKeeps` joins them.
For the searches, `LeftmostPath` says that the leftmost path comes by the least size below a
node, `SizedPath` that after the descent by the digits of the request the best seen and the last right subtree passed by
hold what is needed, and `BestLarge` and `BestSmall` that the result is the least size that is enough.  The remainders
wrap: the start value `-nb` is larger than any remainder, and one that is not enough is larger still.
A request beyond the bound has the index of a smaller size (`AnyIndex`): wherever the search begins, no chunk is large enough, and
it ends with nothing (`TooLargeNone`).
From these: `TreebinsAlwaysCheck` (the assertions of `do_check_tree`), `ChunksAlwaysFound`,
`AllocationBestFit`, and `QueuesImplemented`, the refinement of `AbstractTreeBins`: `Q` is the state it maps to.
`Allocator` takes a large bin as a list per size; this theorem is why it may.

*Only model-checked*: liveness (`OptimizeEnds`, `TestAnswered`,
`ConnectedWorkersEnd`) and the absence of deadlock where a run checks it, which need fairness or ENABLED; this prover does neither.
Every other property of a passing run is a theorem above.

## 5. Not modelled

* `create-server.cpp` and `mf_compiler.cpp` are sequences of LLVM calls without state of
  their own; what they produce is what `Server` and `Instrumenter` run, and that compiling
  may fail is a fault of `Replay`.  The walk over the target's uses
  (`create-server.cpp:240`) depends on LLVM's lists.
* Of `malloc.c`: what the Makefile's `HAVE_MMAP=0` and single thread leave out (mmap,
  `prepend_alloc`, which sbrk never reaches, mspaces, locks), footers,
  `PROCEED_ON_ERROR`, `inspect_all`, and `release_unused_segments`, which without
  `munmap` releases nothing.
* Of `transform.cpp`: which opcode or operand is drawn (`buildOpcodeClasses`,
  `randOperand`).  The draw is free, within the changes the constants allow.
* In `Instrumenter`: high-byte and floating-point registers, results of 16 bits.
* What the C library and the loader leave on stack and heap (the worker file is written
  through stdio, a library is loaded on the heap that is compared), and `ss_flags`
  of the signal stack, which is never initialised.
* Workers killed by a third party: `recv` then gives nothing, and the next `send` raises SIGPIPE.
* Test cases are data; `Makefile` is the build.

The hazards of PROJECT.json name the lines where these matter.

## 6. Plan

Done: `Transformation`, `Rewriter`, `Searcher`, `Server`, `ReplayClient`, `Replay`,
`Instrumenter`, the allocator with `TreeBins`, their abstract specifications, and the proofs of section 4.

Left, in this order:

1. Workers killed from outside in `Replay`.
2. `OpcodeClasses` and `OperandMutation`: `buildOpcodeClasses` as the construction of a
   partition; `randOperand` and the two-address rule, where
   `getOperandConstraint` gives -1, which is true, for an operand that is not tied.
3. `CreateServer`, given a model of LLVM's use lists.
