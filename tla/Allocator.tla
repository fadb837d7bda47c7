------------------------------- MODULE Allocator -------------------------------
(***************************************************************************)
(* A test program and its allocator.  The program calls the entry points   *)
(* of malloc.c in any order; other code of the same process may move the   *)
(* break too, which sys_alloc and sys_trim are prepared for.               *)
(*                                                                         *)
(* A call is one step: the program has one thread, and the allocator is    *)
(* built without locks.                                                    *)
(***************************************************************************)
EXTENDS MallocChecks

(* What a program may call, and with which arguments: a set of records of  *)
(*   requests    the words it asks of malloc, memalign and valloc          *)
(*   resizes     the words it asks of realloc                              *)
(*   factors     the arguments of calloc                                   *)
(*   alignments  those of memalign and posix_memalign                      *)
(*   lists       the sizes it passes to independent_calloc and _comalloc   *)
(*   pads, limits, options   the arguments of malloc_trim,                 *)
(*               malloc_set_footprint_limit and mallopt                    *)
(*   blocks      bound: blocks in use at once                              *)
(*   taken       words that others took before the first call              *)
(*   foreign     bound: words that others take from the system in all      *)
CONSTANT Programs

(* The arguments are of type size_t.  independent_calloc and _comalloc add *)
(* up what they are asked for without any check, so that a program must    *)
(* not ask for a total that no size_t holds (ialloc, malloc.c:5003).       *)
ASSUME ProgramAssumption ==
    \A p \in Programs :
        /\ p.requests \subseteq size_t /\ p.resizes \subseteq size_t
        /\ p.factors \subseteq size_t /\ p.alignments \subseteq Alignable
        /\ p.pads \subseteq size_t /\ p.limits \subseteq size_t
        /\ p.options \subseteq {"M_TRIM_THRESHOLD", "M_GRANULARITY"} \X size_t
        /\ p.lists \subseteq Seq(0 .. MAX_REQUEST - 1)
        /\ \A sizes \in p.lists :
               offsets(sizes)[Len(sizes) + 1] + request2size(Len(sizes)) < MAX_REQUEST
        /\ p.taken \in 0 .. BrkLimit - Brk0
        /\ p.blocks \in Nat /\ p.foreign \in Nat

VARIABLES
    program,
    gm,                 \* malloc_state, mparams, and the memory they manage
    live,               \* the blocks in use (see AbstractAllocator)
    foreign             \* the words below the break that others obtained

vars == <<program, gm, live, foreign>>

Init ==
    /\ program \in Programs
    /\ foreign = Brk0 .. Brk0 + program.taken - 1
    /\ gm = [InitialState EXCEPT !.brk = Brk0 + program.taken]
    /\ live = [mem \in {} |-> [size |-> 0, held |-> 0, aligned |-> 0, owners |-> 0]]

-------------------------------------------------------------------------------
Room == ~gm.aborted /\ Cardinality(DOMAIN live) < program.blocks

owners(mem) == IF mem \in DOMAIN live THEN live[mem].owners ELSE 0

With(blocks, mem, block) ==
    [a \in DOMAIN blocks \cup {mem} |-> IF a = mem THEN block ELSE blocks[a]]

(* The program writes all of what it is given, at a multiple of aligned.   *)
Granted(mem, n, aligned) ==
    IF mem = NULL THEN live
    ELSE With(live, mem,
              [size |-> n, held |-> n, aligned |-> aligned, owners |-> owners(mem) + 1])

Without(mems) == [mem \in DOMAIN live \ mems |-> live[mem]]

Returns(r, n, aligned) ==
    /\ gm' = r.m
    /\ live' = Granted(r.mem, n, aligned)
    /\ UNCHANGED <<program, foreign>>

Malloc(n) == Room /\ Returns(dlmalloc(gm, n), n, MALLOC_ALIGNMENT)

Free(mem) ==
    /\ ~gm.aborted
    /\ gm' = dlfree(gm, mem)
    /\ live' = Without({mem})
    /\ UNCHANGED <<program, foreign>>

Calloc(n_elements, elem_size) ==
    /\ Room
    /\ Returns(dlcalloc(gm, n_elements, elem_size), n_elements * elem_size, MALLOC_ALIGNMENT)

Smaller(a, b) == IF a < b THEN a ELSE b

(* A block that cannot be had stays as it was; one that moved holds what   *)
(* was copied.                                                             *)
Resized(r, mem, n) ==
    /\ gm' = r.m
    /\ live' = IF r.mem = NULL THEN live
               ELSE With(Without({mem}), r.mem,
                         [size |-> n,
                          held |-> Smaller(live[mem].held, r.copied),
                          aligned |-> MALLOC_ALIGNMENT,
                          owners |-> 1 + owners(r.mem) - (IF r.mem = mem THEN 1 ELSE 0)])
    /\ UNCHANGED <<program, foreign>>

Realloc(mem, n) == ~gm.aborted /\ Resized(dlrealloc(gm, mem, n), mem, n)

ResizedInPlace(r, mem, n) ==
    /\ gm' = r.m
    /\ live' = IF r.mem = NULL THEN live
               ELSE [live EXCEPT ![mem].size = n, ![mem].held = Smaller(@, n)]
    /\ UNCHANGED <<program, foreign>>

ReallocInPlace(mem, n) ==
    ~gm.aborted /\ ResizedInPlace(dlrealloc_in_place(gm, mem, n), mem, n)

(* An alignment that is no power of two is raised to one or refused.       *)
Aligned(alignment) == IF PowerOf2(alignment) THEN alignment ELSE MALLOC_ALIGNMENT

Memalign(alignment, n) ==
    Room /\ Returns(dlmemalign(gm, alignment, n), n, Aligned(alignment))

PosixMemalign(alignment, n) ==
    Room /\ Returns(dlposix_memalign(gm, alignment, n), n, Aligned(alignment))

Valloc(n) == Room /\ Returns(dlvalloc(gm, n), n, PageSize)

Pvalloc(n) == Room /\ Returns(dlpvalloc(gm, n), page_align(n), PageSize)

IndependentReturns(r, sizes) ==
    LET Block(mem, n) == [size |-> n, held |-> n, aligned |-> MALLOC_ALIGNMENT,
                          owners |-> owners(mem) + 1]
        array == IF r.array = NULL THEN live
                 ELSE With(live, r.array, Block(r.array, Len(sizes)))
        after[i \in 0 .. Len(r.mems)] ==
            IF i = 0 THEN array
            ELSE With(after[i - 1], r.mems[i], Block(r.mems[i], sizes[i]))
    IN /\ gm' = r.m
       /\ live' = after[Len(r.mems)]
       /\ UNCHANGED <<program, foreign>>

(* given: the program passes an array for the addresses; otherwise one is  *)
(* allocated, and is a block like the others.                              *)
Independent(sizes, given) ==
    /\ ~gm.aborted
    /\ Cardinality(DOMAIN live) + Len(sizes) + (IF given THEN 0 ELSE 1) <= program.blocks
    /\ IndependentReturns(ialloc(gm, sizes, given), sizes)

(* A sequence of addresses of the program's blocks, NULL among them. *)
BulkFree(array) ==
    /\ ~gm.aborted
    /\ gm' = internal_bulk_free(gm, array)
    /\ live' = Without(Range(array))
    /\ UNCHANGED <<program, foreign>>

-------------------------------------------------------------------------------
Trim(pad) ==
    /\ ~gm.aborted
    /\ gm' = sys_trim(gm, pad)
    /\ UNCHANGED <<program, live, foreign>>

SetFootprintLimit(bytes) ==
    /\ ~gm.aborted
    /\ gm' = dlmalloc_set_footprint_limit(gm, bytes)
    /\ UNCHANGED <<program, live, foreign>>

Mallopt(param_number, val) ==
    /\ ~gm.aborted
    /\ gm' = change_mparam(gm, param_number, val)
    /\ UNCHANGED <<program, live, foreign>>

(* Others move the break up and keep what they get. *)
ForeignSbrk(n) ==
    /\ Cardinality(foreign) + n <= program.foreign
    /\ CanMove(gm, n)
    /\ gm' = MORECORE(gm, n)
    /\ foreign' = foreign \cup (gm.brk .. gm.brk + n - 1)
    /\ UNCHANGED <<program, live>>

(* The arrays of bulk_free: two blocks in use, upwards or downwards in     *)
(* memory, next to each other in the array or with a NULL in between.      *)
BulkArrays ==
    LET pairs == {ab \in (DOMAIN live) \X (DOMAIN live) : ab[1] # ab[2]}
    IN pairs \cup {<<ab[1], NULL, ab[2]>> : ab \in pairs}

Next ==
    \/ \E n \in program.requests : Malloc(n)
    \/ \E mem \in DOMAIN live : Free(mem)
    \/ \E n, e \in program.factors : Calloc(n, e)
    \/ \E mem \in DOMAIN live, n \in program.resizes : Realloc(mem, n)
    \/ \E mem \in DOMAIN live, n \in program.resizes : ReallocInPlace(mem, n)
    \/ \E alignment \in program.alignments, n \in program.requests : Memalign(alignment, n)
    \/ \E alignment \in program.alignments, n \in program.requests : PosixMemalign(alignment, n)
    \/ \E n \in program.requests : program.alignments # {} /\ Valloc(n)
    \/ \E n \in program.requests : program.alignments # {} /\ Pvalloc(n)
    \/ \E sizes \in program.lists, given \in BOOLEAN : Independent(sizes, given)
    \/ \E array \in BulkArrays : program.lists # {} /\ BulkFree(array)
    \/ \E pad \in program.pads : Trim(pad)
    \/ \E bytes \in program.limits : SetFootprintLimit(bytes)
    \/ \E o \in program.options : Mallopt(o[1], o[2])
    \/ \E n \in 1 .. program.foreign : ForeignSbrk(n)

Spec == Init /\ [][Next]_vars

-------------------------------------------------------------------------------
(* Bins hold chunks of the heap, and the bin map says which are not empty. *)
TypeOK ==
    /\ gm.smallmap \subseteq SmallSizes
    /\ gm.smallbins \in [SmallSizes -> Seq(Addr)]
    /\ gm.treebins \in [LargeSizes -> Seq(Addr)]
    /\ gm.dv \in Addr /\ gm.top \in Addr
    /\ gm.dvsize \in size_t /\ gm.topsize \in size_t /\ gm.trim_check \in size_t
    /\ gm.footprint \in size_t /\ gm.max_footprint \in size_t
    /\ gm.footprint_limit \in size_t
    /\ gm.seg \in Seq([base : Addr, size : size_t, record : Addr])
    /\ gm.chunk \in [Addr -> [prev_foot : size_t, size : size_t,
                              cinuse : BOOLEAN, pinuse : BOOLEAN]]
    /\ gm.brk \in Brk0 .. BrkLimit
    /\ live \in [DOMAIN live -> [size : size_t, held : size_t, aligned : size_t, owners : Nat]]
    /\ foreign \subseteq Addr

(* What the code asserts of the heap when it is built for debugging holds  *)
(* after every call: boundary tags agree with their neighbours, free       *)
(* chunks are merged, bins and bin maps say what the heap says.  Its       *)
(* run-time checks in free, realloc and the bins, which abort, never fail  *)
(* in a program that uses the allocator as it should.                      *)
CheckMallocState == ~gm.aborted /\ do_check_malloc_state(gm)

(* A chunk is in use iff the program has it, or it is where add_segment    *)
(* keeps the record of a segment: no memory is lost, none is shared.  And  *)
(* a block is within its chunk, whatever was multiplied to get its size.   *)
InUseAccounted ==
    /\ {q \in all_chunks(gm) : is_inuse(gm, q)}
       = {mem2chunk(mem) : mem \in DOMAIN live}
         \cup {s.record : s \in {t \in Range(gm.seg) : t.record # NULL}}
    /\ \A mem \in DOMAIN live : live[mem].size <= dlmalloc_usable_size(gm, mem)

Words(s) == s.base .. s.base + s.size - 1

(* What lies below the break is either in one segment or somebody else's:  *)
(* nothing obtained is forgotten, nothing is given back that was not the   *)
(* allocator's, and footprint is the sum.  Everything is below the break   *)
(* ("force malloc to use sbrk only", Makefile).                            *)
BreakPartitioned ==
    /\ (UNION {Words(s) : s \in Range(gm.seg)}) \cup foreign = Brk0 .. gm.brk - 1
    /\ gm.footprint + Cardinality(foreign) = gm.brk - Brk0
    /\ gm.footprint = MapThenSumSet(LAMBDA i : gm.seg[i].size, DOMAIN gm.seg)

(* mallinfo and malloc_stats agree with each other and with what is in use.*)
StatisticsAgree ==
    LET info == internal_mallinfo(gm)
        stats == internal_malloc_stats(gm)
    IN /\ info.arena + info.hblkhd = gm.footprint
       /\ info.uordblks + info.fordblks = gm.footprint
       /\ info.uordblks = stats.used
       /\ stats.used = info.hblkhd + SizeOf(gm, {q \in all_chunks(gm) : is_inuse(gm, q)})

(* The allocator keeps the promise of its entry points. *)
Promise == INSTANCE AbstractAllocator WITH Alignment <- MALLOC_ALIGNMENT, blocks <- live
KeepsPromise == Promise!Spec

(* Memory is asked for only when neither a free chunk nor top would do:    *)
(* malloc does not grow the heap while it has what it is asked for.        *)
SystemAskedLast ==
    [][gm'.brk > gm.brk =>
          \A n \in program.requests :
              Malloc(n) =>
                  /\ gm.topsize <= request2size(n)
                  /\ \A q \in all_chunks(gm) :
                         ~is_inuse(gm, q) => chunksize(gm, q) < request2size(n)]_vars

(* do_check_malloced_chunk holds of what malloc returns, from whichever    *)
(* bin, dv, top or the system it comes: a chunk is never so much larger    *)
(* than the request that the rest could be a chunk of its own.             *)
CheckMallocedChunk ==
    [][\A mem \in DOMAIN live' \ DOMAIN live, n \in program.requests :
          Malloc(n) => do_check_malloced_chunk(gm', mem, chunk_size_for(n))]_vars

(* The footprint never grows beyond the limit that is set.                 *)
FootprintLimited ==
    [][gm'.footprint > gm.footprint =>
          gm'.footprint_limit = 0 \/ gm'.footprint <= gm'.footprint_limit]_vars
===============================================================================
