--------------------------------- MODULE Malloc ---------------------------------
(***************************************************************************)
(* The allocator's entry points (malloc.c): malloc, free, calloc, realloc, *)
(* the aligned and the independent allocations, bulk_free, trim, limits,   *)
(* parameters and statistics.  Each is an operator that returns the next   *)
(* state and, where there is one, the address handed out.                  *)
(***************************************************************************)
EXTENDS SysAlloc

(* Where the rest of a divided chunk goes.                                 *)
PutRest(m, where, r, rsize) ==
    CASE where = "bin" -> insert_chunk(m, r, rsize)
      [] where = "dv" -> replace_dv(m, r, rsize)
      [] where = "no dv yet" -> set_dv(m, r, rsize)

(* The rest of the chunk v after nb words is a free chunk of its own.      *)
Divide(m, v, nb, rsize, where) ==
    PutRest(set_size_and_pinuse_of_free_chunk(
                set_size_and_pinuse_of_inuse_chunk(m, v, nb), v + nb, rsize),
            where, v + nb, rsize)

(* Mutant: a rest that would just be a chunk is not split off. *)
TakeChunkWhole(m, v, size, nb, where) ==
    Result(IF size - nb <= MIN_CHUNK_SIZE THEN set_inuse_and_pinuse(m, v, size)
           ELSE Divide(m, v, nb, size - nb, where),
           chunk2mem(v))

(* The chunk v of which nb words are asked for is taken whole if the rest  *)
(* could not be a chunk.                                                   *)
TakeChunk(m, v, size, nb, where) ==
    Result(IF size - nb < MIN_CHUNK_SIZE THEN set_inuse_and_pinuse(m, v, size)
           ELSE Divide(m, v, nb, size - nb, where),
           chunk2mem(v))

TreeSizes(m) == {s \in LargeSizes : m.treebins[s] # <<>>}

(* Mutant: the difference is signed, so that a dv that is too small is preferred. *)
tmalloc_large_signed(m, nb) ==
    LET sizes == {s \in TreeSizes(m) : s >= nb}
        v == Head(m.treebins[Min(sizes)])
    IN IF sizes # {} /\ Min(sizes) - nb < m.dvsize - nb
       THEN TakeChunk(unlink_large_chunk(m, v), v, Min(sizes), nb, "bin")
       ELSE Failure(m)

(* Best fit, unless dv fits better; dvsize - nb wraps if dv is too small.  *)
tmalloc_large(m, nb) ==
    LET sizes == {s \in TreeSizes(m) : s >= nb}
        v == Head(m.treebins[Min(sizes)])
    IN IF sizes # {} /\ Min(sizes) - nb < (m.dvsize - nb) % SizeRange
       THEN TakeChunk(unlink_large_chunk(m, v), v, Min(sizes), nb, "bin")
       ELSE Failure(m)

tmalloc_small(m, nb) ==
    LET size == Min(TreeSizes(m))
        v == Head(m.treebins[size])
    IN TakeChunk(unlink_large_chunk(m, v), v, size, nb, "dv")

(* A small bin that fits: exactly, or the next one, which leaves nothing.  *)
malloc_exact(m, nb) ==
    LET s == IF nb \in m.smallmap THEN nb ELSE nb + 1
        p == Head(m.smallbins[s])
    IN Result(set_inuse_and_pinuse(unlink_first_small_chunk(m, s), p, s), chunk2mem(p))

malloc_small_bin(m, nb) ==
    LET s == Min({i \in m.smallmap : i > nb})
        p == Head(m.smallbins[s])
    IN TakeChunk(unlink_first_small_chunk(m, s), p, s, nb, "dv")

malloc_dv(m, nb) ==
    TakeChunk(no_dv(m), m.dv, m.dvsize, nb, "no dv yet")

malloc_binned(m, nb, small) ==
    IF small THEN
        IF {nb, nb + 1} \cap m.smallmap # {} THEN malloc_exact(m, nb)
        ELSE IF nb <= m.dvsize THEN Failure(m)
        ELSE IF \E i \in m.smallmap : i > nb THEN malloc_small_bin(m, nb)
        ELSE IF TreeSizes(m) # {} THEN tmalloc_small(m, nb)
        ELSE Failure(m)
    ELSE tmalloc_large(m, nb)

chunk_size_for(bytes) ==
    IF bytes <= MAX_SMALL_REQUEST THEN request2size(bytes)
    ELSE IF bytes >= MAX_REQUEST THEN MAX_SIZE_T
    ELSE pad_request(bytes)

malloc_unbinned(m, nb) ==
    IF nb <= m.dvsize THEN malloc_dv(m, nb)
    ELSE IF nb < m.topsize THEN split_top(m, nb)
    ELSE sys_alloc(m, nb)

OrElse(binned, unbinned) == IF binned.mem # NULL THEN binned ELSE unbinned

dlmalloc(m, bytes) ==
    LET nb == chunk_size_for(bytes)
    IN OrElse(malloc_binned(m, nb, bytes <= MAX_SMALL_REQUEST), malloc_unbinned(m, nb))

dlcalloc(m, n_elements, elem_size) == dlmalloc(m, calloc_request(n_elements, elem_size))

-------------------------------------------------------------------------------
TrimIfLarge(m) == IF should_trim(m) THEN sys_trim(m, 0) ELSE m

(* Like dispose_chunk after checking the header; a chunk that is merged    *)
(* into top may cause a trim.                                              *)
dlfree(m, mem) ==
    LET p == mem2chunk(mem)
        next == p + chunksize(m, p)
    IN IF mem = NULL THEN m
       ELSE IF ~(ok_address(m, p) /\ is_inuse(m, p) /\ p < next /\ pinuse(m, next))
       THEN Abort(m)
       ELSE IF next = m.top THEN TrimIfLarge(dispose_chunk(m, p, chunksize(m, p)))
       ELSE dispose_chunk(m, p, chunksize(m, p))

-------------------------------------------------------------------------------
(* Splits the chunk p of the given size after nb words and disposes of the *)
(* rest.                                                                   *)
SplitOff(m, p, size, nb) ==
    dispose_chunk(set_inuse(set_inuse(m, p, nb), p + nb, size - nb), p + nb, size - nb)

(* Extends the chunk p into top, into dv, or into a binned free chunk. *)
extend_into_top(m, p, oldsize, nb) ==
    set_top(set_inuse(Erase(m, m.top), p, nb), p + nb, oldsize + m.topsize - nb)

extend_into_dv(m, p, oldsize, nb) ==
    LET dsize == oldsize + m.dvsize - nb
        r == p + nb
        taken == Erase(m, m.dv)
    IN IF dsize >= MIN_CHUNK_SIZE
       THEN set_dv(set_free_with_pinuse(set_inuse(taken, p, nb), r, dsize, r + dsize), r, dsize)
       ELSE no_dv(set_inuse(taken, p, oldsize + m.dvsize))

(* Mutant: the free chunk stays in its bin. *)
extend_into_free_binned(m, p, next, oldsize, nb) ==
    LET size == oldsize + chunksize(m, next)
    IN IF size - nb < MIN_CHUNK_SIZE THEN set_inuse(Erase(m, next), p, size)
       ELSE SplitOff(Erase(m, next), p, size, nb)

extend_into_free(m, p, next, oldsize, nb) ==
    LET size == oldsize + chunksize(m, next)
        taken == Erase(unlink_chunk(m, next, chunksize(m, next)), next)
    IN IF size - nb < MIN_CHUNK_SIZE THEN set_inuse(taken, p, size)
       ELSE SplitOff(taken, p, size, nb)

(* mem is NULL if the chunk cannot be had in place. *)
try_realloc_chunk(m, p, nb) ==
    LET oldsize == chunksize(m, p)
        next == p + oldsize
        In(m1) == Result(m1, p)
    IN IF ~(ok_address(m, p) /\ is_inuse(m, p) /\ p < next /\ pinuse(m, next))
       THEN Failure(Abort(m))
       ELSE IF oldsize >= nb
       THEN In(IF oldsize - nb >= MIN_CHUNK_SIZE THEN SplitOff(m, p, oldsize, nb) ELSE m)
       ELSE IF next = m.top
       THEN IF oldsize + m.topsize > nb THEN In(extend_into_top(m, p, oldsize, nb)) ELSE Failure(m)
       ELSE IF next = m.dv
       THEN IF oldsize + m.dvsize >= nb THEN In(extend_into_dv(m, p, oldsize, nb)) ELSE Failure(m)
       ELSE IF ~cinuse(m, next) /\ oldsize + chunksize(m, next) >= nb
       THEN In(extend_into_free(m, p, next, oldsize, nb))
       ELSE Failure(m)

(* copied is how much of the old block the program finds in the new one.   *)
Moved(m, mem, copied) == [m |-> m, mem |-> mem, copied |-> copied]

NotMoved(r) == Moved(r.m, r.mem, 0)

Copied(m, oldmem, bytes) ==
    LET oc == chunksize(m, mem2chunk(oldmem)) - CHUNK_OVERHEAD
    IN IF oc < bytes THEN oc ELSE bytes

(* Mutant: frees even if there is no new block. *)
Relocate_freeing(new, oldmem, copied) == Moved(dlfree(new.m, oldmem), new.mem, copied)

(* The block goes from oldmem to the new one, if there is one. *)
Relocate(new, oldmem, copied) ==
    IF new.mem = NULL THEN NotMoved(new)
    ELSE Moved(dlfree(new.m, oldmem), new.mem, copied)

RelocateUnlessInPlace(inplace, oldmem, bytes) ==
    IF inplace.mem # NULL THEN Moved(inplace.m, oldmem, bytes)
    ELSE Relocate(dlmalloc(inplace.m, bytes), oldmem, Copied(inplace.m, oldmem, bytes))

(* In place, otherwise to a new block. *)
dlrealloc(m, oldmem, bytes) ==
    IF oldmem = NULL THEN NotMoved(dlmalloc(m, bytes))
    ELSE IF bytes >= MAX_REQUEST THEN Moved(m, NULL, 0)
    ELSE RelocateUnlessInPlace(
             try_realloc_chunk(m, mem2chunk(oldmem), request2size(bytes)), oldmem, bytes)

InPlace(r, oldmem) == Result(r.m, IF r.mem # NULL THEN oldmem ELSE NULL)

dlrealloc_in_place(m, oldmem, bytes) ==
    IF bytes >= MAX_REQUEST THEN Failure(m)
    ELSE InPlace(try_realloc_chunk(m, mem2chunk(oldmem), request2size(bytes)), oldmem)

-------------------------------------------------------------------------------
(* The first aligned chunk at or after p that leaves none, or a whole      *)
(* chunk, in front of it.                                                  *)
aligned_start(p, alignment) ==
    LET br == mem2chunk(alignment * ((chunk2mem(p) + alignment - 1) \div alignment))
    IN IF br = p \/ br - p >= MIN_CHUNK_SIZE THEN br ELSE br + alignment

GiveBackLeader(m, p0, p, size) ==
    IF p = p0 THEN m
    ELSE dispose_chunk(set_inuse(set_inuse(m, p, size), p0, p - p0), p0, p - p0)

GiveBackTrailer(m, p, size, nb) ==
    Result(IF size > nb + MIN_CHUNK_SIZE THEN SplitOff(m, p, size, nb) ELSE m, chunk2mem(p))

(* The aligned part of what was got, which is long enough for it. *)
AlignWithin(got, alignment, nb) ==
    LET p0 == mem2chunk(got.mem)
        p == aligned_start(p0, alignment)
        size == chunksize(got.m, p0) - (p - p0)
    IN IF got.mem = NULL THEN got
       ELSE GiveBackTrailer(GiveBackLeader(got.m, p0, p, size), p, size, nb)

internal_memalign(m, align, bytes) ==
    LET alignment == effective_alignment(align)
        nb == request2size(bytes)
    IN IF bytes >= MAX_REQUEST - alignment THEN Failure(m)
       ELSE AlignWithin(dlmalloc(m, nb + alignment + MIN_CHUNK_SIZE - CHUNK_OVERHEAD),
                        alignment, nb)

dlmemalign(m, alignment, bytes) ==
    IF alignment <= MALLOC_ALIGNMENT THEN dlmalloc(m, bytes)
    ELSE internal_memalign(m, alignment, bytes)

(* posix_memalign takes powers of two only; it fails without a call for    *)
(* anything else.                                                          *)
dlposix_memalign(m, alignment, bytes) ==
    IF alignment = MALLOC_ALIGNMENT THEN dlmalloc(m, bytes)
    ELSE IF PowerOf2(alignment) /\ bytes <= MAX_REQUEST - alignment
    THEN internal_memalign(m, alignment, bytes)
    ELSE Failure(m)

dlvalloc(m, bytes) == dlmemalign(ensure_initialization(m), PageSize, bytes)
dlpvalloc(m, bytes) == dlmemalign(ensure_initialization(m), PageSize, page_align(bytes))

-------------------------------------------------------------------------------
(* Where the elements of one aggregate chunk begin, and what each holds;   *)
(* the last one absorbs what the aggregate has too much.                   *)
offsets(sizes) ==
    LET at[i \in 1 .. Len(sizes) + 1] ==
            IF i = 1 THEN 0 ELSE at[i - 1] + request2size(sizes[i - 1])
    IN at

(* The aggregate chunk got, cut into one chunk per size and, unless the    *)
(* program gave an array for the addresses, a last chunk for that.         *)
CutUp(m, p, sizes, given) ==
    LET n == Len(sizes)
        at == offsets(sizes)
        whole == chunksize(m, p)
        array == p + at[n + 1]
        used == IF given THEN whole ELSE at[n + 1]
        cut[i \in 0 .. n] ==
            IF i = 0 THEN IF given THEN m
                          ELSE set_size_and_pinuse_of_inuse_chunk(m, array, whole - at[n + 1])
            ELSE set_size_and_pinuse_of_inuse_chunk(
                     cut[i - 1], p + at[i], (IF i = n THEN used ELSE at[i + 1]) - at[i])
    IN [m |-> cut[n],
        mems |-> [i \in 1 .. n |-> chunk2mem(p + at[i])],
        array |-> IF given THEN NULL ELSE chunk2mem(array)]

(* No elements, and the array that is to hold their addresses. *)
NoElements(array) == [m |-> array.m, mems |-> <<>>, array |-> array.mem]

(* independent_calloc and independent_comalloc: one malloc for everything. *)
ialloc(m0, sizes, given) ==
    LET m == ensure_initialization(m0)
        n == Len(sizes)
        contents_size == offsets(sizes)[n + 1]
        array_size == IF given THEN 0 ELSE request2size(n)
        Elements(got) == IF n = 0 \/ got.mem = NULL THEN NoElements(got)
                         ELSE CutUp(got.m, mem2chunk(got.mem), sizes, given)
    IN IF n = 0 /\ given THEN NoElements(Failure(m))
       ELSE Elements(dlmalloc(m, IF n = 0 THEN 0 ELSE contents_size + array_size - CHUNK_OVERHEAD))

-------------------------------------------------------------------------------
(* Mutant: a block that is merged with the one before it is taken for freed. *)
bulk_step_skipping(s, i) ==
    LET p == mem2chunk(s.array[i])
        psize == chunksize(s.m, p)
        next == p + psize
    IN IF s.array[i] = NULL THEN s
       ELSE IF i < Len(s.array) /\ s.array[i + 1] = chunk2mem(next)
       THEN [m |-> set_inuse(Erase(s.m, next), p, psize + chunksize(s.m, next)),
             array |-> [s.array EXCEPT ![i] = NULL, ![i + 1] = NULL]]
       ELSE [m |-> dispose_chunk(s.m, p, psize), array |-> [s.array EXCEPT ![i] = NULL]]

(* One element of bulk_free: a block whose successor in the array is also  *)
(* its successor in memory is merged with it, and freed when that is.      *)
bulk_step(s, i) ==
    LET p == mem2chunk(s.array[i])
        psize == chunksize(s.m, p)
        next == p + psize
    IN IF s.array[i] = NULL THEN s
       ELSE IF ~(ok_address(s.m, p) /\ is_inuse(s.m, p)) THEN [s EXCEPT !.m = Abort(@)]
       ELSE IF i < Len(s.array) /\ s.array[i + 1] = chunk2mem(next)
       THEN [m |-> set_inuse(Erase(s.m, next), p, psize + chunksize(s.m, next)),
             array |-> [s.array EXCEPT ![i] = NULL, ![i + 1] = s.array[i]]]
       ELSE [m |-> dispose_chunk(s.m, p, psize), array |-> [s.array EXCEPT ![i] = NULL]]

internal_bulk_free(m, array) ==
    LET after[i \in 0 .. Len(array)] ==
            IF i = 0 THEN [m |-> m, array |-> array] ELSE bulk_step(after[i - 1], i)
    IN TrimIfLarge(after[Len(array)].m)

-------------------------------------------------------------------------------
(* A limit of 0 is none.  granularity is still 0 if nothing was allocated. *)
dlmalloc_set_footprint_limit(m, bytes) ==
    [m EXCEPT !.footprint_limit =
        IF bytes = MAX_SIZE_T THEN 0 ELSE granularity_align(m, bytes)]

change_mparam(m0, param_number, val) ==
    LET m == ensure_initialization(m0)
    IN CASE param_number = "M_TRIM_THRESHOLD" -> [m EXCEPT !.trim_threshold = val]
         [] param_number = "M_GRANULARITY" ->
                IF val >= PageSize /\ PowerOf2(val) THEN [m EXCEPT !.granularity = val] ELSE m

-------------------------------------------------------------------------------
(* The chunks of a segment, from its base up to top or a fencepost. *)
fencepost(m, q) == m.chunk[q].size = 1 /\ m.chunk[q].cinuse /\ m.chunk[q].pinuse

chunks_of(m, s) ==
    LET walk[q \in Nat] ==
            IF q < s.base \/ q >= s.base + s.size \/ q = m.top \/ fencepost(m, q)
               \/ chunksize(m, q) = 0
            THEN {} ELSE {q} \cup walk[q + chunksize(m, q)]
    IN walk[align_as_chunk(s.base)]

all_chunks(m) == UNION {chunks_of(m, s) : s \in Range(m.seg)}

SizeOf(m, chunks) == MapThenSumSet(LAMBDA q : chunksize(m, q), chunks)

(* Mutant: top is not counted among the free chunks. *)
free_words_binned(m) == SizeOf(m, {q \in all_chunks(m) : ~is_inuse(m, q)})

(* What is free: top with what is reserved behind it, and the free chunks. *)
free_words(m) ==
    m.topsize + TOP_FOOT_SIZE + SizeOf(m, {q \in all_chunks(m) : ~is_inuse(m, q)})

internal_mallinfo(m) ==
    LET sum == m.topsize + TOP_FOOT_SIZE + SizeOf(m, all_chunks(m))
    IN IF ~is_initialized(m)
       THEN [arena |-> 0, ordblks |-> 0, hblkhd |-> 0, usmblks |-> 0, uordblks |-> 0,
             fordblks |-> 0, keepcost |-> 0]
       ELSE [arena |-> sum,
             ordblks |-> 1 + Cardinality({q \in all_chunks(m) : ~is_inuse(m, q)}),
             hblkhd |-> m.footprint - sum, usmblks |-> m.max_footprint,
             uordblks |-> m.footprint - free_words(m), fordblks |-> free_words(m),
             keepcost |-> m.topsize]

internal_malloc_stats(m) ==
    IF ~is_initialized(m) THEN [maxfp |-> 0, fp |-> 0, used |-> 0]
    ELSE [maxfp |-> m.max_footprint, fp |-> m.footprint,
          used |-> m.footprint - (m.topsize + TOP_FOOT_SIZE)
                   - SizeOf(m, {q \in all_chunks(m) : ~is_inuse(m, q)})]

dlmalloc_usable_size(m, mem) == chunksize(m, mem2chunk(mem)) - CHUNK_OVERHEAD
===============================================================================
