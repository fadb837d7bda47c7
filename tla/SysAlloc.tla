-------------------------------- MODULE SysAlloc --------------------------------
(***************************************************************************)
(* The allocator and the system (malloc.c): segments, sys_alloc and        *)
(* sys_trim, as built with HAVE_MMAP=0 ("force malloc to use sbrk only").  *)
(* What the system does is MORECORE: the break can be moved up to BrkLimit.*)
(***************************************************************************)
EXTENDS MallocState

Result(m, mem) == [m |-> m, mem |-> mem]
Failure(m) == Result(m, NULL)

CanMove(m, n) == m.brk + n <= BrkLimit
MORECORE(m, n) == [m EXCEPT !.brk = @ + n]

-------------------------------------------------------------------------------
(* The first nb words of top become a chunk. *)
split_top(m, nb) ==
    Result(set_size_and_pinuse_of_inuse_chunk(
               set_top(m, m.top + nb, m.topsize - nb), m.top, nb),
           chunk2mem(m.top))

(* A new segment that does not continue the one that holds top: what heads *)
(* the list, so far in gm, moves to a record at the end of the old top,    *)
(* fenceposts follow it, and what is left of the old top is binned.        *)
add_segment(m, tbase, tsize) ==
    LET old_top == m.top
        sp == m.seg[segment_holding(m, old_top)]
        old_end == sp.base + sp.size
        asp == align_as_chunk(old_end - (SegmentRecord + 5))
        csp == IF asp < old_top + MIN_CHUNK_SIZE THEN old_top ELSE asp
        m1 == set_size_and_pinuse_of_inuse_chunk(
                  init_top(m, tbase, tsize - TOP_FOOT_SIZE), csp, SegmentRecord)
        m2 == [m1 EXCEPT
                  !.seg = <<[base |-> tbase, size |-> tsize, record |-> NULL],
                            [m.seg[1] EXCEPT !.record = csp]>> \o Tail(m.seg),
                  !.chunk = [a \in Addr |->
                      IF a \in csp + SegmentRecord .. old_end - 2
                      THEN Fencepost ELSE m1.chunk[a]]]
        psize == csp - old_top
    IN IF csp = old_top THEN m2
       ELSE insert_chunk(set_free_with_pinuse(m2, old_top, psize, csp), old_top, psize)

-------------------------------------------------------------------------------
(* sys_alloc, in the order of the code.  What is obtained is a record of   *)
(* the state, the base (NULL if nothing was) and the size.                 *)
Obtained(m, tbase, tsize) == [m |-> m, tbase |-> tbase, tsize |-> tsize]

WithinLimit(m, n) ==
    \/ m.footprint_limit = 0
    \/ LET fp == (m.footprint + n) % SizeRange
       IN fp > m.footprint /\ fp <= m.footprint_limit

(* The first call: at the break, with what it takes to reach a page's end. *)
first_morecore(m, nb, asize) ==
    LET base == m.brk
        ssize == asize + (page_align(base) - base)
    IN IF ssize > nb /\ ssize < HALF_MAX_SIZE_T /\ WithinLimit(m, ssize) /\ CanMove(m, ssize)
       THEN Obtained(MORECORE(m, ssize), base, ssize)
       ELSE Obtained([m EXCEPT !.noncontiguous = TRUE], NULL, 0)

(* Mutant: when the second call fails, what the first one got is kept. *)
extend_partial_keeping(m, nb, br, ssize) ==
    LET esize == granularity_align(m, nb + SYS_ALLOC_PADDING - ssize)
    IN IF ~(ssize < nb + SYS_ALLOC_PADDING /\ esize < HALF_MAX_SIZE_T)
       THEN Obtained(m, br, ssize)
       ELSE IF CanMove(m, esize)
       THEN Obtained(MORECORE(m, esize), br, ssize + esize)
       ELSE Obtained([m EXCEPT !.noncontiguous = TRUE], NULL, 0)

(* The break was not where top ends: somebody else moved it.  What was got *)
(* lacks the words that the old top was to contribute.                     *)
extend_partial(m, nb, br, ssize) ==
    LET esize == granularity_align(m, nb + SYS_ALLOC_PADDING - ssize)
    IN IF ~(ssize < nb + SYS_ALLOC_PADDING /\ esize < HALF_MAX_SIZE_T)
       THEN Obtained(m, br, ssize)
       ELSE IF CanMove(m, esize)
       THEN Obtained(MORECORE(m, esize), br, ssize + esize)
       ELSE Obtained([MORECORE(m, -ssize) EXCEPT !.noncontiguous = TRUE], NULL, 0)

next_morecore(m, nb) ==
    LET ssize == granularity_align(m, nb - m.topsize + SYS_ALLOC_PADDING)
        ss == m.seg[segment_holding(m, m.top)]
        br == m.brk
    IN IF ~(ssize < HALF_MAX_SIZE_T /\ CanMove(m, ssize))
       THEN Obtained([m EXCEPT !.noncontiguous = TRUE], NULL, 0)
       ELSE IF br = ss.base + ss.size
       THEN Obtained(MORECORE(m, ssize), br, ssize)
       ELSE extend_partial(MORECORE(m, ssize), nb, br, ssize)

noncontiguous_morecore(m, nb, asize) ==
    IF ~(asize < HALF_MAX_SIZE_T /\ CanMove(m, asize)) THEN Obtained(m, NULL, 0)
    ELSE IF asize > nb + TOP_FOOT_SIZE THEN Obtained(MORECORE(m, asize), m.brk, asize)
    ELSE Obtained(MORECORE(m, asize), NULL, 0)

contiguous_morecore(m, nb, asize) ==
    IF m.noncontiguous THEN Obtained(m, NULL, 0)
    ELSE IF is_initialized(m) THEN next_morecore(m, nb)
    ELSE first_morecore(m, nb, asize)

(* New memory becomes the first segment, or the continuation of the one    *)
(* that holds top, or a segment of its own.  It never ends where a segment *)
(* begins (prepend_alloc): the break is above all of them.                 *)
install(o) ==
    LET fp == o.m.footprint + o.tsize
        m == [o.m EXCEPT !.footprint = fp,
                         !.max_footprint = IF fp > @ THEN fp ELSE @]
        i == SelectInSeq(m.seg, LAMBDA s : s.base + s.size = o.tbase)
        lowest(m1) ==
            [m1 EXCEPT !.least_addr = IF @ = 0 \/ o.tbase < @ THEN o.tbase ELSE @]
    IN IF ~is_initialized(m) THEN
           init_top([lowest(m) EXCEPT
                        !.seg = <<[base |-> o.tbase, size |-> o.tsize, record |-> NULL]>>],
                    o.tbase, o.tsize - TOP_FOOT_SIZE)
       ELSE IF i # 0 /\ i = segment_holding(m, m.top) THEN
           init_top([m EXCEPT !.seg[i].size = @ + o.tsize], m.top, m.topsize + o.tsize)
       ELSE add_segment(lowest(m), o.tbase, o.tsize)

split_new_top(m, nb) == IF nb < m.topsize THEN split_top(m, nb) ELSE Failure(m)

split_obtained(o, nb) == IF o.tbase = NULL THEN Failure(o.m) ELSE split_new_top(install(o), nb)

try_noncontiguous(o, nb, asize) ==
    IF o.tbase # NULL THEN o ELSE noncontiguous_morecore(o.m, nb, asize)

obtain(m, nb, asize) ==
    try_noncontiguous(contiguous_morecore(m, nb, asize), nb, asize)

(* Mutant: the limit is not looked at. *)
sys_alloc_unlimited(m0, nb) ==
    LET m == ensure_initialization(m0)
        asize == granularity_align(m, nb + SYS_ALLOC_PADDING)
    IN IF asize <= nb THEN Failure(m) ELSE split_obtained(obtain(m, nb, asize), nb)

sys_alloc(m0, nb) ==
    LET m == ensure_initialization(m0)
        asize == granularity_align(m, nb + SYS_ALLOC_PADDING)
    IN IF asize <= nb \/ ~WithinLimit(m, asize) THEN Failure(m)
       ELSE split_obtained(obtain(m, nb, asize), nb)

-------------------------------------------------------------------------------
(* What sys_trim can give back: whole units of top, keeping one, and only  *)
(* if the break is where the allocator left it.                            *)
releasable(m, pad) ==
    LET unit == m.granularity
        sp == m.seg[segment_holding(m, m.top)]
    IN IF m.brk = sp.base + sp.size
       THEN ((m.topsize - pad + (unit - 1)) \div unit - 1) * unit
       ELSE 0

(* The state after it; whether something was released is footprint' <      *)
(* footprint.                                                              *)
sys_trim(m0, pad0) ==
    LET m == ensure_initialization(m0)
        pad == pad0 + TOP_FOOT_SIZE
        released == IF m.topsize > pad THEN releasable(m, pad) ELSE 0
        i == segment_holding(m, m.top)
    IN IF pad0 >= MAX_REQUEST \/ ~is_initialized(m) THEN m
       ELSE IF released # 0 THEN
           init_top([MORECORE(m, -released) EXCEPT !.seg[i].size = @ - released,
                                                   !.footprint = @ - released],
                    m.top, m.topsize - released)
       ELSE IF m.topsize > m.trim_check THEN [m EXCEPT !.trim_check = MAX_SIZE_T]
       ELSE m

should_trim(m) == m.topsize > m.trim_check
===============================================================================
