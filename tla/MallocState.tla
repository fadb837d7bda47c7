------------------------------ MODULE MallocState ------------------------------
(***************************************************************************)
(* struct malloc_state and the chunks it manages (malloc.c): boundary      *)
(* tags, bins, and what frees a chunk.  A function of the code that        *)
(* changes the state is an operator from a state m to the next one.        *)
(*                                                                         *)
(* Memory is what the allocator has written into it: m.chunk maps an       *)
(* address to the header of the chunk there, or to NoChunk.  A header that *)
(* was merged away is erased, and so is a prev_foot that became payload:   *)
(* the program may have overwritten them.  Reading either is then an error *)
(* that the checks see, and not the lucky old value.                       *)
(*                                                                         *)
(* A bin is a sequence of chunks.  The trees of large chunks are used here *)
(* by their contract (TreeBins shows that they keep it): per size a queue, *)
(* and the least size that fits is found.                                  *)
(***************************************************************************)
EXTENDS MallocSizes, SequencesExt

CONSTANTS
    Brk0,               \* the break when the program starts, not 0
    BrkLimit,           \* how far the break can be moved (bound of the instance)
    DEFAULT_TRIM_THRESHOLD

ASSUME BreakAssumption ==
    /\ Brk0 \in Nat \ {0} /\ BrkLimit \in Nat /\ Brk0 < BrkLimit
    /\ BrkLimit < HALF_MAX_SIZE_T
    /\ DEFAULT_TRIM_THRESHOLD \in size_t

(* That a tree bin is a queue per size is so for sizes that its index      *)
(* keeps apart (see TreeBins), which the code does not check.              *)
ASSUME IndexAssumption == BrkLimit <= IndexRange

Addr == 0 .. BrkLimit
NULL == 0
NoChunk == [prev_foot |-> 0, size |-> 0, cinuse |-> FALSE, pinuse |-> FALSE]
Fencepost == [prev_foot |-> 0, size |-> 1, cinuse |-> TRUE, pinuse |-> TRUE]

SmallSizes == MIN_CHUNK_SIZE .. MIN_LARGE_SIZE - 1
LargeSizes == MIN_LARGE_SIZE .. BrkLimit

(* gm, all zero, with mparams, and the break.  aborted: ABORT was called. *)
InitialState ==
    [smallmap |-> {}, smallbins |-> [s \in SmallSizes |-> <<>>],
     treebins |-> [s \in LargeSizes |-> <<>>],
     dv |-> NULL, dvsize |-> 0, top |-> NULL, topsize |-> 0,
     least_addr |-> 0, trim_check |-> 0,
     footprint |-> 0, max_footprint |-> 0, footprint_limit |-> 0,
     noncontiguous |-> FALSE, seg |-> <<>>,
     granularity |-> 0, trim_threshold |-> 0,
     chunk |-> [a \in Addr |-> NoChunk], brk |-> Brk0, aborted |-> FALSE]

ensure_initialization(m) ==
    IF m.granularity # 0 THEN m
    ELSE [m EXCEPT !.granularity = PageSize, !.trim_threshold = DEFAULT_TRIM_THRESHOLD]

is_initialized(m) == m.top # NULL
Abort(m) == [m EXCEPT !.aborted = TRUE]

granularity_align(m, S) == align_up(S, m.granularity)

segment_holding(m, a) ==
    SelectInSeq(m.seg, LAMBDA s : a >= s.base /\ a < s.base + s.size)

-------------------------------------------------------------------------------
(* Headers *)
chunksize(m, p) == m.chunk[p].size
cinuse(m, p) == m.chunk[p].cinuse
pinuse(m, p) == m.chunk[p].pinuse
is_inuse(m, p) == m.chunk[p].cinuse \/ ~m.chunk[p].pinuse
ok_address(m, a) == a >= m.least_addr

Header(s, c, p) == [prev_foot |-> 0, size |-> s, cinuse |-> c, pinuse |-> p]

Erase(m, p) == [m EXCEPT !.chunk[p] = NoChunk]

set_pinuse(m, n) == [m EXCEPT !.chunk[n].pinuse = TRUE, !.chunk[n].prev_foot = 0]

set_inuse(m, p, s) ==
    set_pinuse([m EXCEPT !.chunk[p].size = s, !.chunk[p].cinuse = TRUE], p + s)

set_size_and_pinuse_of_inuse_chunk(m, p, s) ==
    [m EXCEPT !.chunk[p] = Header(s, TRUE, TRUE)]

set_inuse_and_pinuse(m, p, s) ==
    set_pinuse(set_size_and_pinuse_of_inuse_chunk(m, p, s), p + s)

set_size_and_pinuse_of_free_chunk(m, p, s) ==
    [m EXCEPT !.chunk[p] = Header(s, FALSE, TRUE), !.chunk[p + s].prev_foot = s]

set_free_with_pinuse(m, p, s, n) ==
    set_size_and_pinuse_of_free_chunk([m EXCEPT !.chunk[n].pinuse = FALSE], p, s)

-------------------------------------------------------------------------------
(* Bins.  Small chunks are put in and taken out at the front. *)
insert_small_chunk(m, P, S) ==
    [m EXCEPT !.smallbins[S] = IF S \in m.smallmap THEN <<P>> \o @ ELSE <<P>>,
              !.smallmap = @ \cup {S}]

out_of_bin(bin, P) == RemoveAt(bin, SelectInSeq(bin, LAMBDA c : c = P))

(* A chunk that is in no bin has no valid links: the run-time checks see it. *)
unlink_small_chunk(m, P, S) ==
    IF S \notin SmallSizes \/ ~Contains(m.smallbins[S], P) THEN Abort(m)
    ELSE LET rest == out_of_bin(m.smallbins[S], P)
         IN [m EXCEPT !.smallbins[S] = rest,
                      !.smallmap = IF rest = <<>> THEN @ \ {S} ELSE @]

unlink_first_small_chunk(m, S) == unlink_small_chunk(m, Head(m.smallbins[S]), S)

insert_large_chunk(m, X, S) == [m EXCEPT !.treebins[S] = Append(@, X)]

unlink_large_chunk(m, X) ==
    LET S == chunksize(m, X)
    IN IF S \notin LargeSizes \/ ~Contains(m.treebins[S], X) THEN Abort(m)
       ELSE [m EXCEPT !.treebins[S] = out_of_bin(@, X)]

insert_chunk(m, P, S) ==
    IF is_small(S) THEN insert_small_chunk(m, P, S) ELSE insert_large_chunk(m, P, S)

unlink_chunk(m, P, S) ==
    IF is_small(S) THEN unlink_small_chunk(m, P, S) ELSE unlink_large_chunk(m, P)

set_dv(m, P, S) == [m EXCEPT !.dv = P, !.dvsize = S]
no_dv(m) == set_dv(m, NULL, 0)

replace_dv(m, P, S) ==
    set_dv(IF m.dvsize # 0 THEN insert_small_chunk(m, m.dv, m.dvsize) ELSE m, P, S)

-------------------------------------------------------------------------------
set_top(m, p, psize) ==
    [m EXCEPT !.top = p, !.topsize = psize, !.chunk[p] = Header(psize, FALSE, TRUE)]

(* Resetting the top puts a fake trailing chunk behind it; the old one is  *)
(* no header any more.                                                     *)
init_top(m, p, psize) ==
    LET q == align_as_chunk(p)
        size == psize - align_offset(p)
        m1 == IF is_initialized(m) THEN Erase(m, m.top + m.topsize) ELSE m
    IN [set_top(m1, q, size) EXCEPT
            !.chunk[q + size] = Header(TOP_FOOT_SIZE, FALSE, FALSE),
            !.trim_check = m.trim_threshold]

(* Consolidates the chunk p with free neighbours and bins it.  prev is the *)
(* chunk below it if that is free.                                         *)
ConsolidateForward(m, p, psize, next) ==
    IF cinuse(m, next) THEN
        insert_chunk(set_free_with_pinuse(m, p, psize, next), p, psize)
    ELSE IF next = m.top THEN
        LET merged == set_top(Erase(m, next), p, m.topsize + psize)
        IN IF p = m.dv THEN no_dv(merged) ELSE merged
    ELSE IF next = m.dv THEN
        LET dsize == m.dvsize + psize
        IN set_dv(set_size_and_pinuse_of_free_chunk(Erase(m, next), p, dsize), p, dsize)
    ELSE
        LET nsize == chunksize(m, next)
            size == psize + nsize
            merged == set_size_and_pinuse_of_free_chunk(
                          Erase(unlink_chunk(m, next, nsize), next), p, size)
        IN IF p = m.dv THEN set_dv(merged, p, size) ELSE insert_chunk(merged, p, size)

dispose_chunk(m, p, psize) ==
    LET next == p + psize
        prevsize == m.chunk[p].prev_foot
        prev == p - prevsize
        size == psize + prevsize
    IN IF pinuse(m, p) THEN
           IF ok_address(m, next) THEN ConsolidateForward(m, p, psize, next) ELSE Abort(m)
       ELSE IF ~ok_address(m, prev) THEN Abort(m)
       ELSE IF prev # m.dv THEN
           ConsolidateForward(Erase(unlink_chunk(m, prev, prevsize), p), prev, size, next)
       ELSE IF cinuse(m, next) /\ pinuse(m, next) THEN
           set_free_with_pinuse(set_dv(Erase(m, p), prev, size), prev, size, next)
       ELSE ConsolidateForward(Erase(m, p), prev, size, next)
===============================================================================
