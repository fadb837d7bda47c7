------------------------------ MODULE MallocChecks ------------------------------
(***************************************************************************)
(* do_check_malloc_state and what it calls (malloc.c): the checks of the   *)
(* whole heap that the code has for debugging and the build leaves out     *)
(* (DEBUG is 0).  Here they are predicates on the state.                   *)
(***************************************************************************)
EXTENDS Malloc

do_check_any_chunk(m, p) ==
    (p % MALLOC_ALIGNMENT = 0 \/ fencepost(m, p)) /\ ok_address(m, p)

do_check_top_chunk(m, p) ==
    LET i == segment_holding(m, p)
        sz == chunksize(m, p)
    IN /\ i # 0
       /\ do_check_any_chunk(m, p)
       /\ sz = m.topsize
       /\ sz > 0
       /\ sz = m.seg[i].base + m.seg[i].size - p - TOP_FOOT_SIZE
       /\ pinuse(m, p)
       /\ ~pinuse(m, p + sz)

do_check_inuse_chunk(m, p) ==
    /\ do_check_any_chunk(m, p)
    /\ is_inuse(m, p)
    /\ pinuse(m, p + chunksize(m, p))
    /\ pinuse(m, p) \/ LET prev == p - m.chunk[p].prev_foot
                       IN prev \in Addr /\ prev + chunksize(m, prev) = p

do_check_free_chunk(m, p) ==
    LET sz == chunksize(m, p)
        next == p + sz
    IN /\ do_check_any_chunk(m, p)
       /\ ~is_inuse(m, p)
       /\ ~pinuse(m, next)
       /\ p # m.dv /\ p # m.top =>
              /\ sz >= MIN_CHUNK_SIZE
              /\ sz % MALLOC_ALIGNMENT = 0
              /\ p % MALLOC_ALIGNMENT = 0
              /\ m.chunk[next].prev_foot = sz
              /\ pinuse(m, p)
              /\ next = m.top \/ is_inuse(m, next)

do_check_malloced_chunk(m, mem, s) ==
    LET p == mem2chunk(mem)
        sz == chunksize(m, p)
    IN mem # NULL =>
           /\ do_check_inuse_chunk(m, p)
           /\ sz % MALLOC_ALIGNMENT = 0
           /\ sz >= MIN_CHUNK_SIZE
           /\ sz >= s
           /\ sz < s + MIN_CHUNK_SIZE

(* A bin holds free chunks of its size, each once; it is marked iff it     *)
(* holds any (do_check_smallbin asks for one direction only).              *)
do_check_smallbin(m, i) ==
    /\ m.smallbins[i] = <<>> => i \notin m.smallmap
    /\ i \in m.smallmap =>
           \A p \in Range(m.smallbins[i]) :
               /\ do_check_free_chunk(m, p)
               /\ chunksize(m, p) = i
               /\ ~fencepost(m, p + i) => do_check_inuse_chunk(m, p + i)

do_check_treebin(m, s) ==
    \A p \in Range(m.treebins[s]) :
        /\ do_check_any_chunk(m, p)
        /\ chunksize(m, p) = s
        /\ s >= MIN_LARGE_SIZE
        /\ ~is_inuse(m, p)
        /\ ~pinuse(m, p + s)

bin_find(m, x) ==
    LET size == chunksize(m, x)
    IN IF is_small(size)
       THEN size \in m.smallmap /\ Contains(m.smallbins[size], x)
       ELSE Contains(m.treebins[size], x)

traversal_check(m, s) ==
    LET chunks == chunks_of(m, s)
    IN /\ pinuse(m, align_as_chunk(s.base))
       /\ \A q \in chunks :
              IF is_inuse(m, q)
              THEN ~bin_find(m, q) /\ do_check_inuse_chunk(m, q)
              ELSE /\ q = m.dv \/ bin_find(m, q)
                   /\ do_check_free_chunk(m, q)
                   /\ \A r \in chunks : r + chunksize(m, r) = q => is_inuse(m, r)

do_check_malloc_state(m) ==
    /\ \A i \in SmallSizes : do_check_smallbin(m, i)
    /\ \A s \in LargeSizes : do_check_treebin(m, s)
    /\ m.dvsize # 0 =>
           /\ do_check_any_chunk(m, m.dv)
           /\ m.dvsize = chunksize(m, m.dv)
           /\ m.dvsize >= MIN_CHUNK_SIZE
           /\ ~bin_find(m, m.dv)
    /\ m.top # NULL => do_check_top_chunk(m, m.top) /\ ~bin_find(m, m.top)
    /\ is_initialized(m) =>
           /\ \A i \in DOMAIN m.seg : traversal_check(m, m.seg[i])
           /\ m.topsize + TOP_FOOT_SIZE + SizeOf(m, all_chunks(m)) <= m.footprint
    /\ m.footprint <= m.max_footprint
===============================================================================
