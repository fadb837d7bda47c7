------------------------------ MODULE HeapProofs ------------------------------
(***************************************************************************)
(* The heap of src/malloc.c, for every value of the constants: what each   *)
(* operation of Malloc and SysAlloc does to a well-formed heap.            *)
(*                                                                         *)
(* A heap is described by a layout z, a function from the first word of    *)
(* every chunk (top included) to its size.  Heap says that the segments    *)
(* are in order (Segs), that the chunks fill them (Layout), that the       *)
(* headers agree with the layout (Tags), that no two free chunks are       *)
(* neighbours (Apart), that bins, dv and top hold exactly the free chunks  *)
(* (Bins, DvOK, TopOK) and that every segment but the first has its record *)
(* (Records).  In the course of a call it is broken in a controlled way:   *)
(* Hole is a heap where some headers are still to be written and some      *)
(* chunks are in no bin.  Sys is the allocator between two calls: a heap,  *)
(* or none yet, with accounts (Accounts) that balance.                     *)
(***************************************************************************)
EXTENDS MallocChecks, Induction, SequenceTheorems, FiniteSetTheorems

-------------------------------------------------------------------------------
(* Numbers.                                                                *)
Even(n) == n % 2 = 0

(* Sums and differences of even numbers are even. *)
LEMMA EvenSum ==
  ASSUME NEW a \in Int, NEW b \in Int, Even(a)
  PROVE  /\ Even(b) <=> Even(a + b)
         /\ Even(b) <=> Even(a - b)
         /\ Even(b) <=> Even(b - a)
BY DEF Even

(* What the assumptions say of the width of size_t and of its powers of 2. *)
LEMMA SizeFacts ==
  /\ SizeWidth \in Nat /\ SizeWidth >= 6
  /\ SizeRange \in Nat /\ SizeRange >= 64 /\ Even(SizeRange)
  /\ Unchecked \in Nat /\ Unchecked * Unchecked <= SizeRange
  /\ \A k \in 0 .. SizeWidth : 2^k \in Nat \ {0}
  /\ \A j, k \in 0 .. SizeWidth : j <= k => 2^j <= 2^k
  /\ \A k \in 1 .. SizeWidth : Even(2^k)
<1> DEFINE p(k) == 2^k
<1>1. p(0) = 1 /\ \A k \in 0 .. SizeWidth : p(k + 1) = 2 * p(k)
  BY PowerAssumption
<1>2. SizeWidth \in Nat /\ SizeWidth >= 6
  BY SizeAssumption
<1> HIDE DEF p
<1> DEFINE T == {k \in 0 .. SizeWidth : p(k) \in Nat \ {0} /\ \A j \in 0 .. k : p(j) \in Nat /\ p(j) <= p(k)}
<1>3. \A k \in 0 .. SizeWidth : k \in T
  <2>1. 0 \in T
    BY <1>1, <1>2
  <2>2. ASSUME NEW k \in 1 .. SizeWidth, k - 1 \in T PROVE k \in T
    <3>1. p(k) = 2 * p(k - 1)
      <4>1. k - 1 \in 0 .. SizeWidth /\ k = (k - 1) + 1
        BY <1>2
      <4> QED  BY <4>1, <1>1
    <3>2. p(k - 1) \in Nat \ {0} /\ \A j \in 0 .. k - 1 : p(j) \in Nat /\ p(j) <= p(k - 1)
      BY <2>2
    <3>3. p(k) \in Nat \ {0}
      BY <3>1, <3>2
    <3>4. ASSUME NEW j \in 0 .. k PROVE p(j) \in Nat /\ p(j) <= p(k)
      <4>1. j = k \/ j \in 0 .. k - 1
        BY <1>2
      <4> QED  BY <4>1, <3>1, <3>2, <3>3
    <3> QED  BY <3>3, <3>4
  <2> HIDE DEF T
  <2> QED  BY <1>2, <2>1, <2>2, IntervalInduction
<1>4. \A k \in 1 .. SizeWidth : p(k) = 2 * p(k - 1) /\ p(k - 1) \in Nat
  <2>1. \A k \in 1 .. SizeWidth : k - 1 \in 0 .. SizeWidth /\ k = (k - 1) + 1
    BY <1>2
  <2> QED  BY <1>1, <1>3, <2>1
<1>5. p(1) = 2 /\ p(2) = 4 /\ p(3) = 8 /\ p(4) = 16 /\ p(5) = 32 /\ p(6) = 64
  BY <1>1, <1>2, <1>4
<1>6. \A k \in 1 .. SizeWidth : Even(p(k))
  BY <1>4 DEF Even
<1>7. p(6) <= p(SizeWidth) /\ p(SizeWidth) \in Nat /\ Even(p(SizeWidth))
  BY <1>2, <1>3, <1>6
<1>8. \A j, k \in 0 .. SizeWidth : j <= k => p(j) <= p(k)
  BY <1>2, <1>3
<1>9. \A k \in 0 .. SizeWidth : p(k) \in Nat \ {0}
  BY <1>3
<1> QED  BY <1>2, <1>5, <1>6, <1>7, <1>8, <1>9, SizeAssumption DEF p, SizeRange

-------------------------------------------------------------------------------
(* The types of the state, field by field.                                 *)
HeaderSet == [prev_foot : size_t, size : size_t, cinuse : BOOLEAN, pinuse : BOOLEAN]
SegmentSet == [base : Addr, size : size_t, record : Addr]

State ==
    [smallmap : SUBSET SmallSizes, smallbins : [SmallSizes -> Seq(Addr)],
     treebins : [LargeSizes -> Seq(Addr)],
     dv : Addr, dvsize : size_t, top : Addr, topsize : size_t,
     least_addr : Addr, trim_check : size_t,
     footprint : size_t, max_footprint : size_t, footprint_limit : size_t,
     noncontiguous : BOOLEAN, seg : Seq(SegmentSet),
     granularity : size_t, trim_threshold : size_t,
     chunk : [Addr -> HeaderSet], brk : Addr, aborted : BOOLEAN]

(* What two states may have in common.                                     *)
SameSystem(m, n) ==
    /\ n.least_addr = m.least_addr /\ n.trim_check = m.trim_check
    /\ n.footprint = m.footprint /\ n.max_footprint = m.max_footprint
    /\ n.footprint_limit = m.footprint_limit /\ n.noncontiguous = m.noncontiguous
    /\ n.seg = m.seg /\ n.granularity = m.granularity
    /\ n.trim_threshold = m.trim_threshold /\ n.brk = m.brk /\ n.aborted = m.aborted
SameBins(m, n) ==
    n.smallmap = m.smallmap /\ n.smallbins = m.smallbins /\ n.treebins = m.treebins
SameDv(m, n) == n.dv = m.dv /\ n.dvsize = m.dvsize
SameTop(m, n) == n.top = m.top /\ n.topsize = m.topsize

(* A state changed in one of its parts only.                               *)
WithChunks(m, h) == [m EXCEPT !.chunk = h]
WithTop(m, p, s) == [m EXCEPT !.top = p, !.topsize = s]
WithBins(m, sm, sb, tb) == [m EXCEPT !.smallmap = sm, !.smallbins = sb, !.treebins = tb]

(* Only the headers change, *)
LEMMA WithChunksFacts ==
  ASSUME NEW m \in State, NEW h \in [Addr -> HeaderSet]
  PROVE  /\ WithChunks(m, h) \in State /\ WithChunks(m, h).chunk = h
         /\ SameSystem(m, WithChunks(m, h)) /\ SameBins(m, WithChunks(m, h))
         /\ SameDv(m, WithChunks(m, h)) /\ SameTop(m, WithChunks(m, h))
BY DEF WithChunks, State, SameSystem, SameBins, SameDv, SameTop

(* only top, *)
LEMMA WithTopFacts ==
  ASSUME NEW m \in State, NEW p \in Addr, NEW s \in size_t
  PROVE  /\ WithTop(m, p, s) \in State
         /\ WithTop(m, p, s).top = p /\ WithTop(m, p, s).topsize = s
         /\ WithTop(m, p, s).chunk = m.chunk
         /\ SameSystem(m, WithTop(m, p, s)) /\ SameBins(m, WithTop(m, p, s))
         /\ SameDv(m, WithTop(m, p, s))
BY DEF WithTop, State, SameSystem, SameBins, SameDv

(* only dv, *)
LEMMA SetDvFacts ==
  ASSUME NEW m \in State, NEW p \in Addr, NEW s \in size_t
  PROVE  /\ set_dv(m, p, s) \in State
         /\ set_dv(m, p, s).dv = p /\ set_dv(m, p, s).dvsize = s
         /\ set_dv(m, p, s).chunk = m.chunk
         /\ SameSystem(m, set_dv(m, p, s)) /\ SameBins(m, set_dv(m, p, s))
         /\ SameTop(m, set_dv(m, p, s))
BY DEF set_dv, State, SameSystem, SameBins, SameTop

(* only the bins. *)
LEMMA WithBinsFacts ==
  ASSUME NEW m \in State, NEW sm \in SUBSET SmallSizes, NEW sb \in [SmallSizes -> Seq(Addr)],
         NEW tb \in [LargeSizes -> Seq(Addr)]
  PROVE  /\ WithBins(m, sm, sb, tb) \in State
         /\ WithBins(m, sm, sb, tb).smallmap = sm /\ WithBins(m, sm, sb, tb).smallbins = sb
         /\ WithBins(m, sm, sb, tb).treebins = tb /\ WithBins(m, sm, sb, tb).chunk = m.chunk
         /\ SameSystem(m, WithBins(m, sm, sb, tb)) /\ SameDv(m, WithBins(m, sm, sb, tb))
         /\ SameTop(m, WithBins(m, sm, sb, tb))
BY DEF WithBins, State, SameSystem, SameDv, SameTop

(* The numbers the allocator is built with.                                *)
LEMMA Small ==
  /\ Brk0 \in Nat \ {0} /\ BrkLimit \in Nat /\ Brk0 < BrkLimit
  /\ MAX_SIZE_T \in Nat /\ MAX_SIZE_T = SizeRange - 1
  /\ HALF_MAX_SIZE_T \in Nat /\ 2 * HALF_MAX_SIZE_T <= MAX_SIZE_T
  /\ BrkLimit < HALF_MAX_SIZE_T
  /\ Addr = 0 .. BrkLimit /\ size_t = 0 .. MAX_SIZE_T /\ Addr \subseteq size_t
  /\ MIN_CHUNK_SIZE = 4 /\ SegmentRecord = 6 /\ TOP_FOOT_SIZE = 10 /\ NULL = 0
  /\ NoChunk \in HeaderSet /\ Fencepost \in HeaderSet
  /\ 0 \in Addr /\ 0 \in size_t
  /\ MAX_REQUEST = SizeRange - 16 /\ CHUNK_OVERHEAD = 1 /\ MALLOC_ALIGNMENT = 2
  /\ SYS_ALLOC_PADDING = 12
<1>1. SizeRange \in Nat /\ SizeRange >= 64
  BY SizeFacts
<1>2. MAX_SIZE_T \in Nat /\ MAX_SIZE_T = SizeRange - 1
  BY <1>1 DEF MAX_SIZE_T
<1>3. HALF_MAX_SIZE_T \in Nat /\ 2 * HALF_MAX_SIZE_T <= MAX_SIZE_T
  BY <1>2 DEF HALF_MAX_SIZE_T
<1>4. MIN_CHUNK_SIZE = 4 /\ SegmentRecord = 6 /\ TOP_FOOT_SIZE = 10 /\ NULL = 0
      /\ CHUNK_OVERHEAD = 1 /\ MALLOC_ALIGNMENT = 2 /\ SYS_ALLOC_PADDING = 12
      /\ MAX_REQUEST = SizeRange - 16
  BY <1>1 DEF MIN_CHUNK_SIZE, SegmentRecord, TOP_FOOT_SIZE, NULL, CHUNK_OVERHEAD, MALLOC_ALIGNMENT,
              SYS_ALLOC_PADDING, MAX_REQUEST
<1>5. Addr = 0 .. BrkLimit /\ size_t = 0 .. MAX_SIZE_T
  BY DEF Addr, size_t
<1>6. Addr \subseteq size_t /\ 0 \in Addr /\ 0 \in size_t /\ 1 \in size_t
  BY <1>1, <1>2, <1>3, <1>5, BreakAssumption
<1>7. NoChunk \in HeaderSet /\ Fencepost \in HeaderSet
  BY <1>6 DEF NoChunk, Fencepost, HeaderSet
<1> QED  BY <1>1, <1>2, <1>3, <1>4, <1>5, <1>6, <1>7, BreakAssumption

(* The least large size, and which sizes are small. *)
LEMMA LargeFacts ==
  /\ MIN_LARGE_SIZE \in Nat /\ MIN_LARGE_SIZE >= 8 /\ Even(MIN_LARGE_SIZE)
  /\ MIN_LARGE_SIZE * 2 <= SizeRange
  /\ MAX_SMALL_REQUEST = MIN_LARGE_SIZE - 3
  /\ \A s \in Nat : s >= 4 => (s \in SmallSizes <=> is_small(s))
  /\ \A s \in Nat : s <= BrkLimit => (s \in LargeSizes <=> ~is_small(s))
<1>1. TREEBIN_SHIFT \in 3 .. SizeWidth - 1
  BY SizeAssumption
<1>2. 2^3 = 8 /\ 2^SizeWidth = 2 * 2^(SizeWidth - 1)
  <2> DEFINE p(k) == 2^k
  <2>1. p(0) = 1 /\ p(0 + 1) = 2 * p(0) /\ p(1 + 1) = 2 * p(1) /\ p(2 + 1) = 2 * p(2)
    <3>1. 0 \in 0 .. SizeWidth /\ 1 \in 0 .. SizeWidth /\ 2 \in 0 .. SizeWidth
      BY SizeAssumption
    <3> QED  BY <3>1, PowerAssumption
  <2>2. p((SizeWidth - 1) + 1) = 2 * p(SizeWidth - 1)
    <3>1. SizeWidth - 1 \in 0 .. SizeWidth
      BY SizeAssumption
    <3> QED  BY <3>1, PowerAssumption
  <2>3. (SizeWidth - 1) + 1 = SizeWidth
    BY SizeAssumption
  <2> HIDE DEF p
  <2>4. p(1) = 2 /\ p(2) = 4 /\ p(3) = 8
    BY <2>1
  <2>5. p(SizeWidth) = 2 * p(SizeWidth - 1)
    BY <2>2, <2>3
  <2> QED  BY <2>4, <2>5 DEF p
<1>3. 2^3 <= 2^TREEBIN_SHIFT /\ 2^TREEBIN_SHIFT <= 2^(SizeWidth - 1)
      /\ Even(2^TREEBIN_SHIFT) /\ 2^TREEBIN_SHIFT \in Nat /\ 2^(SizeWidth - 1) \in Nat
  <2>1. /\ 3 \in 0 .. SizeWidth /\ TREEBIN_SHIFT \in 0 .. SizeWidth
        /\ TREEBIN_SHIFT \in 1 .. SizeWidth /\ SizeWidth - 1 \in 0 .. SizeWidth
        /\ 3 <= TREEBIN_SHIFT /\ TREEBIN_SHIFT <= SizeWidth - 1
    BY <1>1, SizeAssumption
  <2> QED  BY <2>1, SizeFacts
<1>4. /\ MIN_LARGE_SIZE \in Nat /\ MIN_LARGE_SIZE >= 8 /\ Even(MIN_LARGE_SIZE)
      /\ MIN_LARGE_SIZE * 2 <= SizeRange
  BY <1>2, <1>3 DEF MIN_LARGE_SIZE, SizeRange
<1>5. MAX_SMALL_REQUEST = MIN_LARGE_SIZE - 3
  BY DEF MAX_SMALL_REQUEST
<1>6. \A s \in Nat : s >= 4 => (s \in SmallSizes <=> is_small(s))
  BY <1>4 DEF SmallSizes, is_small, MIN_CHUNK_SIZE
<1>7. \A s \in Nat : s <= BrkLimit => (s \in LargeSizes <=> ~is_small(s))
  BY <1>4, Small DEF LargeSizes, is_small
<1> QED  BY <1>4, <1>5, <1>6, <1>7

-------------------------------------------------------------------------------
(* Headers: what the macros of the code do to memory.                      *)
OnlyChunks(m, n) ==
    n \in State /\ SameSystem(m, n) /\ SameBins(m, n) /\ SameDv(m, n) /\ SameTop(m, n)

(* The chunk of s words at p gets its header and its mark in the next one, *)
(* as one in use and as a free one.                                        *)
UsedHeader(s) == Header(s, TRUE, TRUE)
FreeHeader(s) == Header(s, FALSE, TRUE)

MarksUsed(h, g, p, s) ==
    /\ g \in [Addr -> HeaderSet]
    /\ \A q \in Addr \ {p, p + s} : g[q] = h[q]
    /\ g[p].size = s /\ g[p].cinuse
    /\ g[p + s].size = h[p + s].size /\ (g[p + s].cinuse <=> h[p + s].cinuse)
    /\ g[p + s].pinuse

MarksFree(h, g, p, s) ==
    /\ g \in [Addr -> HeaderSet]
    /\ \A q \in Addr \ {p, p + s} : g[q] = h[q]
    /\ g[p].size = s /\ ~g[p].cinuse /\ g[p].pinuse
    /\ g[p + s].size = h[p + s].size /\ (g[p + s].cinuse <=> h[p + s].cinuse)
    /\ ~g[p + s].pinuse /\ g[p + s].prev_foot = s

(* The header of a chunk that becomes part of another is gone. *)
LEMMA EraseFacts ==
  ASSUME NEW m \in State, NEW p \in Addr
  PROVE  /\ OnlyChunks(m, Erase(m, p))
         /\ Erase(m, p).chunk \in [Addr -> HeaderSet]
         /\ Erase(m, p).chunk[p] = NoChunk
         /\ \A q \in Addr \ {p} : Erase(m, p).chunk[q] = m.chunk[q]
<1> DEFINE h == [m.chunk EXCEPT ![p] = NoChunk]
<1>1. m.chunk \in [Addr -> HeaderSet] /\ NoChunk \in HeaderSet
  BY Small DEF State
<1>2. h \in [Addr -> HeaderSet] /\ h[p] = NoChunk /\ \A q \in Addr \ {p} : h[q] = m.chunk[q]
  BY <1>1
<1>3. Erase(m, p) = WithChunks(m, h)
  BY DEF Erase, WithChunks
<1> HIDE DEF h
<1> QED  BY <1>2, <1>3, WithChunksFacts DEF OnlyChunks

(* set_inuse marks the chunk and the next one, and keeps the mark before it. *)
LEMMA SetInuseFacts ==
  ASSUME NEW m \in State, NEW p \in Addr, NEW s \in size_t \ {0}, p + s \in Addr
  PROVE  /\ OnlyChunks(m, set_inuse(m, p, s))
         /\ MarksUsed(m.chunk, set_inuse(m, p, s).chunk, p, s)
         /\ set_inuse(m, p, s).chunk[p].pinuse = m.chunk[p].pinuse
         /\ set_inuse(m, p, s).chunk[p].prev_foot = m.chunk[p].prev_foot
<1> DEFINE h1 == [m.chunk EXCEPT ![p].size = s, ![p].cinuse = TRUE]
           h2 == [h1 EXCEPT ![p + s].pinuse = TRUE, ![p + s].prev_foot = 0]
<1>1. m.chunk \in [Addr -> HeaderSet] /\ p # p + s /\ 0 \in size_t
  BY Small DEF State
<1>2. h1 \in [Addr -> HeaderSet]
  BY <1>1 DEF HeaderSet
<1>3. h1[p].size = s /\ h1[p].cinuse /\ h1[p].pinuse = m.chunk[p].pinuse
      /\ h1[p].prev_foot = m.chunk[p].prev_foot
      /\ \A q \in Addr \ {p} : h1[q] = m.chunk[q]
  BY <1>1 DEF HeaderSet
<1>4. set_inuse(m, p, s) = WithChunks(m, h2)
  BY DEF set_inuse, set_pinuse, WithChunks, State
<1> HIDE DEF h1
<1>5. h2 \in [Addr -> HeaderSet]
  BY <1>1, <1>2 DEF HeaderSet
<1>6. /\ h2[p + s].pinuse /\ h2[p + s].size = h1[p + s].size
      /\ h2[p + s].cinuse = h1[p + s].cinuse
      /\ \A q \in Addr \ {p + s} : h2[q] = h1[q]
  BY <1>1, <1>2 DEF HeaderSet
<1> HIDE DEF h2
<1>7. MarksUsed(m.chunk, h2, p, s) /\ h2[p].pinuse = m.chunk[p].pinuse
      /\ h2[p].prev_foot = m.chunk[p].prev_foot
  BY <1>1, <1>3, <1>5, <1>6 DEF MarksUsed
<1> QED  BY <1>4, <1>5, <1>7, WithChunksFacts DEF OnlyChunks

(* set_inuse_and_pinuse writes the mark before it too. *)
LEMMA SetInuseAndPinuseFacts ==
  ASSUME NEW m \in State, NEW p \in Addr, NEW s \in size_t \ {0}, p + s \in Addr
  PROVE  /\ OnlyChunks(m, set_inuse_and_pinuse(m, p, s))
         /\ MarksUsed(m.chunk, set_inuse_and_pinuse(m, p, s).chunk, p, s)
         /\ set_inuse_and_pinuse(m, p, s).chunk[p].pinuse
         /\ set_inuse_and_pinuse(m, p, s).chunk[p] = UsedHeader(s)
         /\ set_inuse_and_pinuse(m, p, s).chunk[p + s].prev_foot = 0
<1> DEFINE h1 == [m.chunk EXCEPT ![p] = Header(s, TRUE, TRUE)]
           h2 == [h1 EXCEPT ![p + s].pinuse = TRUE, ![p + s].prev_foot = 0]
<1>1. m.chunk \in [Addr -> HeaderSet] /\ p # p + s /\ 0 \in size_t
  BY Small DEF State
<1>2. h1 \in [Addr -> HeaderSet]
  BY <1>1 DEF HeaderSet, Header
<1>3. h1[p].size = s /\ h1[p].cinuse /\ h1[p].pinuse /\ h1[p] = UsedHeader(s)
      /\ \A q \in Addr \ {p} : h1[q] = m.chunk[q]
  BY <1>1 DEF Header, UsedHeader
<1>4. set_inuse_and_pinuse(m, p, s) = WithChunks(m, h2)
  BY DEF set_inuse_and_pinuse, set_size_and_pinuse_of_inuse_chunk, set_pinuse, WithChunks, State
<1> HIDE DEF h1
<1>5. h2 \in [Addr -> HeaderSet]
  BY <1>1, <1>2 DEF HeaderSet
<1>6. /\ h2[p + s].pinuse /\ h2[p + s].size = h1[p + s].size /\ h2[p + s].prev_foot = 0
      /\ h2[p + s].cinuse = h1[p + s].cinuse
      /\ \A q \in Addr \ {p + s} : h2[q] = h1[q]
  BY <1>1, <1>2 DEF HeaderSet
<1> HIDE DEF h2
<1>7. MarksUsed(m.chunk, h2, p, s) /\ h2[p].pinuse /\ h2[p] = UsedHeader(s)
  BY <1>1, <1>3, <1>5, <1>6 DEF MarksUsed
<1> QED  BY <1>4, <1>5, <1>6, <1>7, WithChunksFacts DEF OnlyChunks

(* set_size_and_pinuse_of_inuse_chunk writes only the chunk's own header. *)
LEMMA SetSizeOfInuseFacts ==
  ASSUME NEW m \in State, NEW p \in Addr, NEW s \in size_t,
         NEW n, n = set_size_and_pinuse_of_inuse_chunk(m, p, s)
  PROVE  /\ OnlyChunks(m, n) /\ n.chunk \in [Addr -> HeaderSet]
         /\ n.chunk[p] = UsedHeader(s)
         /\ \A q \in Addr \ {p} : n.chunk[q] = m.chunk[q]
<1> DEFINE h == [m.chunk EXCEPT ![p] = UsedHeader(s)]
<1>1. m.chunk \in [Addr -> HeaderSet] /\ UsedHeader(s) \in HeaderSet
  BY Small DEF State, UsedHeader, Header, HeaderSet
<1>2. h \in [Addr -> HeaderSet] /\ h[p] = UsedHeader(s)
      /\ \A q \in Addr \ {p} : h[q] = m.chunk[q]
  BY <1>1
<1>3. n = WithChunks(m, h)
  BY DEF set_size_and_pinuse_of_inuse_chunk, WithChunks, UsedHeader
<1> HIDE DEF h
<1>4. OnlyChunks(m, n) /\ n.chunk = h
  BY <1>2, <1>3, WithChunksFacts DEF OnlyChunks
<1> QED  BY <1>2, <1>4

(* set_size_and_pinuse_of_free_chunk writes the header and the foot. *)
LEMMA SetSizeOfFreeFacts ==
  ASSUME NEW m \in State, NEW p \in Addr, NEW s \in size_t \ {0}, p + s \in Addr,
         NEW n, n = set_size_and_pinuse_of_free_chunk(m, p, s)
  PROVE  /\ OnlyChunks(m, n) /\ n.chunk \in [Addr -> HeaderSet]
         /\ n.chunk[p] = FreeHeader(s)
         /\ n.chunk[p + s].prev_foot = s
         /\ n.chunk[p + s].size = m.chunk[p + s].size
         /\ n.chunk[p + s].cinuse = m.chunk[p + s].cinuse
         /\ n.chunk[p + s].pinuse = m.chunk[p + s].pinuse
         /\ \A q \in Addr \ {p, p + s} : n.chunk[q] = m.chunk[q]
         /\ ~m.chunk[p + s].pinuse => MarksFree(m.chunk, n.chunk, p, s)
<1> DEFINE h1 == [m.chunk EXCEPT ![p] = FreeHeader(s)]
           h2 == [h1 EXCEPT ![p + s].prev_foot = s]
<1>1. m.chunk \in [Addr -> HeaderSet] /\ p # p + s /\ FreeHeader(s) \in HeaderSet
  <2>1. m.chunk \in [Addr -> HeaderSet] /\ p # p + s
    BY Small DEF State
  <2>2. FreeHeader(s) = [prev_foot |-> 0, size |-> s, cinuse |-> FALSE, pinuse |-> TRUE]
    BY DEF FreeHeader, Header
  <2>3. FreeHeader(s) \in HeaderSet
    BY <2>2, Small DEF HeaderSet
  <2> QED  BY <2>1, <2>3
<1>2. h1 \in [Addr -> HeaderSet] /\ h1[p] = FreeHeader(s)
      /\ \A q \in Addr \ {p} : h1[q] = m.chunk[q]
  BY <1>1
<1>3. FreeHeader(s).size = s /\ ~FreeHeader(s).cinuse /\ FreeHeader(s).pinuse
  BY DEF FreeHeader, Header
<1>4. n = WithChunks(m, h2)
  BY DEF set_size_and_pinuse_of_free_chunk, WithChunks, FreeHeader, State
<1> HIDE DEF h1
<1>5. h2 \in [Addr -> HeaderSet]
  BY <1>1, <1>2 DEF HeaderSet
<1>6. /\ h2[p + s].prev_foot = s /\ h2[p + s].size = h1[p + s].size
      /\ h2[p + s].cinuse = h1[p + s].cinuse /\ h2[p + s].pinuse = h1[p + s].pinuse
      /\ \A q \in Addr \ {p + s} : h2[q] = h1[q]
  BY <1>1, <1>2 DEF HeaderSet
<1> HIDE DEF h2
<1>7. ~m.chunk[p + s].pinuse => MarksFree(m.chunk, h2, p, s)
  BY <1>1, <1>2, <1>3, <1>5, <1>6 DEF MarksFree
<1>9. OnlyChunks(m, n) /\ n.chunk = h2
  BY <1>4, <1>5, WithChunksFacts DEF OnlyChunks
<1> QED  BY <1>1, <1>2, <1>5, <1>6, <1>7, <1>9

(* set_free_with_pinuse clears the mark in the next chunk as well. *)
LEMMA SetFreeFacts ==
  ASSUME NEW m \in State, NEW p \in Addr, NEW s \in size_t \ {0}, p + s \in Addr,
         NEW n, n = set_free_with_pinuse(m, p, s, p + s)
  PROVE  OnlyChunks(m, n) /\ MarksFree(m.chunk, n.chunk, p, s)
<1> DEFINE h1 == [m.chunk EXCEPT ![p + s].pinuse = FALSE]
           m1 == [m EXCEPT !.chunk[p + s].pinuse = FALSE]
<1>1. m.chunk \in [Addr -> HeaderSet] /\ p # p + s
  BY Small DEF State
<1>2. h1 \in [Addr -> HeaderSet] /\ ~h1[p + s].pinuse
      /\ h1[p + s].size = m.chunk[p + s].size /\ h1[p + s].cinuse = m.chunk[p + s].cinuse
      /\ \A q \in Addr \ {p + s} : h1[q] = m.chunk[q]
  BY <1>1 DEF HeaderSet
<1>3. m1 = WithChunks(m, h1)
  BY DEF WithChunks
<1>4. n = set_size_and_pinuse_of_free_chunk(m1, p, s)
  BY DEF set_free_with_pinuse
<1> HIDE DEF h1, m1
<1>5. m1 \in State /\ m1.chunk = h1 /\ OnlyChunks(m, m1)
  BY <1>2, <1>3, WithChunksFacts DEF OnlyChunks
<1>6. OnlyChunks(m1, n) /\ MarksFree(h1, n.chunk, p, s)
  BY <1>2, <1>4, <1>5, SetSizeOfFreeFacts
<1>7. OnlyChunks(m, n)
  BY <1>5, <1>6 DEF OnlyChunks, SameSystem, SameBins, SameDv, SameTop
<1>8. MarksFree(m.chunk, n.chunk, p, s)
  BY <1>1, <1>2, <1>6 DEF MarksFree
<1> QED  BY <1>7, <1>8

(* set_top writes a free header and no foot. *)
LEMMA SetTopFacts ==
  ASSUME NEW m \in State, NEW p \in Addr, NEW s \in size_t, NEW n, n = set_top(m, p, s)
  PROVE  /\ n \in State /\ SameSystem(m, n) /\ SameBins(m, n) /\ SameDv(m, n)
         /\ n.top = p /\ n.topsize = s
         /\ n.chunk \in [Addr -> HeaderSet]
         /\ n.chunk[p].size = s /\ ~n.chunk[p].cinuse /\ n.chunk[p].pinuse
         /\ n.chunk[p] = FreeHeader(s)
         /\ \A q \in Addr \ {p} : n.chunk[q] = m.chunk[q]
<1> DEFINE h == [m.chunk EXCEPT ![p] = Header(s, FALSE, TRUE)]
           m1 == WithTop(m, p, s)
<1>1. m.chunk \in [Addr -> HeaderSet] /\ 0 \in size_t
  BY Small DEF State
<1>2. h \in [Addr -> HeaderSet]
  BY <1>1 DEF HeaderSet, Header
<1>3. /\ h[p].size = s /\ ~h[p].cinuse /\ h[p].pinuse /\ h[p] = FreeHeader(s)
      /\ \A q \in Addr \ {p} : h[q] = m.chunk[q]
  BY <1>1 DEF Header, FreeHeader
<1>4. n = WithChunks(m1, h)
  BY DEF set_top, WithChunks, WithTop, State
<1>5. m1 \in State /\ m1.top = p /\ m1.topsize = s /\ m1.chunk = m.chunk
      /\ SameSystem(m, m1) /\ SameBins(m, m1) /\ SameDv(m, m1)
  BY WithTopFacts
<1> HIDE DEF h, m1
<1>6. n \in State /\ n.chunk = h /\ SameSystem(m1, n) /\ SameBins(m1, n) /\ SameDv(m1, n)
      /\ SameTop(m1, n)
  BY <1>2, <1>4, <1>5, WithChunksFacts
<1>7. SameSystem(m, n) /\ SameBins(m, n) /\ SameDv(m, n) /\ n.top = p /\ n.topsize = s
  BY <1>5, <1>6 DEF SameSystem, SameBins, SameDv, SameTop
<1> QED  BY <1>2, <1>3, <1>6, <1>7

-------------------------------------------------------------------------------
(* RemoveAt closes the gap. *)
LEMMA RemoveAtFacts ==
  ASSUME NEW S, NEW s \in Seq(S), NEW i \in 1 .. Len(s)
  PROVE  /\ RemoveAt(s, i) \in Seq(S)
         /\ Len(RemoveAt(s, i)) = Len(s) - 1
         /\ \A j \in 1 .. Len(s) - 1 :
               RemoveAt(s, i)[j] = IF j < i THEN s[j] ELSE s[j + 1]
<1> DEFINE l == SubSeq(s, 1, i - 1)
           r == SubSeq(s, i + 1, Len(s))
<1>0. Len(s) \in Nat /\ i \in Int /\ i - 1 \in Int /\ i + 1 \in Int
      /\ \A j \in 1 .. Len(s) : s[j] \in S
  BY LenProperties, ElementOfSeq
<1>1. l \in Seq(S) /\ Len(l) = i - 1 /\ \A j \in 1 .. i - 1 : l[j] = s[j]
  <2>1. \A j \in 1 .. i - 1 : s[j] \in S
    BY <1>0
  <2>2. /\ l \in Seq(S)
        /\ Len(l) = IF 1 <= i - 1 THEN i - 1 - 1 + 1 ELSE 0
        /\ \A j \in 1 .. i - 1 - 1 + 1 : l[j] = s[1 + j - 1]
    BY <1>0, <2>1, SubSeqProperties
  <2> QED  BY <1>0, <2>2
<1>2. /\ r \in Seq(S) /\ Len(r) = Len(s) - i
      /\ \A j \in 1 .. Len(s) - i : r[j] = s[i + j]
  <2>1. \A j \in i + 1 .. Len(s) : s[j] \in S
    BY <1>0
  <2>2. /\ r \in Seq(S)
        /\ Len(r) = IF i + 1 <= Len(s) THEN Len(s) - (i + 1) + 1 ELSE 0
        /\ \A j \in 1 .. Len(s) - (i + 1) + 1 : r[j] = s[i + 1 + j - 1]
    BY <1>0, <2>1, SubSeqProperties
  <2> QED  BY <1>0, <2>2
<1> HIDE DEF l, r
<1> DEFINE c == l \o r
<1>3. /\ c \in Seq(S) /\ Len(c) = Len(s) - 1
      /\ \A j \in 1 .. Len(s) - 1 : c[j] = IF j <= i - 1 THEN l[j] ELSE r[j - (i - 1)]
  <2>1. /\ c \in Seq(S) /\ Len(c) = Len(l) + Len(r)
        /\ \A j \in 1 .. Len(l) + Len(r) :
              c[j] = IF j <= Len(l) THEN l[j] ELSE r[j - Len(l)]
    BY <1>1, <1>2, ConcatProperties
  <2> HIDE DEF c
  <2> QED  BY <1>0, <1>1, <1>2, <2>1
<1> HIDE DEF c
<1>4. ASSUME NEW j \in 1 .. Len(s) - 1
      PROVE  c[j] = IF j < i THEN s[j] ELSE s[j + 1]
  <2>1. CASE j < i
    BY <2>1, <1>0, <1>1, <1>3
  <2>2. CASE j >= i
    <3>1. j - (i - 1) \in 1 .. Len(s) - i /\ i + (j - (i - 1)) = j + 1
      BY <2>2, <1>0
    <3>2. c[j] = r[j - (i - 1)] /\ r[j - (i - 1)] = s[j + 1]
      BY <2>2, <3>1, <1>0, <1>2, <1>3
    <3> QED  BY <2>2, <3>2, <1>0
  <2> QED  BY <2>1, <2>2, <1>0
<1>5. RemoveAt(s, i) = c
  BY DEF RemoveAt, l, r, c
<1> QED  BY <1>3, <1>4, <1>5

-------------------------------------------------------------------------------
(* Bins                                                                    *)
Once(bin) == \A i, j \in 1 .. Len(bin) : bin[i] = bin[j] => i = j

(* The bin holds the chunks of a size that are not set apart, each once.   *)
Lists(bin, z, X, s) == Once(bin) /\ Range(bin) = {a \in DOMAIN z \ X : z[a] = s}

Bins(m, z, X) ==
    /\ \A s \in SmallSizes : Lists(m.smallbins[s], z, X, s)
    /\ \A s \in LargeSizes : Lists(m.treebins[s], z, X, s)
    /\ m.smallmap = {s \in SmallSizes : m.smallbins[s] # <<>>}

(* A bin is a sequence, and empty when nothing is in it. *)
LEMMA BinTyped ==
  ASSUME NEW bin \in Seq(Addr)
  PROVE  /\ Len(bin) \in Nat /\ DOMAIN bin = 1 .. Len(bin)
         /\ Range(bin) \subseteq Addr
         /\ \A p : p \in Range(bin) <=> \E i \in 1 .. Len(bin) : bin[i] = p
         /\ bin # <<>> => Head(bin) = bin[1] /\ Len(bin) > 0 /\ Head(bin) \in Range(bin)
         /\ (bin = <<>>) <=> (Range(bin) = {})
<1>1. Len(bin) \in Nat /\ DOMAIN bin = 1 .. Len(bin) /\ \A i \in 1 .. Len(bin) : bin[i] \in Addr
  BY LenProperties, ElementOfSeq
<1>2. \A p : p \in Range(bin) <=> \E i \in 1 .. Len(bin) : bin[i] = p
  BY <1>1 DEF Range
<1>3. bin # <<>> => Head(bin) = bin[1] /\ Len(bin) > 0 /\ 1 \in 1 .. Len(bin)
  BY <1>1, EmptySeq
<1>4. bin = <<>> => Len(bin) = 0
  OBVIOUS
<1>5. Range(bin) \subseteq Addr
  BY <1>1, <1>2
<1>6. bin # <<>> => Head(bin) \in Range(bin)
  BY <1>2, <1>3
<1>7. (bin = <<>>) <=> (Range(bin) = {})
  <2>1. ASSUME bin = <<>>, NEW q \in Range(bin) PROVE FALSE
    <3>1. PICK i \in 1 .. Len(bin) : bin[i] = q
      BY <1>2, <2>1
    <3> QED  BY <1>4, <2>1, <3>1
  <2> QED  BY <1>6, <2>1
<1> QED  BY <1>1, <1>2, <1>3, <1>5, <1>6, <1>7

(* A chunk taken out of a bin leaves the others, *)
LEMMA OutOfBinFacts ==
  ASSUME NEW bin \in Seq(Addr), Once(bin), NEW p \in Range(bin)
  PROVE  /\ Contains(bin, p)
         /\ out_of_bin(bin, p) \in Seq(Addr)
         /\ Once(out_of_bin(bin, p))
         /\ Range(out_of_bin(bin, p)) = Range(bin) \ {p}
<1>1. PICK k \in 1 .. Len(bin) : bin[k] = p
  BY BinTyped
<1>2. Len(bin) \in Nat
  BY BinTyped
<1>3. Contains(bin, p)
  BY <1>1 DEF Contains
<1> DEFINE I == {i \in 1 .. Len(bin) : bin[i] = p}
<1>4. I = {k}
  BY <1>1 DEF Once
<1>5. SelectInSeq(bin, LAMBDA c : c = p) = k
  <2>1. SelectInSeq(bin, LAMBDA c : c = p) = IF I # {} THEN Min(I) ELSE 0
    BY DEF SelectInSeq
  <2> HIDE DEF I
  <2>2. Min({k}) = k
    BY <1>1, <1>2 DEF Min
  <2> QED  BY <1>4, <2>1, <2>2
<1> DEFINE b == RemoveAt(bin, k)
<1>6. out_of_bin(bin, p) = b
  BY <1>5 DEF out_of_bin
<1>7. /\ b \in Seq(Addr) /\ Len(b) = Len(bin) - 1
      /\ \A j \in 1 .. Len(bin) - 1 : b[j] = IF j < k THEN bin[j] ELSE bin[j + 1]
  BY RemoveAtFacts
<1> HIDE DEF b
<1>8. Once(b)
  BY <1>2, <1>7 DEF Once
<1>9. ASSUME NEW q PROVE q \in Range(b) <=> q \in Range(bin) \ {p}
  <2>1. ASSUME q \in Range(b) PROVE q \in Range(bin) \ {p}
    <3>1. PICK j \in 1 .. Len(b) : b[j] = q
      BY <1>7, <2>1, BinTyped
    <3>2. PICK i \in 1 .. Len(bin) : bin[i] = q /\ i # k
      BY <1>2, <1>7, <3>1
    <3> QED  BY <1>1, <3>2, BinTyped DEF Once
  <2>2. ASSUME q \in Range(bin), q # p PROVE q \in Range(b)
    <3>1. PICK i \in 1 .. Len(bin) : bin[i] = q
      BY <2>2, BinTyped
    <3>2. i # k
      BY <1>1, <2>2, <3>1
    <3>3. CASE i < k
      <4>1. i \in 1 .. Len(bin) - 1 /\ b[i] = q
        BY <1>2, <1>7, <3>1, <3>3
      <4> QED  BY <1>7, <4>1, BinTyped
    <3>4. CASE i > k
      <4>1. i - 1 \in 1 .. Len(bin) - 1 /\ ~(i - 1 < k) /\ (i - 1) + 1 = i
        BY <1>2, <3>1, <3>4
      <4>2. b[i - 1] = q
        BY <1>7, <3>1, <4>1
      <4> QED  BY <1>7, <4>1, <4>2, BinTyped
    <3> QED  BY <1>2, <3>2, <3>3, <3>4
  <2> QED  BY <2>1, <2>2
<1> QED  BY <1>3, <1>6, <1>7, <1>8, <1>9

(* a chunk put in front comes to the others, *)
LEMMA InFrontFacts ==
  ASSUME NEW bin \in Seq(Addr), Once(bin), NEW p \in Addr, p \notin Range(bin)
  PROVE  /\ <<p>> \o bin \in Seq(Addr) /\ <<p>> \o bin # <<>>
         /\ Once(<<p>> \o bin) /\ Range(<<p>> \o bin) = Range(bin) \cup {p}
<1> DEFINE b == <<p>> \o bin
<1>1. <<p>> \in Seq(Addr) /\ Len(<<p>>) = 1 /\ <<p>>[1] = p
  OBVIOUS
<1>2. /\ b \in Seq(Addr) /\ Len(b) = 1 + Len(bin)
      /\ \A i \in 1 .. 1 + Len(bin) : b[i] = IF i <= 1 THEN <<p>>[i] ELSE bin[i - 1]
  BY <1>1, ConcatProperties
<1>3. Len(bin) \in Nat
  BY BinTyped
<1> HIDE DEF b
<1>4. b[1] = p /\ \A i \in 2 .. 1 + Len(bin) : b[i] = bin[i - 1]
  BY <1>1, <1>2, <1>3
<1>5. \A i \in 1 .. Len(bin) : bin[i] # p
  BY BinTyped
<1>6. Once(b)
  <2> SUFFICES ASSUME NEW i \in 1 .. 1 + Len(bin), NEW j \in 1 .. 1 + Len(bin), b[i] = b[j]
               PROVE  i = j
    BY <1>2 DEF Once
  <2>1. CASE i = 1 /\ j # 1
    <3>1. j \in 2 .. 1 + Len(bin) /\ j - 1 \in 1 .. Len(bin)
      BY <1>3, <2>1
    <3> QED  BY <1>4, <1>5, <2>1, <3>1
  <2>2. CASE i # 1 /\ j = 1
    <3>1. i \in 2 .. 1 + Len(bin) /\ i - 1 \in 1 .. Len(bin)
      BY <1>3, <2>2
    <3> QED  BY <1>4, <1>5, <2>2, <3>1
  <2>3. CASE i # 1 /\ j # 1
    <3>1. /\ i \in 2 .. 1 + Len(bin) /\ i - 1 \in 1 .. Len(bin)
          /\ j \in 2 .. 1 + Len(bin) /\ j - 1 \in 1 .. Len(bin)
      BY <1>3, <2>3
    <3>2. i - 1 = j - 1
      BY <1>4, <3>1 DEF Once
    <3> QED  BY <3>1, <3>2
  <2> QED  BY <2>1, <2>2, <2>3
<1>7. ASSUME NEW q PROVE q \in Range(b) <=> q \in Range(bin) \cup {p}
  <2>1. q \in Range(b) <=> \E i \in 1 .. 1 + Len(bin) : b[i] = q
    BY <1>2, BinTyped
  <2>2. q \in Range(bin) <=> \E i \in 1 .. Len(bin) : bin[i] = q
    BY BinTyped
  <2>3. ASSUME NEW i \in 1 .. Len(bin) PROVE i + 1 \in 1 .. 1 + Len(bin) /\ b[i + 1] = bin[i]
    <3>1. i + 1 \in 2 .. 1 + Len(bin) /\ (i + 1) - 1 = i
      BY <1>3
    <3> QED  BY <1>3, <1>4, <3>1
  <2>4. ASSUME NEW i \in 1 .. 1 + Len(bin)
        PROVE  b[i] = p \/ (i - 1 \in 1 .. Len(bin) /\ b[i] = bin[i - 1])
    BY <1>3, <1>4
  <2>5. 1 \in 1 .. 1 + Len(bin)
    BY <1>3
  <2> QED  BY <1>4, <2>1, <2>2, <2>3, <2>4, <2>5
<1>8. b # <<>>
  BY <1>2, <1>3
<1> QED  BY <1>2, <1>6, <1>7, <1>8 DEF b

(* and so does one put behind them. *)
LEMMA BehindFacts ==
  ASSUME NEW bin \in Seq(Addr), Once(bin), NEW p \in Addr, p \notin Range(bin)
  PROVE  /\ Append(bin, p) \in Seq(Addr)
         /\ Once(Append(bin, p)) /\ Range(Append(bin, p)) = Range(bin) \cup {p}
<1> DEFINE b == Append(bin, p)
<1>1. /\ b \in Seq(Addr) /\ Len(b) = Len(bin) + 1 /\ b[Len(bin) + 1] = p
      /\ \A i \in 1 .. Len(bin) : b[i] = bin[i]
  BY AppendProperties
<1>2. Len(bin) \in Nat
  BY BinTyped
<1> HIDE DEF b
<1>3. \A i \in 1 .. Len(bin) : bin[i] # p
  BY BinTyped
<1>4. Once(b)
  BY <1>1, <1>2, <1>3 DEF Once
<1>5. ASSUME NEW q PROVE q \in Range(b) <=> q \in Range(bin) \cup {p}
  <2>1. q \in Range(b) <=> \E i \in 1 .. Len(bin) + 1 : b[i] = q
    BY <1>1, BinTyped
  <2>2. q \in Range(bin) <=> \E i \in 1 .. Len(bin) : bin[i] = q
    BY BinTyped
  <2> QED  BY <1>1, <1>2, <2>1, <2>2
<1> QED  BY <1>1, <1>4, <1>5 DEF b

-------------------------------------------------------------------------------
(* What putting a chunk into its bin does, and taking it out.              *)
OnlyBins(m, n) ==
    n \in State /\ SameSystem(m, n) /\ n.chunk = m.chunk /\ SameDv(m, n) /\ SameTop(m, n)

(* A chunk that is no longer set apart has come into the bin of its size. *)
LEMMA ListsMore ==
  ASSUME NEW z, NEW X, NEW p \in DOMAIN z \cap X, NEW s, NEW bin, NEW b,
         Lists(bin, z, X, s),
         s = z[p] => Once(b) /\ Range(b) = Range(bin) \cup {p},
         s # z[p] => b = bin
  PROVE  Lists(b, z, X \ {p}, s)
BY DEF Lists

(* A chunk that is set apart has left it. *)
LEMMA ListsFewer ==
  ASSUME NEW z, NEW X, NEW p \in DOMAIN z \ X, NEW s, NEW bin, NEW b,
         Lists(bin, z, X, s),
         s = z[p] => Once(b) /\ Range(b) = Range(bin) \ {p},
         s # z[p] => b = bin
  PROVE  Lists(b, z, X \cup {p}, s)
BY DEF Lists

(* Bins say nothing of what is in no bin.                                  *)
LEMMA BinsFrame ==
  ASSUME NEW m, NEW n, NEW z, NEW X, NEW y, NEW Y, Bins(m, z, X), SameBins(m, n),
         DOMAIN z \ X = DOMAIN y \ Y, \A a \in DOMAIN z \ X : y[a] = z[a]
  PROVE  Bins(n, y, Y)
BY DEF Bins, SameBins, Lists

(* insert_small_chunk *)
LEMMA InsertSmallFacts ==
  ASSUME NEW m \in State, NEW z, NEW X, Bins(m, z, X),
         NEW p \in DOMAIN z \cap X, p \in Addr, z[p] \in SmallSizes
  PROVE  /\ OnlyBins(m, insert_small_chunk(m, p, z[p]))
         /\ Bins(insert_small_chunk(m, p, z[p]), z, X \ {p})
<1> DEFINE s == z[p]
           b == <<p>> \o m.smallbins[s]
           sb == [m.smallbins EXCEPT ![s] = b]
           sm == m.smallmap \cup {s}
           n == insert_small_chunk(m, p, s)
<1>1. /\ m.smallbins \in [SmallSizes -> Seq(Addr)] /\ m.treebins \in [LargeSizes -> Seq(Addr)]
      /\ m.smallmap \in SUBSET SmallSizes
  BY DEF State
<1>2. Lists(m.smallbins[s], z, X, s) /\ p \notin Range(m.smallbins[s])
      /\ m.smallbins[s] \in Seq(Addr)
  BY <1>1 DEF Bins, Lists
<1>3. b \in Seq(Addr) /\ b # <<>> /\ Once(b) /\ Range(b) = Range(m.smallbins[s]) \cup {p}
  BY <1>2, InFrontFacts DEF Lists
<1>4. (IF s \in m.smallmap THEN <<p>> \o m.smallbins[s] ELSE <<p>>) = b
  <2>1. CASE s \in m.smallmap
    BY <2>1
  <2>2. CASE s \notin m.smallmap
    <3>1. m.smallbins[s] = <<>>
      BY <2>2 DEF Bins
    <3>2. <<p>> \o <<>> = <<p>>
      <4>1. <<p>> \in Seq(Addr)
        OBVIOUS
      <4> QED  BY <4>1, ConcatEmptySeq
    <3> QED  BY <2>2, <3>1, <3>2
  <2> QED  BY <2>1, <2>2
<1>5. n = WithBins(m, sm, sb, m.treebins)
  <2>1. n = [m EXCEPT !.smallbins = [m.smallbins EXCEPT ![s] =
                         IF s \in m.smallmap THEN <<p>> \o m.smallbins[s] ELSE <<p>>],
                      !.smallmap = sm]
    BY DEF insert_small_chunk
  <2> HIDE DEF b, n, sm
  <2>2. n = [m EXCEPT !.smallbins = sb, !.smallmap = sm]
    BY <1>4, <2>1
  <2> HIDE DEF sb
  <2> QED  BY <2>2 DEF WithBins, State
<1>6. sb \in [SmallSizes -> Seq(Addr)] /\ sb[s] = b
      /\ \A t \in SmallSizes : t # s => sb[t] = m.smallbins[t]
  BY <1>1, <1>3
<1>7. sm \in SUBSET SmallSizes
  BY <1>1
<1> HIDE DEF sb, b, n, sm
<1>8. OnlyBins(m, n) /\ n.smallmap = sm /\ n.smallbins = sb /\ n.treebins = m.treebins
  BY <1>1, <1>5, <1>6, <1>7, WithBinsFacts DEF OnlyBins
<1>9. ASSUME NEW t \in SmallSizes PROVE Lists(sb[t], z, X \ {p}, t)
  <2>1. Lists(m.smallbins[t], z, X, t)
    BY DEF Bins
  <2> QED  BY <1>3, <1>6, <2>1, ListsMore
<1>10. ASSUME NEW t \in LargeSizes PROVE Lists(m.treebins[t], z, X \ {p}, t)
  <2>1. Lists(m.treebins[t], z, X, t)
    BY DEF Bins
  <2>2. t # s
    BY Small, LargeFacts DEF SmallSizes, LargeSizes
  <2> QED  BY <2>1, <2>2, ListsMore
<1>11. sm = {t \in SmallSizes : sb[t] # <<>>}
  BY <1>3, <1>6 DEF Bins, sm
<1>12. Bins(n, z, X \ {p})
  BY <1>8, <1>9, <1>10, <1>11 DEF Bins
<1> QED  BY <1>8, <1>12 DEF n

(* and insert_large_chunk put a chunk into the bin of its size. *)
LEMMA InsertLargeFacts ==
  ASSUME NEW m \in State, NEW z, NEW X, Bins(m, z, X),
         NEW p \in DOMAIN z \cap X, p \in Addr, z[p] \in LargeSizes
  PROVE  /\ OnlyBins(m, insert_large_chunk(m, p, z[p]))
         /\ Bins(insert_large_chunk(m, p, z[p]), z, X \ {p})
<1> DEFINE s == z[p]
           b == Append(m.treebins[s], p)
           tb == [m.treebins EXCEPT ![s] = b]
           n == insert_large_chunk(m, p, s)
<1>1. /\ m.smallbins \in [SmallSizes -> Seq(Addr)] /\ m.treebins \in [LargeSizes -> Seq(Addr)]
      /\ m.smallmap \in SUBSET SmallSizes
  BY DEF State
<1>2. Lists(m.treebins[s], z, X, s) /\ p \notin Range(m.treebins[s])
      /\ m.treebins[s] \in Seq(Addr)
  BY <1>1 DEF Bins, Lists
<1>3. b \in Seq(Addr) /\ Once(b) /\ Range(b) = Range(m.treebins[s]) \cup {p}
  BY <1>2, BehindFacts DEF Lists
<1>5. n = WithBins(m, m.smallmap, m.smallbins, tb)
  BY DEF WithBins, State, insert_large_chunk
<1>6. tb \in [LargeSizes -> Seq(Addr)] /\ tb[s] = b
      /\ \A t \in LargeSizes : t # s => tb[t] = m.treebins[t]
  BY <1>1, <1>3
<1> HIDE DEF tb, b, n
<1>8. OnlyBins(m, n) /\ n.smallmap = m.smallmap /\ n.smallbins = m.smallbins /\ n.treebins = tb
  BY <1>1, <1>5, <1>6, WithBinsFacts DEF OnlyBins
<1>9. ASSUME NEW t \in LargeSizes PROVE Lists(tb[t], z, X \ {p}, t)
  <2>1. Lists(m.treebins[t], z, X, t)
    BY DEF Bins
  <2> QED  BY <1>3, <1>6, <2>1, ListsMore
<1>10. ASSUME NEW t \in SmallSizes PROVE Lists(m.smallbins[t], z, X \ {p}, t)
  <2>1. Lists(m.smallbins[t], z, X, t)
    BY DEF Bins
  <2>2. t # s
    BY Small, LargeFacts DEF SmallSizes, LargeSizes
  <2> QED  BY <2>1, <2>2, ListsMore
<1>12. Bins(n, z, X \ {p})
  BY <1>8, <1>9, <1>10 DEF Bins
<1> QED  BY <1>8, <1>12 DEF n

(* insert_chunk puts a chunk that was nowhere into its bin.                *)
LEMMA InsertChunkFacts ==
  ASSUME NEW m \in State, NEW z, NEW X, Bins(m, z, X),
         NEW p \in DOMAIN z \cap X, p \in Addr, z[p] \in Nat, z[p] >= 4, z[p] <= BrkLimit
  PROVE  /\ OnlyBins(m, insert_chunk(m, p, z[p]))
         /\ Bins(insert_chunk(m, p, z[p]), z, X \ {p})
<1>1. CASE is_small(z[p])
  <2>1. z[p] \in SmallSizes /\ insert_chunk(m, p, z[p]) = insert_small_chunk(m, p, z[p])
    BY <1>1, LargeFacts DEF insert_chunk
  <2> QED  BY <2>1, InsertSmallFacts
<1>2. CASE ~is_small(z[p])
  <2>1. z[p] \in LargeSizes /\ insert_chunk(m, p, z[p]) = insert_large_chunk(m, p, z[p])
    BY <1>2, LargeFacts DEF insert_chunk
  <2> QED  BY <2>1, InsertLargeFacts
<1> QED  BY <1>1, <1>2

(* unlink_small_chunk *)
LEMMA UnlinkSmallFacts ==
  ASSUME NEW m \in State, NEW z, NEW X, Bins(m, z, X),
         NEW p \in DOMAIN z \ X, p \in Addr, z[p] \in SmallSizes
  PROVE  /\ OnlyBins(m, unlink_small_chunk(m, p, z[p]))
         /\ Bins(unlink_small_chunk(m, p, z[p]), z, X \cup {p})
<1> DEFINE s == z[p]
           b == out_of_bin(m.smallbins[s], p)
           sb == [m.smallbins EXCEPT ![s] = b]
           sm == IF b = <<>> THEN m.smallmap \ {s} ELSE m.smallmap
           n == unlink_small_chunk(m, p, s)
<1>1. /\ m.smallbins \in [SmallSizes -> Seq(Addr)] /\ m.treebins \in [LargeSizes -> Seq(Addr)]
      /\ m.smallmap \in SUBSET SmallSizes
  BY DEF State
<1>2. Lists(m.smallbins[s], z, X, s) /\ p \in Range(m.smallbins[s])
      /\ m.smallbins[s] \in Seq(Addr)
  BY <1>1 DEF Bins, Lists
<1>3. /\ Contains(m.smallbins[s], p)
      /\ b \in Seq(Addr) /\ Once(b) /\ Range(b) = Range(m.smallbins[s]) \ {p}
  BY <1>2, OutOfBinFacts DEF Lists
<1>5. n = WithBins(m, sm, sb, m.treebins)
  <2>1. n = [m EXCEPT !.smallbins = sb, !.smallmap = sm]
    <3>1. s \in SmallSizes
      OBVIOUS
    <3> HIDE DEF s
    <3> QED  BY <1>3, <3>1 DEF unlink_small_chunk, State
  <2> HIDE DEF sb, sm, n
  <2> QED  BY <2>1 DEF WithBins, State
<1>6. sb \in [SmallSizes -> Seq(Addr)] /\ sb[s] = b
      /\ \A t \in SmallSizes : t # s => sb[t] = m.smallbins[t]
  BY <1>1, <1>3
<1>7. sm \in SUBSET SmallSizes
  BY <1>1
<1> HIDE DEF sb, b, n
<1>8. OnlyBins(m, n) /\ n.smallmap = sm /\ n.smallbins = sb /\ n.treebins = m.treebins
  BY <1>1, <1>5, <1>6, <1>7, WithBinsFacts DEF OnlyBins
<1>9. ASSUME NEW t \in SmallSizes PROVE Lists(sb[t], z, X \cup {p}, t)
  <2>1. Lists(m.smallbins[t], z, X, t)
    BY DEF Bins
  <2> QED  BY <1>3, <1>6, <2>1, ListsFewer
<1>10. ASSUME NEW t \in LargeSizes PROVE Lists(m.treebins[t], z, X \cup {p}, t)
  <2>1. Lists(m.treebins[t], z, X, t)
    BY DEF Bins
  <2>2. t # s
    BY Small, LargeFacts DEF SmallSizes, LargeSizes
  <2> QED  BY <2>1, <2>2, ListsFewer
<1>11. sm = {t \in SmallSizes : sb[t] # <<>>}
  <2>1. m.smallbins[s] # <<>>
    BY <1>2, BinTyped
  <2>2. m.smallmap = {t \in SmallSizes : m.smallbins[t] # <<>>}
    BY DEF Bins
  <2> QED  BY <1>6, <2>1, <2>2
<1>12. Bins(n, z, X \cup {p})
  BY <1>8, <1>9, <1>10, <1>11 DEF Bins
<1> QED  BY <1>8, <1>12 DEF n

(* and unlink_large_chunk take it out. *)
LEMMA UnlinkLargeFacts ==
  ASSUME NEW m \in State, NEW z, NEW X, Bins(m, z, X),
         NEW p \in DOMAIN z \ X, p \in Addr, z[p] \in LargeSizes, chunksize(m, p) = z[p]
  PROVE  /\ OnlyBins(m, unlink_large_chunk(m, p))
         /\ Bins(unlink_large_chunk(m, p), z, X \cup {p})
<1> DEFINE s == z[p]
           b == out_of_bin(m.treebins[s], p)
           tb == [m.treebins EXCEPT ![s] = b]
           n == unlink_large_chunk(m, p)
<1>1. /\ m.smallbins \in [SmallSizes -> Seq(Addr)] /\ m.treebins \in [LargeSizes -> Seq(Addr)]
      /\ m.smallmap \in SUBSET SmallSizes
  BY DEF State
<1>2. Lists(m.treebins[s], z, X, s) /\ p \in Range(m.treebins[s])
      /\ m.treebins[s] \in Seq(Addr)
  BY <1>1 DEF Bins, Lists
<1>3. /\ Contains(m.treebins[s], p)
      /\ b \in Seq(Addr) /\ Once(b) /\ Range(b) = Range(m.treebins[s]) \ {p}
  BY <1>2, OutOfBinFacts DEF Lists
<1>5. n = WithBins(m, m.smallmap, m.smallbins, tb)
  <2>1. n = [m EXCEPT !.treebins = tb]
    <3>1. s \in LargeSizes /\ chunksize(m, p) = s
      OBVIOUS
    <3> HIDE DEF s
    <3> QED  BY <1>3, <3>1 DEF unlink_large_chunk, State
  <2> HIDE DEF tb, n
  <2> QED  BY <2>1 DEF WithBins, State
<1>6. tb \in [LargeSizes -> Seq(Addr)] /\ tb[s] = b
      /\ \A t \in LargeSizes : t # s => tb[t] = m.treebins[t]
  BY <1>1, <1>3
<1> HIDE DEF tb, b, n
<1>8. OnlyBins(m, n) /\ n.smallmap = m.smallmap /\ n.smallbins = m.smallbins /\ n.treebins = tb
  BY <1>1, <1>5, <1>6, WithBinsFacts DEF OnlyBins
<1>9. ASSUME NEW t \in LargeSizes PROVE Lists(tb[t], z, X \cup {p}, t)
  <2>1. Lists(m.treebins[t], z, X, t)
    BY DEF Bins
  <2> QED  BY <1>3, <1>6, <2>1, ListsFewer
<1>10. ASSUME NEW t \in SmallSizes PROVE Lists(m.smallbins[t], z, X \cup {p}, t)
  <2>1. Lists(m.smallbins[t], z, X, t)
    BY DEF Bins
  <2>2. t # s
    BY Small, LargeFacts DEF SmallSizes, LargeSizes
  <2> QED  BY <2>1, <2>2, ListsFewer
<1>12. Bins(n, z, X \cup {p})
  BY <1>8, <1>9, <1>10 DEF Bins
<1> QED  BY <1>8, <1>12 DEF n

(* unlink_chunk finds a chunk that is binned, and takes it out.            *)
LEMMA UnlinkChunkFacts ==
  ASSUME NEW m \in State, NEW z, NEW X, Bins(m, z, X),
         NEW p \in DOMAIN z \ X, p \in Addr, z[p] \in Nat, z[p] >= 4, z[p] <= BrkLimit,
         chunksize(m, p) = z[p]
  PROVE  /\ OnlyBins(m, unlink_chunk(m, p, z[p]))
         /\ Bins(unlink_chunk(m, p, z[p]), z, X \cup {p})
<1>1. CASE is_small(z[p])
  <2>1. z[p] \in SmallSizes /\ unlink_chunk(m, p, z[p]) = unlink_small_chunk(m, p, z[p])
    BY <1>1, LargeFacts DEF unlink_chunk
  <2> QED  BY <2>1, UnlinkSmallFacts
<1>2. CASE ~is_small(z[p])
  <2>1. z[p] \in LargeSizes /\ unlink_chunk(m, p, z[p]) = unlink_large_chunk(m, p)
    BY <1>2, LargeFacts DEF unlink_chunk
  <2> QED  BY <2>1, UnlinkLargeFacts
<1> QED  BY <1>1, <1>2

-------------------------------------------------------------------------------
(* Where the chunks are.  z is the function from the first word of a chunk *)
(* to its size, top's included; E is where top ends.  The chunks of the    *)
(* i-th segment reach from first(seg, i) to stop(seg, E, i), where the     *)
(* first segment has top's foot and the others a fencepost.                *)
stop(seg, E, i) == IF i = 1 THEN E ELSE seg[i].record + SegmentRecord
first(seg, i) == align_as_chunk(seg[i].base)
Stops(seg, E) == {stop(seg, E, i) : i \in DOMAIN seg}
EndOf(s) == s.base + s.size

Segs(seg, E, lo, hi) ==
    /\ seg \in Seq(SegmentSet) /\ 1 \in DOMAIN seg /\ seg[1].record = NULL
    /\ E \in Nat /\ E + TOP_FOOT_SIZE = EndOf(seg[1])
    /\ lo \in Addr \ {0} /\ hi \in Addr
    /\ \A i \in DOMAIN seg : lo <= seg[i].base /\ EndOf(seg[i]) <= hi
                             /\ first(seg, i) < stop(seg, E, i)
    /\ \A i \in DOMAIN seg \ {1} : stop(seg, E, i) + 2 <= EndOf(seg[i])
    /\ \A i, j \in DOMAIN seg : i < j => EndOf(seg[j]) <= seg[i].base

Layout(z, seg, E) ==
    /\ \A a \in DOMAIN z : a \in Nat /\ Even(a) /\ z[a] \in Nat /\ z[a] > 0
    /\ \A a \in DOMAIN z : a \notin Stops(seg, E)
    /\ \A a \in DOMAIN z : a + z[a] \in DOMAIN z \cup Stops(seg, E)
    /\ \A a \in DOMAIN z : \A b \in DOMAIN z \cup Stops(seg, E) : b <= a \/ a + z[a] <= b
    /\ \A a \in DOMAIN z : \E i \in DOMAIN seg :
           seg[i].base <= a /\ a + z[a] <= stop(seg, E, i)
    /\ \A i \in DOMAIN seg : first(seg, i) \in DOMAIN z
    /\ \A b \in DOMAIN z : \/ \E i \in DOMAIN seg : b = first(seg, i)
                           \/ \E a \in DOMAIN z : a + z[a] = b
    /\ \A a \in DOMAIN z : a + z[a] # E => Even(z[a]) /\ z[a] >= 4

(* The chunk at p in two after k words, and together with the next one.    *)
Cut(z, p, k) ==
    [a \in DOMAIN z \cup {p + k} |->
        IF a = p THEN k ELSE IF a = p + k THEN z[p] - k ELSE z[a]]
Join(z, p) ==
    [a \in DOMAIN z \ {p + z[p]} |-> IF a = p THEN z[p] + z[p + z[p]] ELSE z[a]]

(* The first word of a segment's first chunk is the least even one of it. *)
LEMMA FirstFacts ==
  ASSUME NEW b \in Nat
  PROVE  /\ align_as_chunk(b) \in Nat /\ Even(align_as_chunk(b))
         /\ b <= align_as_chunk(b) /\ align_as_chunk(b) <= b + 1
         /\ \A a \in Nat : Even(a) /\ b <= a => align_as_chunk(b) <= a
BY DEF align_as_chunk, align_offset, MALLOC_ALIGNMENT, Even

(* The numbers that describe a segment, and what bounds them. *)
LEMMA SegTyped ==
  ASSUME NEW seg, NEW E, NEW lo, NEW hi, Segs(seg, E, lo, hi)
  PROVE  /\ \A i \in DOMAIN seg :
                /\ i \in Nat /\ i >= 1
                /\ seg[i].base \in Nat /\ seg[i].base > 0 /\ seg[i].size \in Nat
                /\ seg[i].record \in Addr
                /\ stop(seg, E, i) \in Nat /\ stop(seg, E, i) + 2 <= EndOf(seg[i])
                /\ EndOf(seg[i]) \in Addr
                /\ first(seg, i) \in Nat /\ Even(first(seg, i))
                /\ seg[i].base <= first(seg, i) /\ first(seg, i) <= seg[i].base + 1
                /\ \A a \in Nat : Even(a) /\ seg[i].base <= a => first(seg, i) <= a
         /\ lo \in Nat /\ lo > 0 /\ hi \in Nat /\ hi <= BrkLimit
<1>1. DOMAIN seg = 1 .. Len(seg) /\ Len(seg) \in Nat /\ \A i \in DOMAIN seg : seg[i] \in SegmentSet
  BY LenProperties, ElementOfSeq DEF Segs
<1>2. lo \in Nat /\ lo > 0 /\ hi \in Nat /\ hi <= BrkLimit
  BY Small DEF Segs
<1>3. ASSUME NEW i \in DOMAIN seg
      PROVE  /\ i \in Nat /\ i >= 1
             /\ seg[i].base \in Nat /\ seg[i].base > 0 /\ seg[i].size \in Nat
             /\ seg[i].record \in Addr
             /\ stop(seg, E, i) \in Nat /\ stop(seg, E, i) + 2 <= EndOf(seg[i])
             /\ EndOf(seg[i]) \in Addr
  <2>1. i \in Nat /\ i >= 1 /\ seg[i] \in SegmentSet
    BY <1>1
  <2>2. seg[i].base \in Nat /\ seg[i].size \in Nat /\ seg[i].record \in Addr
        /\ seg[i].record \in Nat
    BY <2>1, Small DEF SegmentSet
  <2>3. lo <= seg[i].base /\ EndOf(seg[i]) <= hi
    BY DEF Segs
  <2>4. EndOf(seg[i]) \in Addr /\ EndOf(seg[i]) \in Nat
    BY <1>2, <2>2, <2>3, Small DEF EndOf
  <2>5. stop(seg, E, i) \in Nat /\ stop(seg, E, i) + 2 <= EndOf(seg[i])
    <3>1. CASE i = 1
      BY <2>4, <3>1, Small DEF stop, Segs
    <3>2. CASE i # 1
      BY <2>2, <3>2, Small, SMTT(40) DEF stop, Segs
    <3> QED  BY <3>1, <3>2
  <2> QED  BY <1>2, <2>1, <2>2, <2>3, <2>4, <2>5
<1>4. ASSUME NEW i \in DOMAIN seg
      PROVE  /\ first(seg, i) \in Nat /\ Even(first(seg, i))
             /\ seg[i].base <= first(seg, i) /\ first(seg, i) <= seg[i].base + 1
             /\ \A a \in Nat : Even(a) /\ seg[i].base <= a => first(seg, i) <= a
  BY <1>3, FirstFacts DEF first
<1> QED  BY <1>2, <1>3, <1>4

(* Every chunk is in memory, above the least address.                      *)
LEMMA LayoutBounds ==
  ASSUME NEW seg, NEW E, NEW lo, NEW hi, Segs(seg, E, lo, hi),
         NEW z, Layout(z, seg, E), NEW a \in DOMAIN z
  PROVE  /\ a \in Addr /\ a \in Nat /\ a # 0 /\ lo <= a /\ Even(a)
         /\ z[a] \in Nat /\ z[a] > 0 /\ z[a] \in size_t \ {0} /\ z[a] <= BrkLimit
         /\ a + z[a] \in Addr /\ a + z[a] \in Nat /\ a + z[a] <= hi
<1>1. a \in Nat /\ z[a] \in Nat /\ z[a] > 0 /\ Even(a)
  BY DEF Layout
<1>2. PICK i \in DOMAIN seg : seg[i].base <= a /\ a + z[a] <= stop(seg, E, i)
  BY DEF Layout
<1>3. lo <= seg[i].base /\ EndOf(seg[i]) <= hi
  BY DEF Segs
<1>4. /\ stop(seg, E, i) \in Nat /\ stop(seg, E, i) + 2 <= EndOf(seg[i])
      /\ EndOf(seg[i]) \in Nat /\ seg[i].base \in Nat
      /\ lo \in Nat /\ lo > 0 /\ hi \in Nat /\ hi <= BrkLimit
  BY SegTyped, Small
<1>5. lo <= a /\ a + z[a] <= hi /\ a # 0
  BY <1>1, <1>2, <1>3, <1>4
<1> QED  BY <1>1, <1>4, <1>5, Small

(* Two chunks do not end at the same place, and none ends where a segment  *)
(* begins.                                                                 *)
LEMMA LayoutEnds ==
  ASSUME NEW z, NEW seg, NEW E, Layout(z, seg, E), NEW a \in DOMAIN z, NEW b \in DOMAIN z,
         a + z[a] = b + z[b]
  PROVE  a = b
<1>1. a \in Nat /\ b \in Nat /\ z[a] \in Nat /\ z[b] \in Nat /\ z[a] > 0 /\ z[b] > 0
      /\ (b <= a \/ a + z[a] <= b) /\ (a <= b \/ b + z[b] <= a)
  BY DEF Layout
<1> QED  BY <1>1

(* No chunk ends where a segment begins. *)
LEMMA NotFirst ==
  ASSUME NEW seg, NEW E, NEW lo, NEW hi, Segs(seg, E, lo, hi),
         NEW z, Layout(z, seg, E), NEW a \in DOMAIN z, NEW j \in DOMAIN seg
  PROVE  a + z[a] # first(seg, j)
<1> SUFFICES ASSUME a + z[a] = first(seg, j) PROVE FALSE
  OBVIOUS
<1>1. a \in Nat /\ z[a] \in Nat /\ z[a] > 0 /\ Even(a)
  BY DEF Layout
<1>2. PICK i \in DOMAIN seg : seg[i].base <= a /\ a + z[a] <= stop(seg, E, i)
  BY DEF Layout
<1>3. \A k \in DOMAIN seg :
         /\ k \in Nat /\ seg[k].base \in Nat
         /\ stop(seg, E, k) \in Nat /\ stop(seg, E, k) + 2 <= EndOf(seg[k])
         /\ EndOf(seg[k]) \in Nat /\ first(seg, k) \in Nat
         /\ seg[k].base <= first(seg, k) /\ first(seg, k) < stop(seg, E, k)
  <2> TAKE k \in DOMAIN seg
  <2>1. first(seg, k) < stop(seg, E, k)
    BY DEF Segs
  <2>2. EndOf(seg[k]) \in Nat
    BY SegTyped, Small
  <2> QED  BY <2>1, <2>2, SegTyped
<1>4. CASE i = j
  <2>1. first(seg, j) <= a
    BY <1>1, <1>2, <1>4, SegTyped
  <2> QED  BY <1>1, <1>3, <2>1
<1>5. CASE i < j
  <2>1. EndOf(seg[j]) <= seg[i].base
    BY <1>5 DEF Segs
  <2> QED  BY <1>1, <1>2, <1>3, <2>1
<1>6. CASE j < i
  <2>1. EndOf(seg[i]) <= seg[j].base
    BY <1>6 DEF Segs
  <2> QED  BY <1>1, <1>2, <1>3, <2>1
<1> QED  BY <1>3, <1>4, <1>5, <1>6

(* A chunk cut in two leaves a layout, *)
LEMMA CutLayout ==
  ASSUME NEW seg, NEW E, NEW lo, NEW hi, Segs(seg, E, lo, hi), NEW z, Layout(z, seg, E),
         NEW p \in DOMAIN z, NEW k \in Nat, Even(k), 4 <= k, k < z[p],
         p + z[p] # E => z[p] - k >= 4
  PROVE  Layout(Cut(z, p, k), seg, E)
<1> DEFINE y == Cut(z, p, k)
           r == p + k
           S == Stops(seg, E)
<1>1. /\ DOMAIN y = DOMAIN z \cup {r} /\ y[p] = k /\ y[r] = z[p] - k
      /\ \A a \in DOMAIN z \ {p, r} : y[a] = z[a]
  <2>1. r # p
    BY DEF Layout
  <2> QED  BY <2>1 DEF Cut
<1> HIDE DEF y
<1>0. E \in Nat /\ \A b \in S : b \in Nat
  <2>1. \A i \in DOMAIN seg : stop(seg, E, i) \in Nat
    BY SegTyped
  <2> QED  BY <2>1 DEF Segs, Stops
<1>2. /\ \A a \in DOMAIN z : a \in Nat /\ Even(a) /\ z[a] \in Nat /\ z[a] > 0 /\ a \notin S
      /\ \A a \in DOMAIN z : a + z[a] \in DOMAIN z \cup S
      /\ \A a \in DOMAIN z : \A b \in DOMAIN z \cup S : b <= a \/ a + z[a] <= b
  BY DEF Layout
<1>3. r \in Nat /\ Even(r) /\ p < r /\ r < p + z[p] /\ p \in Nat /\ z[p] \in Nat
      /\ r + (z[p] - k) = p + z[p]
  <2>1. p \in Nat /\ Even(p) /\ z[p] \in Nat
    BY <1>2
  <2>2. Even(r)
    BY <2>1, EvenSum
  <2> QED  BY <2>1, <2>2
<1>4. r \notin DOMAIN z /\ r \notin S
  BY <1>2, <1>3
<1>5. r + y[r] = p + z[p] /\ p + y[p] = r
  BY <1>1, <1>3
<1> HIDE DEF r
<1>6. ASSUME NEW a \in DOMAIN y
      PROVE  a \in Nat /\ Even(a) /\ y[a] \in Nat /\ y[a] > 0 /\ a \notin S
             /\ a + y[a] \in DOMAIN y \cup S
  <2>1. CASE a = p
    BY <1>1, <1>2, <1>5, <2>1
  <2>2. CASE a = r
    BY <1>1, <1>2, <1>3, <1>4, <1>5, <2>2
  <2>3. CASE a \notin {p, r}
    BY <1>1, <1>2, <2>3
  <2> QED  BY <2>1, <2>2, <2>3
<1>7. ASSUME NEW a \in DOMAIN y, NEW b \in DOMAIN y \cup S
      PROVE  b <= a \/ a + y[a] <= b
  <2>0. b \in Nat
    BY <1>0, <1>6
  <2>1. CASE a = p
    <3>1. b = r \/ b \in DOMAIN z \cup S
      BY <1>1
    <3> QED  BY <1>2, <1>3, <1>5, <2>0, <2>1, <3>1
  <2>2. CASE a = r
    <3>1. b = r \/ b \in DOMAIN z \cup S
      BY <1>1
    <3>2. CASE b = r
      BY <1>3, <2>2, <3>2
    <3>3. CASE b # r
      <4>1. b <= p \/ p + z[p] <= b
        BY <1>2, <3>1, <3>3
      <4> QED  BY <1>3, <1>5, <2>0, <2>2, <4>1
    <3> QED  BY <3>2, <3>3
  <2>3. CASE a \notin {p, r}
    <3>1. a \in DOMAIN z /\ y[a] = z[a] /\ a \in Nat /\ z[a] \in Nat
      BY <1>1, <1>2, <2>3
    <3>2. CASE b = r
      <4>1. (p <= a \/ a + z[a] <= p) /\ (a <= p \/ p + z[p] <= a)
        BY <1>2, <3>1
      <4> QED  BY <1>3, <2>3, <3>1, <3>2, <4>1
    <3>3. CASE b # r
      BY <1>1, <1>2, <3>1, <3>3
    <3> QED  BY <3>2, <3>3
  <2> QED  BY <2>1, <2>2, <2>3
<1>8. ASSUME NEW a \in DOMAIN y
      PROVE  \E i \in DOMAIN seg : seg[i].base <= a /\ a + y[a] <= stop(seg, E, i)
  <2>1. CASE a \notin {p, r}
    BY <1>1, <2>1 DEF Layout
  <2>2. CASE a \in {p, r}
    <3>1. PICK i \in DOMAIN seg : seg[i].base <= p /\ p + z[p] <= stop(seg, E, i)
      BY DEF Layout
    <3>2. stop(seg, E, i) \in Nat /\ seg[i].base \in Nat
      BY SegTyped
    <3>3. p <= a /\ a + y[a] <= p + z[p] /\ a \in Nat /\ y[a] \in Nat
      BY <1>3, <1>5, <1>6, <2>2
    <3>4. a + y[a] <= stop(seg, E, i)
      BY <1>3, <3>1, <3>2, <3>3
    <3>5. a >= seg[i].base
      <4>1. CASE a = p
        BY <3>1, <4>1
      <4>2. CASE a = r
        BY <1>3, <3>1, <4>2, SegTyped
      <4> QED  BY <2>2, <4>1, <4>2
    <3> QED  BY <3>1, <3>4, <3>5
  <2> QED  BY <2>1, <2>2
<1>9. \A i \in DOMAIN seg : first(seg, i) \in DOMAIN y
  BY <1>1 DEF Layout
<1>10. ASSUME NEW b \in DOMAIN y
       PROVE  \/ \E i \in DOMAIN seg : b = first(seg, i)
              \/ \E a \in DOMAIN y : a + y[a] = b
  <2>1. CASE b = r
    BY <1>1, <1>5, <2>1
  <2>2. CASE b # r
    <3>1. b \in DOMAIN z
      BY <1>1, <2>2
    <3>2. CASE \E i \in DOMAIN seg : b = first(seg, i)
      BY <3>2
    <3>3. CASE \E a \in DOMAIN z : a + z[a] = b
      <4>1. PICK a \in DOMAIN z : a + z[a] = b
        BY <3>3
      <4>2. CASE a = p
        BY <1>1, <1>5, <4>1, <4>2
      <4>3. CASE a # p
        BY <1>1, <1>4, <4>1, <4>3
      <4> QED  BY <4>2, <4>3
    <3> QED  BY <3>1, <3>2, <3>3 DEF Layout
  <2> QED  BY <2>1, <2>2
<1>11. ASSUME NEW a \in DOMAIN y, a + y[a] # E PROVE Even(y[a]) /\ y[a] >= 4
  <2>1. CASE a = p
    BY <1>1, <2>1
  <2>2. CASE a = r
    <3>1. p + z[p] # E
      BY <1>5, <1>11, <2>2
    <3>2. Even(z[p]) /\ z[p] - k >= 4
      BY <3>1 DEF Layout
    <3> QED  BY <1>1, <1>3, <2>2, <3>2, EvenSum
  <2>3. CASE a \notin {p, r}
    BY <1>1, <1>11, <2>3 DEF Layout
  <2> QED  BY <2>1, <2>2, <2>3
<1>12. Layout(y, seg, E)
  BY <1>6, <1>7, <1>8, <1>9, <1>10, <1>11 DEF Layout
<1> QED  BY <1>12 DEF y

(* and so do two that become one. *)
LEMMA JoinLayout ==
  ASSUME NEW seg, NEW E, NEW lo, NEW hi, Segs(seg, E, lo, hi), NEW z, Layout(z, seg, E),
         NEW p \in DOMAIN z, p + z[p] \in DOMAIN z
  PROVE  Layout(Join(z, p), seg, E)
<1> DEFINE y == Join(z, p)
           r == p + z[p]
           S == Stops(seg, E)
<1>0. E \in Nat /\ \A b \in S : b \in Nat
  <2>1. \A i \in DOMAIN seg : stop(seg, E, i) \in Nat
    BY SegTyped
  <2> QED  BY <2>1 DEF Segs, Stops
<1>2. /\ \A a \in DOMAIN z : a \in Nat /\ Even(a) /\ z[a] \in Nat /\ z[a] > 0 /\ a \notin S
      /\ \A a \in DOMAIN z : a + z[a] \in DOMAIN z \cup S
      /\ \A a \in DOMAIN z : \A b \in DOMAIN z \cup S : b <= a \/ a + z[a] <= b
  BY DEF Layout
<1>3. p \in Nat /\ z[p] \in Nat /\ r \in Nat /\ z[r] \in Nat /\ r # p /\ r \in DOMAIN z
      /\ p < r /\ z[r] > 0
  BY <1>2
<1>1. /\ DOMAIN y = DOMAIN z \ {r} /\ y[p] = z[p] + z[r]
      /\ \A a \in DOMAIN z \ {p, r} : y[a] = z[a]
  BY <1>3 DEF Join
<1>5. p + y[p] = r + z[r]
  BY <1>1, <1>3
<1>4. \A a \in DOMAIN z : a + z[a] = r => a = p
  <2> TAKE a \in DOMAIN z
  <2> QED  BY LayoutEnds
<1> HIDE DEF y, r
<1>6. ASSUME NEW a \in DOMAIN y
      PROVE  a \in Nat /\ Even(a) /\ y[a] \in Nat /\ y[a] > 0 /\ a \notin S
             /\ a + y[a] \in DOMAIN y \cup S
  <2>1. CASE a = p
    <3>1. r + z[r] # r
      BY <1>3
    <3> QED  BY <1>1, <1>2, <1>3, <1>5, <2>1, <3>1
  <2>3. CASE a # p
    BY <1>1, <1>2, <1>4, <2>3
  <2> QED  BY <2>1, <2>3
<1>7. ASSUME NEW a \in DOMAIN y, NEW b \in DOMAIN y \cup S
      PROVE  b <= a \/ a + y[a] <= b
  <2>0. b \in Nat /\ b \in DOMAIN z \cup S
    BY <1>0, <1>1, <1>6
  <2>1. CASE a = p
    <3>1. b <= p \/ r <= b
      BY <1>2, <2>0, <2>1 DEF r
    <3>2. b <= r \/ r + z[r] <= b
      BY <1>2, <1>3, <2>0
    <3>3. b # r
      <4>1. r \notin S
        BY <1>2, <1>3
      <4> QED  BY <1>1, <4>1
    <3> QED  BY <1>3, <1>5, <2>0, <2>1, <3>1, <3>2, <3>3
  <2>3. CASE a # p
    BY <1>1, <1>2, <2>0, <2>3
  <2> QED  BY <2>1, <2>3
<1>8. ASSUME NEW a \in DOMAIN y
      PROVE  \E i \in DOMAIN seg : seg[i].base <= a /\ a + y[a] <= stop(seg, E, i)
  <2>1. CASE a # p
    BY <1>1, <2>1 DEF Layout
  <2>2. CASE a = p
    <3>1. PICK i \in DOMAIN seg : seg[i].base <= r /\ r + z[r] <= stop(seg, E, i)
      BY <1>3 DEF Layout
    <3>2. PICK j \in DOMAIN seg : seg[j].base <= p /\ r <= stop(seg, E, j)
      BY <1>3 DEF Layout, r
    <3>3. /\ stop(seg, E, i) \in Nat /\ seg[i].base \in Nat /\ EndOf(seg[i]) \in Nat
          /\ stop(seg, E, j) \in Nat /\ seg[j].base \in Nat /\ EndOf(seg[j]) \in Nat
          /\ stop(seg, E, i) + 2 <= EndOf(seg[i]) /\ stop(seg, E, j) + 2 <= EndOf(seg[j])
          /\ i \in Nat /\ j \in Nat
      BY SegTyped, Small
    <3>4. i = j
      <4>1. CASE i < j
        <5>1. EndOf(seg[j]) <= seg[i].base
          BY <4>1 DEF Segs
        <5> QED  BY <1>3, <3>1, <3>2, <3>3, <5>1
      <4>2. CASE j < i
        <5>1. EndOf(seg[i]) <= seg[j].base
          BY <4>2 DEF Segs
        <5> QED  BY <1>3, <3>1, <3>2, <3>3, <5>1
      <4> QED  BY <3>3, <4>1, <4>2
    <3> QED  BY <1>5, <2>2, <3>1, <3>2, <3>4
  <2> QED  BY <2>1, <2>2
<1>9. ASSUME NEW i \in DOMAIN seg PROVE first(seg, i) \in DOMAIN y
  <2>1. first(seg, i) # r
    BY NotFirst DEF r
  <2> QED  BY <1>1, <2>1 DEF Layout
<1>10. ASSUME NEW b \in DOMAIN y
       PROVE  \/ \E i \in DOMAIN seg : b = first(seg, i)
              \/ \E a \in DOMAIN y : a + y[a] = b
  <2>1. b \in DOMAIN z /\ b # r
    BY <1>1
  <2>2. CASE \E a \in DOMAIN z : a + z[a] = b
    <3>1. PICK a \in DOMAIN z : a + z[a] = b
      BY <2>2
    <3>2. CASE a = p
      BY <2>1, <3>1, <3>2 DEF r
    <3>3. CASE a = r
      <4>1. p \in DOMAIN y /\ p + y[p] = b
        BY <1>1, <1>3, <1>5, <3>1, <3>3
      <4> QED  BY <4>1
    <3>4. CASE a \notin {p, r}
      BY <1>1, <3>1, <3>4
    <3> QED  BY <3>2, <3>3, <3>4
  <2> QED  BY <2>1, <2>2 DEF Layout
<1>11. ASSUME NEW a \in DOMAIN y, a + y[a] # E PROVE Even(y[a]) /\ y[a] >= 4
  <2>1. CASE a = p
    <3>1. r + z[r] # E
      BY <1>5, <1>11, <2>1
    <3>2. Even(z[r]) /\ z[r] >= 4
      BY <1>3, <3>1 DEF Layout
    <3>3. r # E
      <4>1. E \in S
        BY DEF Segs, Stops, stop
      <4> QED  BY <1>2, <1>3, <4>1
    <3>4. Even(z[p]) /\ z[p] >= 4
      BY <3>3 DEF Layout, r
    <3>5. Even(z[p] + z[r])
      BY <1>3, <3>2, <3>4, EvenSum
    <3> QED  BY <1>1, <1>3, <2>1, <3>2, <3>4, <3>5
  <2>3. CASE a # p
    BY <1>1, <1>11, <2>3 DEF Layout
  <2> QED  BY <2>1, <2>3
<1>12. Layout(y, seg, E)
  BY <1>6, <1>7, <1>8, <1>9, <1>10, <1>11 DEF Layout
<1> QED  BY <1>12 DEF y

(* What is cut and what is joined.                                         *)
LEMMA CutFacts ==
  ASSUME NEW z, NEW seg, NEW E, Layout(z, seg, E),
         NEW p \in DOMAIN z, NEW k \in Nat, 0 < k, k < z[p]
  PROVE  /\ DOMAIN Cut(z, p, k) = DOMAIN z \cup {p + k} /\ p + k \notin DOMAIN z
         /\ Cut(z, p, k)[p] = k /\ Cut(z, p, k)[p + k] = z[p] - k
         /\ p + k + (z[p] - k) = p + z[p] /\ p # p + k
         /\ \A a \in DOMAIN z \ {p} : Cut(z, p, k)[a] = z[a]
<1>1. p \in Nat /\ z[p] \in Nat /\ \A b \in DOMAIN z : b <= p \/ p + z[p] <= b
  BY DEF Layout
<1>2. p + k \notin DOMAIN z /\ p # p + k
  BY <1>1
<1> QED  BY <1>1, <1>2 DEF Cut

(* The same of two chunks that become one. *)
LEMMA JoinFacts ==
  ASSUME NEW z, NEW seg, NEW E, Layout(z, seg, E), NEW p \in DOMAIN z, p + z[p] \in DOMAIN z
  PROVE  /\ DOMAIN Join(z, p) = DOMAIN z \ {p + z[p]} /\ p # p + z[p]
         /\ Join(z, p)[p] = z[p] + z[p + z[p]]
         /\ p + Join(z, p)[p] = (p + z[p]) + z[p + z[p]]
         /\ \A a \in DOMAIN z \ {p, p + z[p]} : Join(z, p)[a] = z[a]
<1>1. p \in Nat /\ z[p] \in Nat /\ z[p] > 0 /\ z[p + z[p]] \in Nat
  BY DEF Layout
<1>2. p # p + z[p]
  BY <1>1
<1> QED  BY <1>1, <1>2 DEF Join

-------------------------------------------------------------------------------
(* The headers agree with the layout, where U are the chunks in use: but   *)
(* for the chunks of H, whose own header and whose mark in the next one    *)
(* are about to be written.                                                *)
Tags(h, z, seg, E, U, H) ==
    /\ \A a \in DOMAIN z \ H : /\ h[a].size = z[a]
                               /\ h[a].cinuse <=> a \in U
                               /\ h[a + z[a]].pinuse <=> a \in U
    /\ \A a \in DOMAIN z \ (H \cup U) : a + z[a] # E => h[a + z[a]].prev_foot = z[a]
    /\ \A i \in DOMAIN seg : h[first(seg, i)].pinuse
    /\ ~h[E].pinuse
    /\ \A i \in DOMAIN seg \ {1} : h[stop(seg, E, i)].size = 1 /\ h[stop(seg, E, i)].cinuse

(* The mark in the header of p that the chunk before it is in use may be   *)
(* set: there is none, or it is in use, or its header is still to come.    *)
MaySet(h, z, H, p) == h[p].pinuse \/ \E a \in H \cap DOMAIN z : a + z[a] = p

(* No chunk begins where the chunks of a segment end. *)
LEMMA StopsFacts ==
  ASSUME NEW seg, NEW E, NEW lo, NEW hi, Segs(seg, E, lo, hi), NEW z, Layout(z, seg, E),
         NEW p \in DOMAIN z
  PROVE  /\ p # E
         /\ \A i \in DOMAIN seg : p # stop(seg, E, i)
         /\ E \in Addr /\ \A i \in DOMAIN seg : stop(seg, E, i) \in Addr
         /\ \A i \in DOMAIN seg : first(seg, i) \in DOMAIN z /\ first(seg, i) \in Addr
         /\ E \in Stops(seg, E)
<1>1. E \in Stops(seg, E) /\ E = stop(seg, E, 1) /\ 1 \in DOMAIN seg
  BY DEF Segs, Stops, stop
<1>2. \A i \in DOMAIN seg : stop(seg, E, i) \in Stops(seg, E)
  BY DEF Stops
<1>3. ASSUME NEW i \in DOMAIN seg PROVE stop(seg, E, i) \in Addr
  <2>1. stop(seg, E, i) \in Nat /\ stop(seg, E, i) + 2 <= EndOf(seg[i]) /\ EndOf(seg[i]) \in Addr
    BY SegTyped
  <2> QED  BY <2>1, Small
<1>4. ASSUME NEW i \in DOMAIN seg PROVE first(seg, i) \in DOMAIN z /\ first(seg, i) \in Addr
  <2>1. first(seg, i) \in DOMAIN z
    BY DEF Layout
  <2> QED  BY <2>1, LayoutBounds
<1>5. p \notin Stops(seg, E)
  BY DEF Layout
<1> QED  BY <1>1, <1>2, <1>3, <1>4, <1>5

(* A header that is about to be written says nothing. *)
LEMMA TagsHole ==
  ASSUME NEW h, NEW z, NEW seg, NEW E, NEW U, NEW H, Tags(h, z, seg, E, U, H), NEW p
  PROVE  Tags(h, z, seg, E, U \ {p}, H \cup {p})
BY DEF Tags

(* The header of a chunk is written as that of one in use, *)
LEMMA TagsUsed ==
  ASSUME NEW seg, NEW E, NEW lo, NEW hi, Segs(seg, E, lo, hi), NEW z, Layout(z, seg, E),
         NEW U, NEW H, NEW h, Tags(h, z, seg, E, U, H),
         NEW p \in H \cap DOMAIN z, p + z[p] \in DOMAIN z,
         NEW g, MarksUsed(h, g, p, z[p]),
         \/ (g[p].pinuse <=> h[p].pinuse) /\ g[p].prev_foot = h[p].prev_foot
         \/ g[p].pinuse /\ MaySet(h, z, H, p)
  PROVE  Tags(g, z, seg, E, U \cup {p}, H \ {p})
<1> DEFINE r == p + z[p]
<1>1. /\ \A q \in Addr \ {p, r} : g[q] = h[q]
      /\ g[p].size = z[p] /\ g[p].cinuse
      /\ g[r].size = h[r].size /\ (g[r].cinuse <=> h[r].cinuse)
      /\ g[r].pinuse
  BY DEF MarksUsed
<1>2. r \in DOMAIN z /\ r # p
  BY DEF Layout
<1>3. \A a \in DOMAIN z : a \in Addr /\ a + z[a] \in Addr
  BY LayoutBounds
<1>4. \A a \in DOMAIN z : a + z[a] = r => a = p
  <2> TAKE a \in DOMAIN z
  <2> QED  BY LayoutEnds
<1> HIDE DEF r
<1>5. ASSUME NEW a \in DOMAIN z \ (H \ {p})
      PROVE  /\ g[a].size = z[a]
             /\ g[a].cinuse <=> a \in U \cup {p}
             /\ g[a + z[a]].pinuse <=> a \in U \cup {p}
  <2>1. CASE a = p
    BY <1>1, <2>1 DEF r
  <2>2. CASE a # p
    <3>1. h[a].size = z[a] /\ (h[a].cinuse <=> a \in U) /\ (h[a + z[a]].pinuse <=> a \in U)
      BY <2>2 DEF Tags
    <3>2. g[a].size = h[a].size /\ (g[a].cinuse <=> h[a].cinuse)
      BY <1>1, <1>3, <2>2
    <3>3. a + z[a] # r
      BY <1>4, <2>2
    <3>4. g[a + z[a]].pinuse <=> h[a + z[a]].pinuse
      <4>1. CASE a + z[a] = p
        <5>1. a \notin H
          BY <2>2
        <5>2. ASSUME NEW b \in H \cap DOMAIN z, b + z[b] = p PROVE FALSE
          <6>1. b = a
            BY <4>1, <5>2, LayoutEnds
          <6> QED  BY <5>1, <6>1
        <5> QED  BY <4>1, <5>2 DEF MaySet
      <4>2. CASE a + z[a] # p
        BY <1>1, <1>3, <3>3, <4>2
      <4> QED  BY <4>1, <4>2
    <3> QED  BY <2>2, <3>1, <3>2, <3>4
  <2> QED  BY <2>1, <2>2
<1>6. ASSUME NEW a \in DOMAIN z \ ((H \ {p}) \cup (U \cup {p})), a + z[a] # E
      PROVE  g[a + z[a]].prev_foot = z[a]
  <2>1. a # p /\ a \notin H /\ a \notin U
    OBVIOUS
  <2>2. h[a + z[a]].prev_foot = z[a]
    BY <1>6, <2>1 DEF Tags
  <2>3. a + z[a] # r
    BY <1>4, <2>1
  <2>4. a + z[a] # p \/ a + z[a] = p
    OBVIOUS
  <2>5. CASE a + z[a] = p
    <3>1. ~h[p].pinuse
      BY <2>1, <2>5 DEF Tags
    <3>2. ASSUME NEW b \in H \cap DOMAIN z, b + z[b] = p PROVE FALSE
      <4>1. b = a
        BY <2>5, <3>2, LayoutEnds
      <4> QED  BY <2>1, <4>1
    <3> QED  BY <2>2, <2>5, <3>1, <3>2 DEF MaySet
  <2> QED  BY <1>1, <1>3, <2>2, <2>3, <2>5
<1>7. ASSUME NEW i \in DOMAIN seg PROVE g[first(seg, i)].pinuse
  <2>1. h[first(seg, i)].pinuse /\ first(seg, i) \in Addr
    BY StopsFacts DEF Tags
  <2>2. first(seg, i) # r
    BY NotFirst DEF r
  <2>3. CASE first(seg, i) = p
    BY <2>1, <2>3 DEF MaySet
  <2> QED  BY <1>1, <2>1, <2>2, <2>3
<1>8. \A q \in Stops(seg, E) : q \in Addr => g[q] = h[q]
  <2>1. \A q \in Stops(seg, E) : q # p /\ q # r
    BY <1>2 DEF Layout
  <2> QED  BY <1>1, <2>1
<1>9. ~g[E].pinuse
  BY <1>8, StopsFacts DEF Tags
<1>10. ASSUME NEW i \in DOMAIN seg \ {1}
       PROVE  g[stop(seg, E, i)].size = 1 /\ g[stop(seg, E, i)].cinuse
  <2>1. stop(seg, E, i) \in Stops(seg, E) /\ stop(seg, E, i) \in Addr
    BY StopsFacts DEF Stops
  <2> QED  BY <1>8, <2>1 DEF Tags
<1> QED  BY <1>5, <1>6, <1>7, <1>9, <1>10 DEF Tags

(* as that of a free one, *)
LEMMA TagsFree ==
  ASSUME NEW seg, NEW E, NEW lo, NEW hi, Segs(seg, E, lo, hi), NEW z, Layout(z, seg, E),
         NEW U, NEW H, NEW h, Tags(h, z, seg, E, U, H),
         NEW p \in (H \cap DOMAIN z) \ U, p + z[p] \in DOMAIN z,
         NEW g, MarksFree(h, g, p, z[p]), MaySet(h, z, H, p)
  PROVE  Tags(g, z, seg, E, U, H \ {p})
<1> DEFINE r == p + z[p]
<1>1. /\ \A q \in Addr \ {p, r} : g[q] = h[q]
      /\ g[p].size = z[p] /\ ~g[p].cinuse /\ g[p].pinuse
      /\ g[r].size = h[r].size /\ (g[r].cinuse <=> h[r].cinuse)
      /\ ~g[r].pinuse /\ g[r].prev_foot = z[p]
  BY DEF MarksFree
<1>2. r \in DOMAIN z /\ r # p
  BY DEF Layout
<1>3. \A a \in DOMAIN z : a \in Addr /\ a + z[a] \in Addr
  BY LayoutBounds
<1>4. \A a \in DOMAIN z : a + z[a] = r => a = p
  <2> TAKE a \in DOMAIN z
  <2> QED  BY LayoutEnds
<1> HIDE DEF r
<1>11. ASSUME NEW a \in DOMAIN z \ H, a + z[a] = p PROVE h[p].pinuse /\ a \in U
  <2>1. ASSUME NEW b \in H \cap DOMAIN z, b + z[b] = p PROVE FALSE
    <3>1. b = a
      BY <1>11, <2>1, LayoutEnds
    <3> QED  BY <3>1
  <2>2. h[p].pinuse
    BY <2>1 DEF MaySet
  <2> QED  BY <1>11, <2>2 DEF Tags
<1>5. ASSUME NEW a \in DOMAIN z \ (H \ {p})
      PROVE  /\ g[a].size = z[a]
             /\ g[a].cinuse <=> a \in U
             /\ g[a + z[a]].pinuse <=> a \in U
  <2>1. CASE a = p
    BY <1>1, <2>1 DEF r
  <2>2. CASE a # p
    <3>1. h[a].size = z[a] /\ (h[a].cinuse <=> a \in U) /\ (h[a + z[a]].pinuse <=> a \in U)
      BY <2>2 DEF Tags
    <3>2. g[a].size = h[a].size /\ (g[a].cinuse <=> h[a].cinuse)
      BY <1>1, <1>3, <2>2
    <3>3. a + z[a] # r
      BY <1>4, <2>2
    <3>4. g[a + z[a]].pinuse <=> h[a + z[a]].pinuse
      <4>1. CASE a + z[a] = p
        BY <1>1, <1>11, <2>2, <4>1
      <4>2. CASE a + z[a] # p
        BY <1>1, <1>3, <3>3, <4>2
      <4> QED  BY <4>1, <4>2
    <3> QED  BY <2>2, <3>1, <3>2, <3>4
  <2> QED  BY <2>1, <2>2
<1>6. ASSUME NEW a \in DOMAIN z \ ((H \ {p}) \cup U), a + z[a] # E
      PROVE  g[a + z[a]].prev_foot = z[a]
  <2>0. CASE a = p
    BY <1>1, <2>0 DEF r
  <2>1. CASE a # p
    <3>2. h[a + z[a]].prev_foot = z[a]
      BY <1>6, <2>1 DEF Tags
    <3>3. a + z[a] # r
      BY <1>4, <2>1
    <3>4. a + z[a] # p
      BY <1>11, <2>1
    <3> QED  BY <1>1, <1>3, <3>2, <3>3, <3>4
  <2> QED  BY <2>0, <2>1
<1>7. ASSUME NEW i \in DOMAIN seg PROVE g[first(seg, i)].pinuse
  <2>1. h[first(seg, i)].pinuse /\ first(seg, i) \in Addr
    BY StopsFacts DEF Tags
  <2>2. first(seg, i) # r
    BY NotFirst DEF r
  <2> QED  BY <1>1, <2>1, <2>2
<1>8. \A q \in Stops(seg, E) : q \in Addr => g[q] = h[q]
  <2>1. \A q \in Stops(seg, E) : q # p /\ q # r
    BY <1>2 DEF Layout
  <2> QED  BY <1>1, <2>1
<1>9. ~g[E].pinuse
  BY <1>8, StopsFacts DEF Tags
<1>10. ASSUME NEW i \in DOMAIN seg \ {1}
       PROVE  g[stop(seg, E, i)].size = 1 /\ g[stop(seg, E, i)].cinuse
  <2>1. stop(seg, E, i) \in Stops(seg, E) /\ stop(seg, E, i) \in Addr
    BY StopsFacts DEF Stops
  <2> QED  BY <1>8, <2>1 DEF Tags
<1> QED  BY <1>5, <1>6, <1>7, <1>9, <1>10 DEF Tags

(* or as top's, which has no foot. *)
LEMMA TagsTop ==
  ASSUME NEW seg, NEW E, NEW lo, NEW hi, Segs(seg, E, lo, hi), NEW z, Layout(z, seg, E),
         NEW U, NEW H, NEW h, Tags(h, z, seg, E, U, H),
         NEW p \in (H \cap DOMAIN z) \ U, p + z[p] = E,
         NEW g, \A q \in Addr \ {p} : g[q] = h[q],
         g[p].size = z[p], ~g[p].cinuse, g[p].pinuse, MaySet(h, z, H, p)
  PROVE  Tags(g, z, seg, E, U, H \ {p})
<1>2. E # p /\ E \in Addr
  BY StopsFacts
<1>3. \A a \in DOMAIN z : a \in Addr /\ a + z[a] \in Addr
  BY LayoutBounds
<1>4. \A a \in DOMAIN z : a + z[a] = E => a = p
  <2> TAKE a \in DOMAIN z
  <2> QED  BY LayoutEnds
<1>11. ASSUME NEW a \in DOMAIN z \ H, a + z[a] = p PROVE h[p].pinuse /\ a \in U
  <2>1. ASSUME NEW b \in H \cap DOMAIN z, b + z[b] = p PROVE FALSE
    <3>1. b = a
      BY <1>11, <2>1, LayoutEnds
    <3> QED  BY <3>1
  <2>2. h[p].pinuse
    BY <2>1 DEF MaySet
  <2> QED  BY <1>11, <2>2 DEF Tags
<1>12. ~h[E].pinuse /\ ~g[E].pinuse
  BY <1>2 DEF Tags
<1>5. ASSUME NEW a \in DOMAIN z \ (H \ {p})
      PROVE  /\ g[a].size = z[a]
             /\ g[a].cinuse <=> a \in U
             /\ g[a + z[a]].pinuse <=> a \in U
  <2>1. CASE a = p
    BY <1>12, <2>1
  <2>2. CASE a # p
    <3>1. h[a].size = z[a] /\ (h[a].cinuse <=> a \in U) /\ (h[a + z[a]].pinuse <=> a \in U)
      BY <2>2 DEF Tags
    <3>2. g[a] = h[a]
      BY <1>3, <2>2
    <3>4. g[a + z[a]].pinuse <=> h[a + z[a]].pinuse
      <4>1. CASE a + z[a] = p
        BY <1>11, <2>2, <4>1
      <4>2. CASE a + z[a] # p
        BY <1>3, <4>2
      <4> QED  BY <4>1, <4>2
    <3> QED  BY <2>2, <3>1, <3>2, <3>4
  <2> QED  BY <2>1, <2>2
<1>6. ASSUME NEW a \in DOMAIN z \ ((H \ {p}) \cup U), a + z[a] # E
      PROVE  g[a + z[a]].prev_foot = z[a]
  <2>1. a # p
    BY <1>6
  <2>2. h[a + z[a]].prev_foot = z[a]
    BY <1>6, <2>1 DEF Tags
  <2>4. a + z[a] # p
    BY <1>11, <2>1
  <2> QED  BY <1>3, <2>2, <2>4
<1>7. ASSUME NEW i \in DOMAIN seg PROVE g[first(seg, i)].pinuse
  <2>1. h[first(seg, i)].pinuse /\ first(seg, i) \in Addr
    BY StopsFacts DEF Tags
  <2> QED  BY <2>1
<1>10. ASSUME NEW i \in DOMAIN seg \ {1}
       PROVE  g[stop(seg, E, i)].size = 1 /\ g[stop(seg, E, i)].cinuse
  <2>1. stop(seg, E, i) # p /\ stop(seg, E, i) \in Addr
    BY StopsFacts
  <2> QED  BY <2>1 DEF Tags
<1> QED  BY <1>5, <1>6, <1>7, <1>10, <1>12 DEF Tags

(* Two chunks whose headers are to be written become one. *)
LEMMA TagsJoin ==
  ASSUME NEW seg, NEW E, NEW lo, NEW hi, Segs(seg, E, lo, hi), NEW z, Layout(z, seg, E),
         NEW U, NEW H, NEW h, Tags(h, z, seg, E, U, H),
         NEW p \in H \cap DOMAIN z, p + z[p] \in H \cap DOMAIN z,
         NEW g, \A q \in Addr \ {p + z[p]} : g[q] = h[q]
  PROVE  Tags(g, Join(z, p), seg, E, U, H \ {p + z[p]})
<1> DEFINE y == Join(z, p)
           r == p + z[p]
<1>1. /\ DOMAIN y = DOMAIN z \ {r} /\ p # r /\ p + y[p] = r + z[r]
      /\ \A a \in DOMAIN z \ {p, r} : y[a] = z[a]
  BY JoinFacts
<1>3. \A a \in DOMAIN z : a \in Addr /\ a + z[a] \in Addr
  BY LayoutBounds
<1>4. \A a \in DOMAIN z : a + z[a] = r => a = p
  <2> TAKE a \in DOMAIN z
  <2> QED  BY LayoutEnds
<1>2. \A q \in Addr : q # r => g[q] = h[q]
  OBVIOUS
<1>8. r \in H /\ r \in DOMAIN z
  OBVIOUS
<1> HIDE DEF y, r
<1>5. ASSUME NEW a \in DOMAIN y \ (H \ {r})
      PROVE  /\ g[a].size = y[a]
             /\ g[a].cinuse <=> a \in U
             /\ g[a + y[a]].pinuse <=> a \in U
  <2>1. a \in DOMAIN z \ H /\ a # p /\ a # r
    BY <1>1
  <2>2. y[a] = z[a] /\ a + z[a] # r /\ a \in Addr /\ a + z[a] \in Addr
    BY <1>1, <1>3, <1>4, <2>1
  <2> QED  BY <1>2, <2>1, <2>2 DEF Tags
<1>6. ASSUME NEW a \in DOMAIN y \ ((H \ {r}) \cup U), a + y[a] # E
      PROVE  g[a + y[a]].prev_foot = y[a]
  <2>1. a \in DOMAIN z \ (H \cup U) /\ a # p /\ a # r
    BY <1>1
  <2>2. y[a] = z[a] /\ a + z[a] # r /\ a \in Addr /\ a + z[a] \in Addr
    BY <1>1, <1>3, <1>4, <2>1
  <2> QED  BY <1>2, <1>6, <2>1, <2>2 DEF Tags
<1>7. ASSUME NEW i \in DOMAIN seg PROVE g[first(seg, i)].pinuse
  <2>1. h[first(seg, i)].pinuse /\ first(seg, i) \in Addr
    BY StopsFacts DEF Tags
  <2>2. first(seg, i) # r
    BY NotFirst DEF r
  <2> QED  BY <1>2, <2>1, <2>2
<1>9. ~g[E].pinuse
  <2>1. E # r /\ E \in Addr
    BY <1>8, StopsFacts
  <2> QED  BY <1>2, <2>1 DEF Tags
<1>10. ASSUME NEW i \in DOMAIN seg \ {1}
       PROVE  g[stop(seg, E, i)].size = 1 /\ g[stop(seg, E, i)].cinuse
  <2>1. stop(seg, E, i) # r /\ stop(seg, E, i) \in Addr
    BY <1>8, StopsFacts
  <2> QED  BY <1>2, <2>1 DEF Tags
<1>11. Tags(g, y, seg, E, U, H \ {r})
  BY <1>5, <1>6, <1>7, <1>9, <1>10 DEF Tags
<1> QED  BY <1>11 DEF y, r

(* One whose header is to be written becomes two. *)
LEMMA TagsCut ==
  ASSUME NEW seg, NEW E, NEW z, Layout(z, seg, E),
         NEW U, NEW H, NEW h, Tags(h, z, seg, E, U, H),
         NEW p \in H \cap DOMAIN z, NEW k \in Nat, 0 < k, k < z[p]
  PROVE  Tags(h, Cut(z, p, k), seg, E, U, H \cup {p + k})
<1> DEFINE y == Cut(z, p, k)
<1>1. DOMAIN y = DOMAIN z \cup {p + k} /\ \A a \in DOMAIN z \ {p} : y[a] = z[a]
  <2>1. p \in DOMAIN z
    OBVIOUS
  <2>2. /\ DOMAIN Cut(z, p, k) = DOMAIN z \cup {p + k}
        /\ \A a \in DOMAIN z \ {p} : Cut(z, p, k)[a] = z[a]
    <3>1. /\ p \in Nat /\ z[p] \in Nat /\ \A b \in DOMAIN z : b <= p \/ p + z[p] <= b
      BY <2>1 DEF Layout
    <3>2. p # p + k /\ p + k \notin DOMAIN z
      BY <3>1
    <3> QED  BY <3>2 DEF Cut
  <2> QED  BY <2>2
<1> HIDE DEF y
<1>2. \A a \in DOMAIN y \ (H \cup {p + k}) : a \in DOMAIN z \ H /\ y[a] = z[a]
  BY <1>1
<1>3. Tags(h, y, seg, E, U, H \cup {p + k})
  BY <1>2 DEF Tags
<1> QED  BY <1>3 DEF y

-------------------------------------------------------------------------------
(* A heap in the course of a call: U are the chunks in use, the headers of *)
(* H are still to be written, and L, H among them, are set apart: in no    *)
(* bin, and not top or dv.  No two free chunks are neighbours.             *)
Records(seg, z, U) ==
    \A i \in DOMAIN seg \ {1} : seg[i].record \in U /\ z[seg[i].record] = SegmentRecord

Apart(z, N) == \A a \in DOMAIN z \ N : a + z[a] \notin DOMAIN z \ N

Hole(m, z, U, H, L, E) ==
    /\ m \in State /\ ~m.aborted
    /\ Segs(m.seg, E, m.least_addr, m.brk)
    /\ Layout(z, m.seg, E)
    /\ U \subseteq DOMAIN z /\ L \subseteq DOMAIN z /\ H \subseteq L /\ U \cap L = {}
    /\ Tags(m.chunk, z, m.seg, E, U, H)
    /\ Records(m.seg, z, U)
    /\ Apart(z, U \cup H)
    /\ Bins(m, z, U \cup L \cup {m.top, m.dv})

TopOK(m, z, U, L, E) ==
    m.top \in DOMAIN z \ (U \cup L) /\ m.top + z[m.top] = E /\ m.topsize = z[m.top]

DvOK(m, z, U, L) ==
    IF m.dv = NULL THEN m.dvsize = 0
    ELSE m.dv \in DOMAIN z \ (U \cup L) /\ m.dv # m.top /\ m.dvsize = z[m.dv]

(* The heap between two calls of a program.                                *)
Heap(m, z, U) ==
    LET E == m.top + m.topsize
    IN Hole(m, z, U, {}, {}, E) /\ TopOK(m, z, U, {}, E) /\ DvOK(m, z, U, {})

(* Where a chunk is, and how large. *)
LEMMA HoleChunk ==
  ASSUME NEW m, NEW z, NEW U, NEW H, NEW L, NEW E, Hole(m, z, U, H, L, E), NEW a \in DOMAIN z
  PROVE  /\ a \in Addr /\ a \in Nat /\ a # NULL /\ m.least_addr <= a /\ Even(a)
         /\ z[a] \in Nat /\ z[a] > 0 /\ z[a] \in size_t \ {0} /\ z[a] <= BrkLimit
         /\ a + z[a] \in Addr /\ a + z[a] \in Nat /\ a + z[a] <= m.brk
         /\ a + z[a] # E => Even(z[a]) /\ z[a] >= 4
         /\ a + z[a] \in DOMAIN z \cup Stops(m.seg, E)
         /\ NULL \notin DOMAIN z
<1>1. Segs(m.seg, E, m.least_addr, m.brk) /\ Layout(z, m.seg, E)
  BY DEF Hole
<1>2. \A b \in DOMAIN z : b # 0
  BY <1>1, LayoutBounds
<1>3. /\ a + z[a] # E => Even(z[a]) /\ z[a] >= 4
      /\ a + z[a] \in DOMAIN z \cup Stops(m.seg, E)
  BY <1>1 DEF Layout
<1> QED  BY <1>1, <1>2, <1>3, LayoutBounds, Small

(* A chunk in use may be about to be freed or changed.                     *)
LEMMA HoleUsed ==
  ASSUME NEW m, NEW z, NEW U, NEW H, NEW L, NEW E, Hole(m, z, U, H, L, E),
         NEW p \in U, \A i \in DOMAIN m.seg \ {1} : m.seg[i].record # p
  PROVE  Hole(m, z, U \ {p}, H \cup {p}, L \cup {p}, E)
<1>1. (U \ {p}) \cup (H \cup {p}) = U \cup H
  OBVIOUS
<1>2. (U \ {p}) \cup (L \cup {p}) \cup {m.top, m.dv} = U \cup L \cup {m.top, m.dv}
  OBVIOUS
<1>3. Tags(m.chunk, z, m.seg, E, U \ {p}, H \cup {p})
  BY TagsHole DEF Hole
<1>4. Records(m.seg, z, U \ {p})
  BY DEF Hole, Records
<1> QED  BY <1>1, <1>2, <1>3, <1>4 DEF Hole

(* So may dv and top, which are in no bin,                                 *)
LEMMA HoleUnbinned ==
  ASSUME NEW m, NEW z, NEW U, NEW H, NEW L, NEW E, Hole(m, z, U, H, L, E),
         NEW p \in DOMAIN z \ (U \cup L), p \in {m.top, m.dv}
  PROVE  Hole(m, z, U, H \cup {p}, L \cup {p}, E)
<1>2. U \cup (L \cup {p}) \cup {m.top, m.dv} = U \cup L \cup {m.top, m.dv}
  OBVIOUS
<1>3. Tags(m.chunk, z, m.seg, E, U, H \cup {p})
  <2>1. U \ {p} = U
    OBVIOUS
  <2>2. Tags(m.chunk, z, m.seg, E, U, H)
    BY DEF Hole
  <2>3. Tags(m.chunk, z, m.seg, E, U \ {p}, H \cup {p})
    BY <2>2, TagsHole
  <2> QED  BY <2>1, <2>3
<1>4. Apart(z, U \cup (H \cup {p}))
  BY DEF Hole, Apart
<1> QED  BY <1>2, <1>3, <1>4 DEF Hole

(* and a binned chunk once it is unlinked.                                 *)
LEMMA HoleBinned ==
  ASSUME NEW m, NEW z, NEW U, NEW H, NEW L, NEW E, Hole(m, z, U, H, L, E),
         NEW p \in DOMAIN z \ (U \cup L), p \notin {m.top, m.dv}, p + z[p] # E,
         NEW n, n = unlink_chunk(m, p, z[p])
  PROVE  OnlyBins(m, n) /\ Hole(n, z, U, H \cup {p}, L \cup {p}, E)
<1> DEFINE X == U \cup L \cup {m.top, m.dv}
<1>1. p \in Addr /\ z[p] \in Nat /\ z[p] >= 4 /\ z[p] <= BrkLimit
  BY HoleChunk
<1>2. chunksize(m, p) = z[p]
  BY DEF Hole, Tags, chunksize
<1>3. m \in State /\ Bins(m, z, X) /\ p \in DOMAIN z \ X
  BY DEF Hole
<1>4. OnlyBins(m, n) /\ Bins(n, z, X \cup {p})
  BY <1>1, <1>2, <1>3, UnlinkChunkFacts
<1>5. /\ n \in State /\ n.seg = m.seg /\ n.aborted = m.aborted /\ n.least_addr = m.least_addr
      /\ n.brk = m.brk /\ n.chunk = m.chunk /\ n.top = m.top /\ n.dv = m.dv
  BY <1>4 DEF OnlyBins, SameSystem, SameTop, SameDv
<1>6. Bins(n, z, U \cup (L \cup {p}) \cup {n.top, n.dv})
  <2>1. X \cup {p} = U \cup (L \cup {p}) \cup {n.top, n.dv}
    BY <1>5
  <2> QED  BY <1>4, <2>1
<1>7. Tags(m.chunk, z, m.seg, E, U, H \cup {p})
  <2>1. U \ {p} = U
    OBVIOUS
  <2>2. Tags(m.chunk, z, m.seg, E, U, H)
    BY DEF Hole
  <2>3. Tags(m.chunk, z, m.seg, E, U \ {p}, H \cup {p})
    BY <2>2, TagsHole
  <2> QED  BY <2>1, <2>3
<1>8. Apart(z, U \cup (H \cup {p}))
  BY DEF Hole, Apart
<1>9. Hole(n, z, U, H \cup {p}, L \cup {p}, E)
  BY <1>5, <1>6, <1>7, <1>8 DEF Hole
<1> QED  BY <1>4, <1>9

(* Two neighbours become one.                                              *)
LEMMA HoleJoin ==
  ASSUME NEW m, NEW z, NEW U, NEW H, NEW L, NEW E, Hole(m, z, U, H, L, E),
         NEW p \in H, p + z[p] \in H,
         NEW n, n = Erase(m, p + z[p])
  PROVE  /\ OnlyChunks(m, n)
         /\ \A q \in Addr \ {p + z[p]} : n.chunk[q] = m.chunk[q]
         /\ Hole(n, Join(z, p), U, H \ {p + z[p]}, L \ {p + z[p]}, E)
<1> DEFINE r == p + z[p]
           y == Join(z, p)
<1>1. m \in State /\ Segs(m.seg, E, m.least_addr, m.brk) /\ Layout(z, m.seg, E)
      /\ Tags(m.chunk, z, m.seg, E, U, H) /\ Records(m.seg, z, U) /\ Apart(z, U \cup H)
      /\ Bins(m, z, U \cup L \cup {m.top, m.dv}) /\ H \subseteq L /\ U \cap L = {}
      /\ p \in DOMAIN z /\ r \in DOMAIN z /\ U \subseteq DOMAIN z /\ L \subseteq DOMAIN z
      /\ ~m.aborted
  BY DEF Hole
<1>2. r \in Addr
  BY <1>1, HoleChunk
<1>3. OnlyChunks(m, n) /\ \A q \in Addr \ {r} : n.chunk[q] = m.chunk[q]
  BY <1>1, <1>2, EraseFacts
<1>4. /\ DOMAIN y = DOMAIN z \ {r} /\ p # r
      /\ \A a \in DOMAIN z \ {p, r} : y[a] = z[a]
  BY <1>1, JoinFacts
<1>5. Layout(y, m.seg, E)
  BY <1>1, JoinLayout
<1>6. Tags(n.chunk, y, m.seg, E, U, H \ {r})
  BY <1>1, <1>3, TagsJoin
<1> HIDE DEF y, r
<1>7. Records(m.seg, y, U)
  BY <1>1, <1>4 DEF Records, r
<1>8. Apart(y, U \cup (H \ {r}))
  <2>1. DOMAIN y \ (U \cup (H \ {r})) = DOMAIN z \ (U \cup H)
    BY <1>1, <1>4 DEF r
  <2>2. \A a \in DOMAIN z \ (U \cup H) : y[a] = z[a]
    BY <1>1, <1>4 DEF r
  <2> QED  BY <1>1, <2>1, <2>2 DEF Apart
<1>9. /\ n \in State /\ n.seg = m.seg /\ n.aborted = m.aborted /\ n.least_addr = m.least_addr
      /\ n.brk = m.brk /\ n.top = m.top /\ n.dv = m.dv /\ SameBins(m, n)
  BY <1>3 DEF OnlyChunks, SameSystem, SameTop, SameDv
<1>10. Bins(n, y, U \cup (L \ {r}) \cup {n.top, n.dv})
  <2>1. DOMAIN z \ (U \cup L \cup {m.top, m.dv}) = DOMAIN y \ (U \cup (L \ {r}) \cup {n.top, n.dv})
    BY <1>1, <1>4, <1>9 DEF r
  <2>2. \A a \in DOMAIN z \ (U \cup L \cup {m.top, m.dv}) : y[a] = z[a]
    BY <1>1, <1>4 DEF r
  <2> QED  BY <1>1, <1>9, <2>1, <2>2, BinsFrame
<1>11. U \subseteq DOMAIN y /\ L \ {r} \subseteq DOMAIN y
  BY <1>1, <1>4 DEF r
<1>12. Hole(n, y, U, H \ {r}, L \ {r}, E)
  BY <1>1, <1>5, <1>6, <1>7, <1>8, <1>9, <1>10, <1>11 DEF Hole
<1> QED  BY <1>3, <1>12 DEF y, r

(* One becomes two.                                                        *)
LEMMA HoleCut ==
  ASSUME NEW m, NEW z, NEW U, NEW H, NEW L, NEW E, Hole(m, z, U, H, L, E),
         NEW p \in H, NEW k \in Nat, Even(k), 4 <= k, k < z[p],
         p + z[p] # E => z[p] - k >= 4
  PROVE  Hole(m, Cut(z, p, k), U, H \cup {p + k}, L \cup {p + k}, E)
<1> DEFINE r == p + k
           y == Cut(z, p, k)
<1>1. m \in State /\ Segs(m.seg, E, m.least_addr, m.brk) /\ Layout(z, m.seg, E)
      /\ Tags(m.chunk, z, m.seg, E, U, H) /\ Records(m.seg, z, U) /\ Apart(z, U \cup H)
      /\ Bins(m, z, U \cup L \cup {m.top, m.dv}) /\ H \subseteq L /\ U \cap L = {}
      /\ p \in DOMAIN z /\ U \subseteq DOMAIN z /\ L \subseteq DOMAIN z
      /\ ~m.aborted
  BY DEF Hole
<1>2. 0 < k
  OBVIOUS
<1>4. /\ DOMAIN y = DOMAIN z \cup {r} /\ p # r /\ r \notin DOMAIN z
      /\ \A a \in DOMAIN z \ {p} : y[a] = z[a]
  BY <1>1, <1>2, CutFacts
<1>5. Layout(y, m.seg, E)
  BY <1>1, CutLayout
<1>6. Tags(m.chunk, y, m.seg, E, U, H \cup {r})
  BY <1>1, <1>2, TagsCut
<1> HIDE DEF y, r
<1>7. Records(m.seg, y, U)
  BY <1>1, <1>4 DEF Records
<1>8. Apart(y, U \cup (H \cup {r}))
  <2>1. DOMAIN y \ (U \cup (H \cup {r})) = DOMAIN z \ (U \cup H)
    BY <1>1, <1>4
  <2>2. \A a \in DOMAIN z \ (U \cup H) : y[a] = z[a]
    BY <1>1, <1>4
  <2> QED  BY <1>1, <2>1, <2>2 DEF Apart
<1>10. Bins(m, y, U \cup (L \cup {r}) \cup {m.top, m.dv})
  <2>1. DOMAIN z \ (U \cup L \cup {m.top, m.dv}) = DOMAIN y \ (U \cup (L \cup {r}) \cup {m.top, m.dv})
    BY <1>1, <1>4
  <2>2. \A a \in DOMAIN z \ (U \cup L \cup {m.top, m.dv}) : y[a] = z[a]
    BY <1>1, <1>4
  <2>3. SameBins(m, m)
    BY DEF SameBins
  <2> QED  BY <1>1, <2>1, <2>2, <2>3, BinsFrame
<1>11. U \subseteq DOMAIN y /\ L \cup {r} \subseteq DOMAIN y /\ U \cap (L \cup {r}) = {}
  BY <1>1, <1>4
<1>12. Hole(m, y, U, H \cup {r}, L \cup {r}, E)
  BY <1>1, <1>5, <1>6, <1>7, <1>8, <1>10, <1>11 DEF Hole
<1> QED  BY <1>12 DEF y, r

(* A header is written, as that of a chunk in use,                         *)
LEMMA HoleToUsed ==
  ASSUME NEW m, NEW z, NEW U, NEW H, NEW L, NEW E, Hole(m, z, U, H, L, E),
         NEW p \in H, p + z[p] \in DOMAIN z,
         NEW n, OnlyChunks(m, n), MarksUsed(m.chunk, n.chunk, p, z[p]),
         \/ /\ n.chunk[p].pinuse <=> m.chunk[p].pinuse
            /\ n.chunk[p].prev_foot = m.chunk[p].prev_foot
         \/ n.chunk[p].pinuse /\ MaySet(m.chunk, z, H, p)
  PROVE  Hole(n, z, U \cup {p}, H \ {p}, L \ {p}, E)
<1>1. m \in State /\ Segs(m.seg, E, m.least_addr, m.brk) /\ Layout(z, m.seg, E)
      /\ Tags(m.chunk, z, m.seg, E, U, H) /\ Records(m.seg, z, U) /\ Apart(z, U \cup H)
      /\ Bins(m, z, U \cup L \cup {m.top, m.dv}) /\ H \subseteq L /\ U \cap L = {}
      /\ p \in DOMAIN z /\ U \subseteq DOMAIN z /\ L \subseteq DOMAIN z
      /\ ~m.aborted
  BY DEF Hole
<1>2. Tags(n.chunk, z, m.seg, E, U \cup {p}, H \ {p})
  BY <1>1, TagsUsed
<1>3. (U \cup {p}) \cup (H \ {p}) = U \cup H /\ (U \cup {p}) \cup (L \ {p}) = U \cup L
  BY <1>1
<1>4. /\ n \in State /\ n.seg = m.seg /\ n.aborted = m.aborted /\ n.least_addr = m.least_addr
      /\ n.brk = m.brk /\ n.top = m.top /\ n.dv = m.dv /\ SameBins(m, n)
  BY DEF OnlyChunks, SameSystem, SameTop, SameDv
<1>5. Bins(n, z, (U \cup {p}) \cup (L \ {p}) \cup {n.top, n.dv})
  <2>1. (U \cup {p}) \cup (L \ {p}) \cup {n.top, n.dv} = U \cup L \cup {m.top, m.dv}
    BY <1>3, <1>4
  <2> QED  BY <1>1, <1>4, <2>1, BinsFrame
<1>6. Records(n.seg, z, U \cup {p})
  BY <1>1, <1>4 DEF Records
<1>7. Apart(z, (U \cup {p}) \cup (H \ {p}))
  BY <1>1, <1>3
<1>8. U \cup {p} \subseteq DOMAIN z /\ L \ {p} \subseteq DOMAIN z /\ H \ {p} \subseteq L \ {p}
      /\ (U \cup {p}) \cap (L \ {p}) = {}
  BY <1>1
<1> QED  BY <1>1, <1>2, <1>4, <1>5, <1>6, <1>7, <1>8 DEF Hole

(* or as that of a free chunk, which then is still in no bin,              *)
LEMMA HoleToFree ==
  ASSUME NEW m, NEW z, NEW U, NEW H, NEW L, NEW E, Hole(m, z, U, H, L, E),
         NEW p \in H, p + z[p] \in U \cup H,
         NEW n, OnlyChunks(m, n), MarksFree(m.chunk, n.chunk, p, z[p]),
         MaySet(m.chunk, z, H, p)
  PROVE  Hole(n, z, U, H \ {p}, L, E)
<1>1. m \in State /\ Segs(m.seg, E, m.least_addr, m.brk) /\ Layout(z, m.seg, E)
      /\ Tags(m.chunk, z, m.seg, E, U, H) /\ Records(m.seg, z, U) /\ Apart(z, U \cup H)
      /\ Bins(m, z, U \cup L \cup {m.top, m.dv}) /\ H \subseteq L /\ U \cap L = {}
      /\ p \in DOMAIN z /\ U \subseteq DOMAIN z /\ L \subseteq DOMAIN z
      /\ p + z[p] \in DOMAIN z /\ p \notin U
      /\ ~m.aborted
  BY DEF Hole
<1>2. Tags(n.chunk, z, m.seg, E, U, H \ {p})
  BY <1>1, TagsFree
<1>4. /\ n \in State /\ n.seg = m.seg /\ n.aborted = m.aborted /\ n.least_addr = m.least_addr
      /\ n.brk = m.brk /\ n.top = m.top /\ n.dv = m.dv /\ SameBins(m, n)
  BY DEF OnlyChunks, SameSystem, SameTop, SameDv
<1>5. Bins(n, z, U \cup L \cup {n.top, n.dv})
  BY <1>1, <1>4, BinsFrame
<1>7. Apart(z, U \cup (H \ {p}))
  <2> SUFFICES ASSUME NEW a \in DOMAIN z \ (U \cup (H \ {p})),
                      a + z[a] \in DOMAIN z \ (U \cup (H \ {p}))
               PROVE  FALSE
    BY DEF Apart
  <2>1. CASE a = p
    <3>1. p + z[p] = p
      BY <2>1
    <3> QED  BY <1>1, <3>1 DEF Layout
  <2>2. CASE a # p
    <3>1. a \in DOMAIN z \ (U \cup H)
      BY <2>2
    <3>2. a + z[a] = p
      BY <1>1, <3>1 DEF Apart
    <3>3. ~m.chunk[p].pinuse
      BY <1>1, <3>1, <3>2 DEF Tags
    <3>4. PICK b \in H \cap DOMAIN z : b + z[b] = p
      BY <3>3 DEF MaySet
    <3>5. a = b
      BY <1>1, <3>1, <3>2, <3>4, LayoutEnds
    <3> QED  BY <3>1, <3>4, <3>5
  <2> QED  BY <2>1, <2>2
<1> QED  BY <1>1, <1>2, <1>4, <1>5, <1>7 DEF Hole

(* or as top's.                                                            *)
LEMMA HoleToTop ==
  ASSUME NEW m, NEW z, NEW U, NEW H, NEW L, NEW E, Hole(m, z, U, H, L, E),
         NEW p \in H, p + z[p] = E, m.top \in L \/ m.top \notin DOMAIN z,
         MaySet(m.chunk, z, H, p), NEW n, n = set_top(m, p, z[p])
  PROVE  /\ SameSystem(m, n) /\ SameDv(m, n)
         /\ Hole(n, z, U, H \ {p}, L \ {p}, E)
         /\ TopOK(n, z, U, L \ {p}, E)
         /\ n.top = p /\ n.topsize = z[p]
<1>1. m \in State /\ Segs(m.seg, E, m.least_addr, m.brk) /\ Layout(z, m.seg, E)
      /\ Tags(m.chunk, z, m.seg, E, U, H) /\ Records(m.seg, z, U) /\ Apart(z, U \cup H)
      /\ Bins(m, z, U \cup L \cup {m.top, m.dv}) /\ H \subseteq L /\ U \cap L = {}
      /\ p \in DOMAIN z /\ U \subseteq DOMAIN z /\ L \subseteq DOMAIN z
      /\ p \notin U
      /\ ~m.aborted
  BY DEF Hole
<1>2. p \in Addr /\ z[p] \in size_t
  BY <1>1, HoleChunk
<1>3. /\ n \in State /\ SameSystem(m, n) /\ SameBins(m, n) /\ SameDv(m, n)
      /\ n.top = p /\ n.topsize = z[p]
      /\ n.chunk[p].size = z[p] /\ ~n.chunk[p].cinuse /\ n.chunk[p].pinuse
      /\ \A q \in Addr \ {p} : n.chunk[q] = m.chunk[q]
  BY <1>1, <1>2, SetTopFacts
<1>4. Tags(n.chunk, z, m.seg, E, U, H \ {p})
  BY <1>1, <1>3, TagsTop
<1>5. /\ n.seg = m.seg /\ n.aborted = m.aborted /\ n.least_addr = m.least_addr
      /\ n.brk = m.brk /\ n.dv = m.dv
  BY <1>3 DEF SameSystem, SameDv
<1>6. Bins(n, z, U \cup (L \ {p}) \cup {n.top, n.dv})
  <2>1. DOMAIN z \ (U \cup L \cup {m.top, m.dv}) = DOMAIN z \ (U \cup (L \ {p}) \cup {n.top, n.dv})
    BY <1>1, <1>3, <1>5
  <2> QED  BY <1>1, <1>3, <2>1, BinsFrame
<1>7. Apart(z, U \cup (H \ {p}))
  <2> SUFFICES ASSUME NEW a \in DOMAIN z \ (U \cup (H \ {p})),
                      a + z[a] \in DOMAIN z \ (U \cup (H \ {p}))
               PROVE  FALSE
    BY DEF Apart
  <2>1. CASE a = p
    <3>1. E \notin DOMAIN z
      <4>1. E \in Stops(m.seg, E)
        BY <1>1, StopsFacts
      <4> QED  BY <1>1, <4>1 DEF Layout
    <3> QED  BY <2>1, <3>1
  <2>2. CASE a # p
    <3>1. a \in DOMAIN z \ (U \cup H)
      BY <2>2
    <3>2. a + z[a] = p
      BY <1>1, <3>1 DEF Apart
    <3>3. ~m.chunk[p].pinuse
      BY <1>1, <3>1, <3>2 DEF Tags
    <3>4. PICK b \in H \cap DOMAIN z : b + z[b] = p
      BY <3>3 DEF MaySet
    <3>5. a = b
      BY <1>1, <3>1, <3>2, <3>4, LayoutEnds
    <3> QED  BY <3>1, <3>4, <3>5
  <2> QED  BY <2>1, <2>2
<1>8. H \ {p} \subseteq L \ {p} /\ L \ {p} \subseteq DOMAIN z /\ U \cap (L \ {p}) = {}
  BY <1>1
<1>9. Hole(n, z, U, H \ {p}, L \ {p}, E)
  BY <1>1, <1>3, <1>4, <1>5, <1>6, <1>7, <1>8 DEF Hole
<1>10. TopOK(n, z, U, L \ {p}, E)
  BY <1>1, <1>3 DEF TopOK
<1> QED  BY <1>3, <1>9, <1>10

-------------------------------------------------------------------------------
(* What a heap says of a chunk and its neighbours.                         *)
LEMMA HoleNext ==
  ASSUME NEW m, NEW z, NEW U, NEW H, NEW L, NEW E, Hole(m, z, U, H, L, E), NEW a \in DOMAIN z,
         a + z[a] # E, \A i \in DOMAIN m.seg \ {1} : a # m.seg[i].record
  PROVE  a + z[a] \in DOMAIN z
<1>1. Segs(m.seg, E, m.least_addr, m.brk) /\ Layout(z, m.seg, E) /\ Records(m.seg, z, U)
      /\ U \subseteq DOMAIN z
  BY DEF Hole
<1>2. SUFFICES ASSUME NEW i \in DOMAIN m.seg, a + z[a] = stop(m.seg, E, i) PROVE FALSE
  BY <1>1 DEF Layout, Stops
<1>3. i # 1
  BY <1>2 DEF stop
<1>4. stop(m.seg, E, i) = m.seg[i].record + z[m.seg[i].record] /\ m.seg[i].record \in DOMAIN z
  BY <1>1, <1>3 DEF stop, Records
<1>5. a = m.seg[i].record
  BY <1>1, <1>2, <1>4, LayoutEnds
<1> QED  BY <1>3, <1>5

(* A free chunk other than top has a chunk behind it. *)
LEMMA HoleNextFree ==
  ASSUME NEW m, NEW z, NEW U, NEW H, NEW L, NEW E, Hole(m, z, U, H, L, E),
         NEW a \in DOMAIN z \ U, a + z[a] # E
  PROVE  a + z[a] \in DOMAIN z
<1>1. \A i \in DOMAIN m.seg \ {1} : a # m.seg[i].record
  BY DEF Hole, Records
<1> QED  BY <1>1, HoleNext

(* The mark of a chunk in use is not where top's foot is.                  *)
LEMMA HoleNextUsed ==
  ASSUME NEW m, NEW z, NEW U, NEW H, NEW L, NEW E, Hole(m, z, U, H, L, E), NEW a \in U
  PROVE  /\ m.chunk[a].size = z[a] /\ m.chunk[a].cinuse /\ m.chunk[a + z[a]].pinuse
         /\ a + z[a] # E
<1>1. a \in DOMAIN z \ H /\ Tags(m.chunk, z, m.seg, E, U, H)
  BY DEF Hole
<1> QED  BY <1>1 DEF Tags

(* What the headers say of a free chunk, and that the next one is in use. *)
LEMMA HoleFree ==
  ASSUME NEW m, NEW z, NEW U, NEW H, NEW L, NEW E, Hole(m, z, U, H, L, E),
         NEW a \in DOMAIN z \ (U \cup H)
  PROVE  /\ m.chunk[a].size = z[a] /\ ~m.chunk[a].cinuse /\ ~m.chunk[a + z[a]].pinuse
         /\ a + z[a] # E => /\ m.chunk[a + z[a]].prev_foot = z[a]
                            /\ a + z[a] \in U \cup H
<1>1. Tags(m.chunk, z, m.seg, E, U, H) /\ Apart(z, U \cup H)
  BY DEF Hole
<1>2. m.chunk[a].size = z[a] /\ ~m.chunk[a].cinuse /\ ~m.chunk[a + z[a]].pinuse
  BY <1>1 DEF Tags
<1>3. ASSUME a + z[a] # E PROVE m.chunk[a + z[a]].prev_foot = z[a] /\ a + z[a] \in U \cup H
  <2>1. a + z[a] \in DOMAIN z
    BY <1>3, HoleNextFree
  <2> QED  BY <1>1, <1>3, <2>1 DEF Tags, Apart
<1> QED  BY <1>2, <1>3

(* Who is before a chunk whose mark says it is free.                       *)
LEMMA HolePrev ==
  ASSUME NEW m, NEW z, NEW U, NEW H, NEW L, NEW E, Hole(m, z, U, H, L, E),
         NEW p \in DOMAIN z, \A a \in H : p <= a, ~m.chunk[p].pinuse
  PROVE  \E a \in DOMAIN z \ (U \cup H) :
             /\ a + z[a] = p /\ m.chunk[p].prev_foot = z[a] /\ p - z[a] = a /\ a < p
<1>1. Layout(z, m.seg, E) /\ Tags(m.chunk, z, m.seg, E, U, H) /\ H \subseteq DOMAIN z
      /\ Segs(m.seg, E, m.least_addr, m.brk)
  BY DEF Hole
<1>2. PICK a \in DOMAIN z : a + z[a] = p
  BY <1>1 DEF Layout, Tags
<1>3. a \in Nat /\ z[a] \in Nat /\ z[a] > 0 /\ p \in Nat
  BY <1>1 DEF Layout
<1>4. a < p /\ p - z[a] = a
  BY <1>2, <1>3
<1>5. a \notin H
  BY <1>3, <1>4
<1>6. a \notin U
  BY <1>1, <1>2, <1>5 DEF Tags
<1>7. p # E
  BY <1>1, StopsFacts
<1>8. m.chunk[p].prev_foot = z[a]
  BY <1>1, <1>2, <1>5, <1>6, <1>7 DEF Tags
<1> QED  BY <1>2, <1>4, <1>5, <1>6, <1>8

(* What is before a free chunk is in use.                                  *)
LEMMA HoleFreePinuse ==
  ASSUME NEW m, NEW z, NEW U, NEW H, NEW L, NEW E, Hole(m, z, U, H, L, E),
         NEW p \in DOMAIN z \ (U \cup H), \A a \in H : p <= a
  PROVE  m.chunk[p].pinuse
<1> SUFFICES ASSUME ~m.chunk[p].pinuse PROVE FALSE
  OBVIOUS
<1>1. PICK a \in DOMAIN z \ (U \cup H) : a + z[a] = p
  BY HolePrev
<1> QED  BY <1>1 DEF Hole, Apart

-------------------------------------------------------------------------------
(* A free chunk that was set apart goes into its bin,                      *)
LEMMA HolePut ==
  ASSUME NEW m, NEW z, NEW U, NEW L, NEW E, NEW H, Hole(m, z, U, H, L, E),
         NEW p \in L \ H, p \notin {m.top, m.dv}, p + z[p] # E,
         NEW n, n = insert_chunk(m, p, z[p])
  PROVE  OnlyBins(m, n) /\ Hole(n, z, U, H, L \ {p}, E)
<1> DEFINE X == U \cup L \cup {m.top, m.dv}
<1>1. m \in State /\ Bins(m, z, X) /\ p \in DOMAIN z \cap X /\ U \cap L = {}
      /\ L \subseteq DOMAIN z /\ H \subseteq L
  BY DEF Hole
<1>2. p \in Addr /\ z[p] \in Nat /\ z[p] >= 4 /\ z[p] <= BrkLimit
  BY <1>1, HoleChunk
<1>3. OnlyBins(m, n) /\ Bins(n, z, X \ {p})
  BY <1>1, <1>2, InsertChunkFacts
<1>4. /\ n \in State /\ n.seg = m.seg /\ n.aborted = m.aborted /\ n.least_addr = m.least_addr
      /\ n.brk = m.brk /\ n.chunk = m.chunk /\ n.top = m.top /\ n.dv = m.dv
  BY <1>3 DEF OnlyBins, SameSystem, SameTop, SameDv
<1>5. X \ {p} = U \cup (L \ {p}) \cup {n.top, n.dv}
  BY <1>1, <1>4
<1>6. Bins(n, z, U \cup (L \ {p}) \cup {n.top, n.dv})
  BY <1>3, <1>5
<1>7. Hole(n, z, U, H, L \ {p}, E)
  BY <1>1, <1>4, <1>6 DEF Hole
<1> QED  BY <1>3, <1>7

(* or becomes dv, if there is no dv to lose,                               *)
LEMMA HoleSetDv ==
  ASSUME NEW m, NEW z, NEW U, NEW L, NEW E, NEW H, Hole(m, z, U, H, L, E),
         NEW p \in L \ H, p # m.top, m.dv \in L \cup U \cup {m.top} \/ m.dv \notin DOMAIN z,
         m.dv = p \/ m.dv \notin L,
         NEW n, n = set_dv(m, p, z[p])
  PROVE  /\ SameSystem(m, n) /\ SameTop(m, n) /\ n.chunk = m.chunk
         /\ Hole(n, z, U, H, L \ {p}, E)
         /\ DvOK(n, z, U, L \ {p})
<1>1. m \in State /\ Bins(m, z, U \cup L \cup {m.top, m.dv}) /\ p \in DOMAIN z /\ U \cap L = {}
      /\ L \subseteq DOMAIN z /\ H \subseteq L
  BY DEF Hole
<1>2. p \in Addr /\ z[p] \in size_t /\ p # NULL
  BY <1>1, HoleChunk
<1>3. n \in State /\ n.dv = p /\ n.dvsize = z[p] /\ n.chunk = m.chunk
      /\ SameSystem(m, n) /\ SameBins(m, n) /\ SameTop(m, n)
  BY <1>1, <1>2, SetDvFacts
<1>4. /\ n.seg = m.seg /\ n.aborted = m.aborted /\ n.least_addr = m.least_addr
      /\ n.brk = m.brk /\ n.top = m.top
  BY <1>3 DEF SameSystem, SameTop
<1>5. DOMAIN z \ (U \cup L \cup {m.top, m.dv}) = DOMAIN z \ (U \cup (L \ {p}) \cup {n.top, n.dv})
  BY <1>1, <1>3, <1>4
<1>6. Bins(n, z, U \cup (L \ {p}) \cup {n.top, n.dv})
  BY <1>1, <1>3, <1>5, BinsFrame
<1>7. Hole(n, z, U, H, L \ {p}, E)
  BY <1>1, <1>3, <1>4, <1>6 DEF Hole
<1>8. DvOK(n, z, U, L \ {p})
  BY <1>1, <1>2, <1>3, <1>4 DEF DvOK
<1> QED  BY <1>3, <1>7, <1>8

(* or there is no dv any more.                                             *)
LEMMA HoleNoDv ==
  ASSUME NEW m, NEW z, NEW U, NEW L, NEW E, NEW H, Hole(m, z, U, H, L, E),
         m.dv \in L \cup U \cup {m.top} \/ m.dv \notin DOMAIN z,
         NEW n, n = no_dv(m)
  PROVE  /\ SameSystem(m, n) /\ SameTop(m, n) /\ n.chunk = m.chunk
         /\ Hole(n, z, U, H, L, E)
         /\ DvOK(n, z, U, L)
<1>1. m \in State /\ Bins(m, z, U \cup L \cup {m.top, m.dv}) /\ NULL \notin DOMAIN z
  <2>1. Segs(m.seg, E, m.least_addr, m.brk) /\ Layout(z, m.seg, E)
    BY DEF Hole
  <2>2. NULL \notin DOMAIN z
    BY <2>1, LayoutBounds DEF NULL
  <2> QED  BY <2>2 DEF Hole
<1>2. NULL \in Addr /\ 0 \in size_t
  BY Small
<1>3. n \in State /\ n.dv = NULL /\ n.dvsize = 0 /\ n.chunk = m.chunk
      /\ SameSystem(m, n) /\ SameBins(m, n) /\ SameTop(m, n)
  BY <1>1, <1>2, SetDvFacts DEF no_dv
<1>4. /\ n.seg = m.seg /\ n.aborted = m.aborted /\ n.least_addr = m.least_addr
      /\ n.brk = m.brk /\ n.top = m.top
  BY <1>3 DEF SameSystem, SameTop
<1>5. DOMAIN z \ (U \cup L \cup {m.top, m.dv}) = DOMAIN z \ (U \cup L \cup {n.top, n.dv})
  BY <1>1, <1>3, <1>4
<1>6. Bins(n, z, U \cup L \cup {n.top, n.dv})
  BY <1>1, <1>3, <1>5, BinsFrame
<1>7. Hole(n, z, U, H, L, E)
  BY <1>1, <1>3, <1>4, <1>6 DEF Hole
<1>8. DvOK(n, z, U, L)
  BY <1>3 DEF DvOK
<1> QED  BY <1>3, <1>7, <1>8

(* Only top ends where top ends. *)
LEMMA NotTop ==
  ASSUME NEW m, NEW z, NEW U, NEW H, NEW L, NEW E, Hole(m, z, U, H, L, E),
         m.top \in DOMAIN z, m.top + z[m.top] = E, NEW a \in DOMAIN z, a # m.top
  PROVE  a + z[a] # E
BY LayoutEnds DEF Hole

(* A new dv sends the old one to its bin.                                  *)
LEMMA HoleReplaceDv ==
  ASSUME NEW m, NEW z, NEW U, NEW L, NEW E, NEW H, Hole(m, z, U, H, L, E),
         NEW p \in L \ H, TopOK(m, z, U, L, E), DvOK(m, z, U, L),
         is_small(m.dvsize),
         NEW n, n = replace_dv(m, p, z[p])
  PROVE  /\ SameSystem(m, n) /\ SameTop(m, n) /\ n.chunk = m.chunk
         /\ Hole(n, z, U, H, L \ {p}, E)
         /\ DvOK(n, z, U, L \ {p})
<1>1. m \in State /\ Bins(m, z, U \cup L \cup {m.top, m.dv}) /\ p \in DOMAIN z /\ U \cap L = {}
      /\ L \subseteq DOMAIN z /\ H \subseteq L
  BY DEF Hole
<1>2. p \in Addr /\ z[p] \in size_t /\ p # NULL /\ NULL \notin DOMAIN z /\ p # m.top
  BY <1>1, HoleChunk DEF TopOK
<1>3. CASE m.dvsize = 0
  <2>1. m.dv = NULL
    <3>1. m.dv \in DOMAIN z => z[m.dv] > 0 /\ z[m.dv] \in Nat
      BY HoleChunk
    <3> QED  BY <1>3, <3>1 DEF DvOK
  <2>2. n = set_dv(m, p, z[p])
    BY <1>3 DEF replace_dv
  <2>3. m.dv \notin DOMAIN z /\ m.dv \notin L
    BY <1>1, <1>2, <2>1
  <2> QED  BY <1>2, <2>2, <2>3, HoleSetDv
<1>4. CASE m.dvsize # 0
  <2> DEFINE X == U \cup L \cup {m.top, m.dv}
             k == insert_small_chunk(m, m.dv, m.dvsize)
  <2>1. m.dv \in DOMAIN z \ (U \cup L) /\ m.dv # m.top /\ m.dvsize = z[m.dv]
    BY <1>4 DEF DvOK
  <2>2. m.dv \in Addr /\ z[m.dv] \in Nat /\ z[m.dv] >= 4
    <3>1. m.dv + z[m.dv] # E
      BY <2>1, NotTop DEF TopOK
    <3> QED  BY <2>1, <3>1, HoleChunk
  <2>3. z[m.dv] \in SmallSizes
    BY <2>1, <2>2, LargeFacts
  <2>4. OnlyBins(m, k) /\ Bins(k, z, X \ {m.dv})
    <3>1. m.dv \in DOMAIN z \cap X
      BY <2>1
    <3> QED  BY <1>1, <2>1, <2>2, <2>3, <3>1, InsertSmallFacts
  <2>5. n = set_dv(k, p, z[p])
    BY <1>4 DEF replace_dv
  <2> HIDE DEF k
  <2>6. n \in State /\ n.dv = p /\ n.dvsize = z[p] /\ n.chunk = k.chunk
        /\ SameSystem(k, n) /\ SameBins(k, n) /\ SameTop(k, n)
    BY <1>1, <1>2, <2>4, <2>5, SetDvFacts DEF OnlyBins
  <2>7. SameSystem(m, n) /\ SameTop(m, n) /\ n.chunk = m.chunk
    BY <2>4, <2>6 DEF OnlyBins, SameSystem, SameTop
  <2>8. /\ n.seg = m.seg /\ n.aborted = m.aborted /\ n.least_addr = m.least_addr
        /\ n.brk = m.brk /\ n.top = m.top
    BY <2>7 DEF SameSystem, SameTop
  <2>9. DOMAIN z \ (X \ {m.dv}) = DOMAIN z \ (U \cup (L \ {p}) \cup {n.top, n.dv})
    BY <1>1, <2>1, <2>6, <2>8
  <2>10. Bins(n, z, U \cup (L \ {p}) \cup {n.top, n.dv})
    BY <2>4, <2>6, <2>9, BinsFrame
  <2>11. Hole(n, z, U, H, L \ {p}, E)
    BY <1>1, <2>6, <2>7, <2>8, <2>10 DEF Hole
  <2>12. DvOK(n, z, U, L \ {p})
    BY <1>1, <1>2, <2>6, <2>8 DEF DvOK
  <2> QED  BY <2>7, <2>11, <2>12
<1> QED  BY <1>3, <1>4

(* The first words of a free chunk are taken; the rest is free.            *)
LEMMA HoleDivide ==
  ASSUME NEW m, NEW z, NEW U, NEW E, NEW v, Hole(m, z, U, {v}, {v}, E),
         NEW nb \in Nat, Even(nb), 4 <= nb, nb + 4 <= z[v], v + z[v] \in U,
         m.chunk[v].pinuse, ~m.chunk[v + z[v]].pinuse,
         NEW n, n = set_size_and_pinuse_of_free_chunk(
                        set_size_and_pinuse_of_inuse_chunk(m, v, nb), v + nb, z[v] - nb)
  PROVE  /\ OnlyChunks(m, n)
         /\ Hole(n, Cut(z, v, nb), U \cup {v}, {}, {v + nb}, E)
         /\ n.chunk[v].pinuse
<1> DEFINE r == v + nb
           s == z[v] - nb
           y == Cut(z, v, nb)
           k == set_inuse_and_pinuse(m, v, nb)
           k1 == set_size_and_pinuse_of_inuse_chunk(m, v, nb)
<1>1. m \in State /\ v \in DOMAIN z /\ v \notin U /\ U \subseteq DOMAIN z /\ ~m.aborted
      /\ Segs(m.seg, E, m.least_addr, m.brk) /\ Layout(z, m.seg, E)
      /\ Tags(m.chunk, z, m.seg, E, U, {v})
  BY DEF Hole
<1>2. v \in Addr /\ v \in Nat /\ z[v] \in Nat /\ z[v] <= BrkLimit
      /\ v + z[v] \in Addr /\ v + z[v] \in Nat /\ v + z[v] # E
  <2>1. v + z[v] \in DOMAIN z /\ E \in Stops(m.seg, E)
    BY <1>1, StopsFacts
  <2>2. v + z[v] # E
    BY <1>1, <2>1 DEF Layout
  <2> QED  BY <1>1, <2>2, HoleChunk
<1>3. /\ r \in Addr /\ r # v /\ r # v + z[v] /\ v # v + z[v] /\ s \in Nat /\ s >= 4
      /\ r + s = v + z[v] /\ nb \in size_t \ {0} /\ s \in size_t \ {0}
  BY <1>2, Small, SMTT(40)
<1>4. Hole(m, y, U, {v, r}, {v, r}, E)
  <2>1. v \in {v} /\ nb < z[v] /\ z[v] - nb >= 4
    BY <1>2
  <2>2. Hole(m, y, U, {v} \cup {v + nb}, {v} \cup {v + nb}, E)
    BY <2>1, HoleCut
  <2>3. {v} \cup {v + nb} = {v, r}
    OBVIOUS
  <2> QED  BY <2>2, <2>3
<1>5. DOMAIN y = DOMAIN z \cup {r} /\ y[v] = nb /\ y[r] = s /\ r \notin DOMAIN z
  <2>1. 0 < nb /\ nb < z[v]
    BY <1>2
  <2> QED  BY <1>1, <2>1, CutFacts
<1>6. /\ OnlyChunks(m, k) /\ MarksUsed(m.chunk, k.chunk, v, nb)
      /\ k.chunk[v].pinuse /\ k.chunk[v] = UsedHeader(nb)
  BY <1>1, <1>2, <1>3, SetInuseAndPinuseFacts
<1>7. /\ OnlyChunks(m, k1) /\ k1.chunk \in [Addr -> HeaderSet]
      /\ k1.chunk[v] = UsedHeader(nb) /\ \A q \in Addr \ {v} : k1.chunk[q] = m.chunk[q]
  BY <1>1, <1>2, <1>3, SetSizeOfInuseFacts
<1>8. n = set_size_and_pinuse_of_free_chunk(k1, r, s)
  OBVIOUS
<1> HIDE DEF k, k1, y, r, s
<1>9. /\ OnlyChunks(k1, n) /\ n.chunk \in [Addr -> HeaderSet] /\ n.chunk[r] = FreeHeader(s)
      /\ n.chunk[r + s].prev_foot = s
      /\ n.chunk[r + s].size = k1.chunk[r + s].size
      /\ n.chunk[r + s].cinuse = k1.chunk[r + s].cinuse
      /\ n.chunk[r + s].pinuse = k1.chunk[r + s].pinuse
      /\ \A q \in Addr \ {r, r + s} : n.chunk[q] = k1.chunk[q]
  <2>1. k1 \in State /\ r + s \in Addr
    BY <1>2, <1>3, <1>7 DEF OnlyChunks
  <2> QED  BY <1>3, <1>8, <2>1, SetSizeOfFreeFacts
<1>10. OnlyChunks(m, n) /\ OnlyChunks(k, n)
  BY <1>6, <1>7, <1>9 DEF OnlyChunks, SameSystem, SameBins, SameDv, SameTop
<1>11. FreeHeader(s).size = s /\ ~FreeHeader(s).cinuse /\ FreeHeader(s).pinuse
  BY DEF FreeHeader, Header
<1>12. MarksFree(k.chunk, n.chunk, r, s)
  <2>1. \A q \in Addr \ {r, r + s} : n.chunk[q] = k.chunk[q]
    <3> SUFFICES ASSUME NEW q \in Addr \ {r, r + s} PROVE n.chunk[q] = k.chunk[q]
      OBVIOUS
    <3>1. CASE q = v
      BY <1>2, <1>3, <1>6, <1>7, <1>9, <3>1
    <3>2. CASE q # v
      <4>1. k.chunk[q] = m.chunk[q]
        BY <1>6, <3>2 DEF MarksUsed, r
      <4> QED  BY <1>7, <1>9, <3>2, <4>1
    <3> QED  BY <3>1, <3>2
  <2>2. k.chunk[r + s] = m.chunk[r + s] /\ k1.chunk[r + s] = m.chunk[r + s]
    <3>1. r + s \in Addr \ {v, v + nb}
      BY <1>2, <1>3 DEF r
    <3> QED  BY <1>6, <1>7, <3>1 DEF MarksUsed
  <2>3. ~m.chunk[r + s].pinuse
    BY <1>3
  <2> QED  BY <1>9, <1>11, <2>1, <2>2, <2>3 DEF MarksFree
<1>13. Hole(k, y, U \cup {v}, {r}, {r}, E)
  <2>1. v \in {v, r} /\ v + y[v] \in DOMAIN y
    BY <1>5 DEF r
  <2>2. MaySet(m.chunk, y, {v, r}, v)
    BY DEF MaySet
  <2>3. MarksUsed(m.chunk, k.chunk, v, y[v])
    BY <1>5, <1>6
  <2>4. Hole(k, y, U \cup {v}, {v, r} \ {v}, {v, r} \ {v}, E)
    BY <1>4, <1>6, <2>1, <2>2, <2>3, HoleToUsed
  <2>5. {v, r} \ {v} = {r}
    BY <1>3
  <2> QED  BY <2>4, <2>5
<1>14. Hole(n, y, U \cup {v}, {}, {r}, E)
  <2>1. r \in {r} /\ r + y[r] \in (U \cup {v}) \cup {r}
    BY <1>3, <1>5
  <2>2. MarksFree(k.chunk, n.chunk, r, y[r])
    BY <1>5, <1>12
  <2>3. MaySet(k.chunk, y, {r}, r)
    BY <1>6 DEF MaySet, MarksUsed, r
  <2>4. Hole(n, y, U \cup {v}, {r} \ {r}, {r}, E)
    BY <1>10, <1>13, <2>1, <2>2, <2>3, HoleToFree
  <2>5. {r} \ {r} = {}
    OBVIOUS
  <2> QED  BY <2>4, <2>5
<1>15. n.chunk[v].pinuse
  <2>1. UsedHeader(nb).pinuse
    BY DEF UsedHeader, Header
  <2> QED  BY <1>2, <1>3, <1>7, <1>9, <2>1
<1> QED  BY <1>10, <1>14, <1>15 DEF y, r

-------------------------------------------------------------------------------
(* The state n after m is a heap again, with V in use; those of W have not *)
(* changed their size, and top still ends where it did.                    *)
Settles(m, z, n, V, W) ==
    /\ SameSystem(m, n)
    /\ \E y : /\ Heap(n, y, V) /\ n.top + n.topsize = m.top + m.topsize
              /\ \A a \in W : y[a] = z[a]

(* A heap with nothing left to do is one between two calls. *)
LEMMA HeapFromHole ==
  ASSUME NEW m, NEW z, NEW U, NEW L, NEW E, Hole(m, z, U, {}, L, E), L = {},
         TopOK(m, z, U, L, E), DvOK(m, z, U, L)
  PROVE  Heap(m, z, U) /\ m.top + m.topsize = E
<1>1. m.top + m.topsize = E
  BY DEF TopOK
<1> QED  BY <1>1 DEF Heap

(* What two changes leave alone, both together do. *)
LEMMA SystemTrans ==
  ASSUME NEW m, NEW n, NEW k, SameSystem(m, n), SameSystem(n, k)
  PROVE  SameSystem(m, k)
BY DEF SameSystem

(* The same of changes to headers. *)
LEMMA HeaderTrans ==
  ASSUME NEW m, NEW n, NEW k, OnlyChunks(m, n), OnlyChunks(n, k)
  PROVE  OnlyChunks(m, k)
BY DEF OnlyChunks, SameSystem, SameBins, SameTop, SameDv

(* Before a used chunk: the marks of the freed one, and its bin.           *)
LEMMA ForwardUsed ==
  ASSUME NEW m, NEW z, NEW U, NEW E, NEW p, Hole(m, z, U, {p}, {p}, E),
         TopOK(m, z, U, {p}, E), DvOK(m, z, U, {p}), m.chunk[p].pinuse, p + z[p] \in U,
         NEW n, n = insert_chunk(set_free_with_pinuse(m, p, z[p], p + z[p]), p, z[p])
  PROVE  Settles(m, z, n, U, U)
<1> DEFINE k == set_free_with_pinuse(m, p, z[p], p + z[p])
<1>1. m \in State /\ p \in DOMAIN z /\ p \notin U /\ U \subseteq DOMAIN z
  BY DEF Hole
<1>2. p \in Addr /\ p \in Nat /\ z[p] \in size_t \ {0} /\ p + z[p] \in Addr
  BY <1>1, HoleChunk
<1>3. OnlyChunks(m, k) /\ MarksFree(m.chunk, k.chunk, p, z[p])
  BY <1>1, <1>2, SetFreeFacts
<1> HIDE DEF k
<1>4. Hole(k, z, U, {}, {p}, E)
  <2>1. MaySet(m.chunk, z, {p}, p) /\ p \in {p} /\ p + z[p] \in U \cup {p}
    BY DEF MaySet
  <2>2. Hole(k, z, U, {p} \ {p}, {p}, E)
    BY <1>3, <2>1, HoleToFree
  <2> QED  BY <2>2
<1>5. k.top = m.top /\ k.topsize = m.topsize /\ k.dv = m.dv /\ k.dvsize = m.dvsize
      /\ SameSystem(m, k)
  BY <1>3 DEF OnlyChunks, SameTop, SameDv
<1>6. p \notin {k.top, k.dv} /\ p + z[p] # E /\ n = insert_chunk(k, p, z[p])
  <2>1. p # m.top /\ m.top \in DOMAIN z /\ m.top + z[m.top] = E
    BY DEF TopOK
  <2>2. p # m.dv
    <3>1. p # NULL
      BY <1>1, HoleChunk
    <3> QED  BY <3>1 DEF DvOK
  <2>3. p + z[p] # E
    BY <1>1, <2>1, NotTop
  <2> QED  BY <1>5, <2>1, <2>2, <2>3 DEF k
<1>7. OnlyBins(k, n) /\ Hole(n, z, U, {}, {p} \ {p}, E)
  <2>1. p \in {p} \ {}
    OBVIOUS
  <2> QED  BY <1>4, <1>6, <2>1, HolePut
<1>8. n.top = m.top /\ n.topsize = m.topsize /\ n.dv = m.dv /\ n.dvsize = m.dvsize
      /\ SameSystem(m, n)
  BY <1>5, <1>7, SystemTrans DEF OnlyBins, SameTop, SameDv
<1>9. TopOK(n, z, U, {}, E) /\ DvOK(n, z, U, {})
  BY <1>8 DEF TopOK, DvOK
<1>10. Heap(n, z, U) /\ n.top + n.topsize = E
  <2>1. Hole(n, z, U, {}, {}, E)
    BY <1>7
  <2> QED  BY <1>9, <2>1, HeapFromHole
<1>11. m.top + m.topsize = E
  BY DEF TopOK
<1> QED  BY <1>8, <1>10, <1>11 DEF Settles

(* Before top: the freed chunk becomes part of it.                         *)
LEMMA ForwardTop ==
  ASSUME NEW m, NEW z, NEW U, NEW E, NEW p, Hole(m, z, U, {p}, {p}, E),
         TopOK(m, z, U, {p}, E), p = m.dv \/ DvOK(m, z, U, {p}),
         m.chunk[p].pinuse, p + z[p] = m.top,
         NEW n, n = LET merged == set_top(Erase(m, m.top), p, m.topsize + z[p])
                    IN IF p = m.dv THEN no_dv(merged) ELSE merged
  PROVE  Settles(m, z, n, U, U)
<1> DEFINE k == Erase(m, m.top)
           t == set_top(k, p, m.topsize + z[p])
           y == Join(z, p)
<1>1. m \in State /\ p \in DOMAIN z /\ p \notin U /\ U \subseteq DOMAIN z
      /\ Layout(z, m.seg, E)
  BY DEF Hole
<1>2. m.top \in DOMAIN z \ (U \cup {p}) /\ m.top + z[m.top] = E /\ m.topsize = z[m.top]
  BY DEF TopOK
<1>3. p \in Nat /\ z[p] \in Nat /\ z[m.top] \in Nat
  BY <1>1, <1>2, HoleChunk
<1>4. Hole(m, z, U, {p, m.top}, {p, m.top}, E)
  <2>1. Hole(m, z, U, {p} \cup {m.top}, {p} \cup {m.top}, E)
    BY <1>2, HoleUnbinned
  <2>2. {p} \cup {m.top} = {p, m.top}
    OBVIOUS
  <2> QED  BY <2>1, <2>2
<1>5. OnlyChunks(m, k) /\ (\A q \in Addr \ {m.top} : k.chunk[q] = m.chunk[q])
      /\ Hole(k, y, U, {p}, {p}, E)
  <2>1. p \in {p, m.top} /\ p + z[p] \in {p, m.top} /\ k = Erase(m, p + z[p])
    OBVIOUS
  <2>2. /\ OnlyChunks(m, k)
        /\ \A q \in Addr \ {p + z[p]} : k.chunk[q] = m.chunk[q]
        /\ Hole(k, Join(z, p), U, {p, m.top} \ {p + z[p]}, {p, m.top} \ {p + z[p]}, E)
    BY <1>4, <2>1, HoleJoin
  <2>3. {p, m.top} \ {p + z[p]} = {p}
    BY <1>2
  <2> QED  BY <2>2, <2>3
<1>6. /\ DOMAIN y = DOMAIN z \ {m.top} /\ y[p] = z[p] + z[m.top] /\ p + y[p] = E
      /\ \A a \in DOMAIN z \ {p, m.top} : y[a] = z[a]
  <2>1. p + z[p] \in DOMAIN z
    BY <1>2
  <2>2. /\ DOMAIN y = DOMAIN z \ {p + z[p]}
        /\ y[p] = z[p] + z[p + z[p]]
        /\ p + y[p] = (p + z[p]) + z[p + z[p]]
        /\ \A a \in DOMAIN z \ {p, p + z[p]} : y[a] = z[a]
    <3>1. PICK seg : seg = m.seg
      OBVIOUS
    <3>2. Layout(z, seg, E) /\ p \in DOMAIN z
      BY <1>1, <3>1
    <3> QED  BY <2>1, <3>2, JoinFacts
  <2> HIDE DEF y
  <2> QED  BY <1>2, <2>2
<1>7. n = IF p = m.dv THEN no_dv(t) ELSE t
  OBVIOUS
<1>8. t = set_top(k, p, y[p])
  BY <1>2, <1>3, <1>6
<1> HIDE DEF k, t, y
<1>9. p \in Addr /\ k.top = m.top /\ k.dv = m.dv /\ k.dvsize = m.dvsize /\ SameSystem(m, k)
      /\ k.chunk[p] = m.chunk[p]
  <2>1. p \in Addr
    BY <1>1, HoleChunk
  <2> QED  BY <1>2, <1>5, <2>1 DEF OnlyChunks, SameTop, SameDv
<1>10. /\ SameSystem(k, t) /\ SameDv(k, t)
       /\ Hole(t, y, U, {}, {}, E) /\ TopOK(t, y, U, {}, E) /\ t.top = p
  <2>1. p \in {p} /\ k.top \notin DOMAIN y /\ MaySet(k.chunk, y, {p}, p) /\ p + y[p] = E
    BY <1>6, <1>9 DEF MaySet
  <2>2. /\ SameSystem(k, t) /\ SameDv(k, t) /\ t.top = p
        /\ Hole(t, y, U, {p} \ {p}, {p} \ {p}, E) /\ TopOK(t, y, U, {p} \ {p}, E)
    BY <1>5, <1>8, <2>1, HoleToTop
  <2>3. {p} \ {p} = {}
    OBVIOUS
  <2> QED  BY <2>2, <2>3
<1>11. Hole(n, y, U, {}, {}, E) /\ TopOK(n, y, U, {}, E) /\ SameSystem(t, n)
       /\ DvOK(n, y, U, {})
  <2>1. CASE p = m.dv
    <3>1. n = no_dv(t) /\ t.dv = t.top
      BY <1>7, <1>9, <1>10, <2>1 DEF SameDv
    <3>2. SameSystem(t, n) /\ SameTop(t, n) /\ Hole(n, y, U, {}, {}, E) /\ DvOK(n, y, U, {})
      BY <1>10, <3>1, HoleNoDv
    <3>3. TopOK(n, y, U, {}, E)
      BY <1>10, <3>2 DEF TopOK, SameTop
    <3> QED  BY <3>2, <3>3
  <2>2. CASE p # m.dv
    <3>1. n = t /\ DvOK(m, z, U, {p})
      BY <1>7, <2>2
    <3>2. t.dv = m.dv /\ t.dvsize = m.dvsize
      BY <1>9, <1>10 DEF SameDv
    <3>3. DvOK(t, y, U, {})
      BY <1>6, <1>10, <2>2, <3>1, <3>2 DEF DvOK
    <3>4. SameSystem(t, t)
      BY DEF SameSystem
    <3> QED  BY <1>10, <3>1, <3>3, <3>4
  <2> QED  BY <2>1, <2>2
<1>12. Heap(n, y, U) /\ n.top + n.topsize = E
  BY <1>11, HeapFromHole
<1>13. SameSystem(m, n)
  BY <1>9, <1>10, <1>11 DEF SameSystem
<1>14. m.top + m.topsize = E /\ \A a \in U : y[a] = z[a]
  BY <1>1, <1>2, <1>6
<1> QED  BY <1>12, <1>13, <1>14 DEF Settles

Joined(y, z, p, r) ==
    /\ DOMAIN y = DOMAIN z \ {r} /\ y[p] = z[p] + z[r]
    /\ \A a \in DOMAIN z \ {p, r} : y[a] = z[a]

(* Two neighbours joined, whatever the layout is called. *)
LEMMA JoinedFacts ==
  ASSUME NEW z, NEW seg, NEW E, Layout(z, seg, E), NEW p \in DOMAIN z, NEW r \in DOMAIN z,
         p + z[p] = r
  PROVE  Joined(Join(z, p), z, p, r) /\ p + Join(z, p)[p] = r + z[r] /\ p # r
BY JoinFacts DEF Joined

(* The freed chunk takes up the free one behind it.                        *)
LEMMA ForwardFree ==
  ASSUME NEW m, NEW z, NEW U, NEW E, NEW p, NEW r, NEW H, H = {p, r}, Hole(m, z, U, H, H, E),
         p # r, p + z[p] = r, r + z[r] # E, ~m.chunk[r + z[r]].pinuse,
         r + z[r] \in U, m.chunk[p].pinuse,
         NEW n, n = set_size_and_pinuse_of_free_chunk(Erase(m, r), p, z[p] + z[r]),
         NEW y, y = Join(z, p)
  PROVE  OnlyChunks(m, n) /\ Hole(n, y, U, {}, {p}, E) /\ Joined(y, z, p, r)
<1> DEFINE k == Erase(m, r)
<1>1. m \in State /\ p \in DOMAIN z /\ p \notin U /\ U \subseteq DOMAIN z
      /\ Layout(z, m.seg, E) /\ r \in DOMAIN z
  BY DEF Hole
<1>2. p \in Nat /\ z[p] \in Nat /\ z[r] \in Nat /\ z[r] > 0 /\ r \in Nat /\ p \in Addr
  BY <1>1, HoleChunk
<1>3. OnlyChunks(m, k) /\ (\A q \in Addr \ {r} : k.chunk[q] = m.chunk[q])
      /\ Hole(k, y, U, {p}, {p}, E)
  <2>1. p \in H /\ p + z[p] \in H /\ k = Erase(m, p + z[p])
    OBVIOUS
  <2>2. /\ OnlyChunks(m, k)
        /\ \A q \in Addr \ {p + z[p]} : k.chunk[q] = m.chunk[q]
        /\ Hole(k, Join(z, p), U, H \ {p + z[p]}, H \ {p + z[p]}, E)
    BY <2>1, HoleJoin
  <2>3. H \ {p + z[p]} = {p}
    OBVIOUS
  <2> QED  BY <2>2, <2>3
<1>4. /\ DOMAIN y = DOMAIN z \ {r} /\ y[p] = z[p] + z[r] /\ p + y[p] = r + z[r]
      /\ \A a \in DOMAIN z \ {p, r} : y[a] = z[a]
  <2>1. p + z[p] \in DOMAIN z
    BY <1>1
  <2> QED  BY <1>1, <2>1, JoinFacts
<1> HIDE DEF k
<1>5. p \in DOMAIN y
  BY <1>1, <1>4
<1>6. y[p] \in size_t \ {0} /\ p + y[p] \in Addr /\ k \in State
  BY <1>3, <1>5, HoleChunk DEF OnlyChunks
<1>7. n = set_size_and_pinuse_of_free_chunk(k, p, y[p])
  BY <1>4 DEF k
<1>8. ~k.chunk[p + y[p]].pinuse /\ k.chunk[p].pinuse
  BY <1>2, <1>3, <1>4, <1>6
<1>9. OnlyChunks(k, n) /\ MarksFree(k.chunk, n.chunk, p, y[p])
  BY <1>2, <1>6, <1>7, <1>8, SetSizeOfFreeFacts
<1>10. Hole(n, y, U, {}, {p}, E)
  <2>1. MaySet(k.chunk, y, {p}, p) /\ p \in {p} /\ p + y[p] \in U \cup {p}
    BY <1>4, <1>8 DEF MaySet
  <2>2. Hole(n, y, U, {p} \ {p}, {p}, E)
    BY <1>3, <1>9, <2>1, HoleToFree
  <2> QED  BY <2>2
<1>11. OnlyChunks(m, n)
  BY <1>3, <1>9, HeaderTrans
<1> QED  BY <1>4, <1>10, <1>11 DEF Joined

(* Before dv: the freed chunk becomes the head of it.                      *)
LEMMA ForwardDv ==
  ASSUME NEW m, NEW z, NEW U, NEW E, NEW p, Hole(m, z, U, {p}, {p}, E),
         TopOK(m, z, U, {p}, E), DvOK(m, z, U, {p}), m.chunk[p].pinuse, p + z[p] = m.dv,
         NEW s, s = m.dvsize + z[p],
         NEW n, n = set_dv(set_size_and_pinuse_of_free_chunk(Erase(m, m.dv), p, s), p, s)
  PROVE  Settles(m, z, n, U, U)
<1> DEFINE k == set_size_and_pinuse_of_free_chunk(Erase(m, m.dv), p, z[p] + z[m.dv])
           y == Join(z, p)
<1>1. m \in State /\ p \in DOMAIN z /\ p \notin U /\ U \subseteq DOMAIN z
  BY DEF Hole
<1>2. m.top \in DOMAIN z \ (U \cup {p}) /\ m.top + z[m.top] = E /\ m.topsize = z[m.top]
  BY DEF TopOK
<1>3. p \in Nat /\ z[p] \in Nat /\ z[p] > 0 /\ NULL \notin DOMAIN z
  BY <1>1, HoleChunk
<1>4. m.dv \in DOMAIN z \ (U \cup {p}) /\ m.dv # m.top /\ m.dvsize = z[m.dv]
  <2>1. m.dv # NULL
    <3>1. p + z[p] # 0
      BY <1>3
    <3> QED  BY <3>1 DEF NULL
  <2> QED  BY <2>1 DEF DvOK
<1>5. z[m.dv] \in Nat /\ m.dv + z[m.dv] # E
  <2>1. m.dv \in DOMAIN z /\ m.dv # m.top /\ m.top \in DOMAIN z /\ m.top + z[m.top] = E
    BY <1>2, <1>4
  <2>2. m.dv + z[m.dv] # E
    BY <2>1, NotTop
  <2>3. z[m.dv] \in Nat
    BY <2>1, HoleChunk
  <2> QED  BY <2>2, <2>3
<1>6. ~m.chunk[m.dv + z[m.dv]].pinuse /\ m.dv + z[m.dv] \in U
  <2>1. ~m.chunk[m.dv + z[m.dv]].pinuse /\ m.dv + z[m.dv] \in U \cup {p}
    BY <1>4, <1>5, HoleFree
  <2>2. m.dv + z[m.dv] # p
    BY <1>3, <1>5
  <2> QED  BY <2>1, <2>2
<1>7. Hole(m, z, U, {p, m.dv}, {p, m.dv}, E)
  <2>1. Hole(m, z, U, {p} \cup {m.dv}, {p} \cup {m.dv}, E)
    BY <1>4, HoleUnbinned
  <2>2. {p} \cup {m.dv} = {p, m.dv}
    OBVIOUS
  <2> QED  BY <2>1, <2>2
<1>8. /\ OnlyChunks(m, k) /\ Hole(k, y, U, {}, {p}, E) /\ y[p] = z[p] + z[m.dv]
      /\ DOMAIN y = DOMAIN z \ {m.dv} /\ \A a \in DOMAIN z \ {p, m.dv} : y[a] = z[a]
  <2>1. p # m.dv
    BY <1>4
  <2>2. PICK r : r = m.dv
    OBVIOUS
  <2>3. k = set_size_and_pinuse_of_free_chunk(Erase(m, r), p, z[p] + z[r])
    BY <2>2
  <2> HIDE DEF k
  <2>6. y = Join(z, p)
    OBVIOUS
  <2> HIDE DEF y
  <2>7. PICK H : H = {p, r}
    OBVIOUS
  <2>4. /\ Hole(m, z, U, H, H, E) /\ p # r /\ p + z[p] = r /\ r + z[r] # E
        /\ ~m.chunk[r + z[r]].pinuse /\ r + z[r] \in U
    BY <1>4, <1>5, <1>6, <1>7, <2>2, <2>7
  <2>5. OnlyChunks(m, k) /\ Hole(k, y, U, {}, {p}, E) /\ Joined(y, z, p, r)
    BY <2>3, <2>4, <2>6, <2>7, ForwardFree
  <2> QED  BY <2>2, <2>5 DEF Joined
<1>9. n = set_dv(k, p, y[p])
  <2>1. s = z[p] + z[m.dv]
    BY <1>3, <1>4, <1>5
  <2> HIDE DEF y
  <2> QED  BY <1>8, <2>1
<1> HIDE DEF k, y
<1>10. k.top = m.top /\ k.topsize = m.topsize /\ k.dv = m.dv /\ SameSystem(m, k)
  BY <1>8 DEF OnlyChunks, SameTop, SameDv
<1>11. /\ SameSystem(k, n) /\ SameTop(k, n)
       /\ Hole(n, y, U, {}, {}, E) /\ DvOK(n, y, U, {})
  <2>1. p \in {p} \ {} /\ p # k.top /\ k.dv \notin DOMAIN y /\ k.dv \notin {p}
    BY <1>2, <1>4, <1>8, <1>10
  <2>2. /\ SameSystem(k, n) /\ SameTop(k, n)
        /\ Hole(n, y, U, {}, {p} \ {p}, E) /\ DvOK(n, y, U, {p} \ {p})
    BY <1>8, <1>9, <2>1, HoleSetDv
  <2>3. {p} \ {p} = {}
    OBVIOUS
  <2> QED  BY <2>2, <2>3
<1>12. TopOK(n, y, U, {}, E)
  BY <1>2, <1>4, <1>8, <1>10, <1>11 DEF TopOK, SameTop
<1>13. Heap(n, y, U) /\ n.top + n.topsize = E
  BY <1>11, <1>12, HeapFromHole
<1>14. SameSystem(m, n) /\ m.top + m.topsize = E /\ \A a \in U : y[a] = z[a]
  BY <1>1, <1>2, <1>4, <1>8, <1>10, <1>11, SystemTrans
<1> QED  BY <1>13, <1>14 DEF Settles

(* The free chunk behind is unlinked. *)
LEMMA UnlinkNext ==
  ASSUME NEW m, NEW z, NEW U, NEW E, NEW p, Hole(m, z, U, {p}, {p}, E),
         NEW r \in DOMAIN z \ U, r # p, r \notin {m.top, m.dv}, r + z[r] # E,
         NEW n, n = unlink_chunk(m, r, z[r])
  PROVE  OnlyBins(m, n) /\ Hole(n, z, U, {p, r}, {p, r}, E)
<1>1. PICK H : H = {p}
  OBVIOUS
<1>2. Hole(m, z, U, H, H, E) /\ r \in DOMAIN z \ (U \cup H)
  BY <1>1
<1>3. OnlyBins(m, n) /\ Hole(n, z, U, H \cup {r}, H \cup {r}, E)
  BY <1>2, HoleBinned
<1>4. H \cup {r} = {p, r}
  BY <1>1
<1> QED  BY <1>3, <1>4

(* Before a binned chunk.                                                  *)
LEMMA ForwardBinned ==
  ASSUME NEW m, NEW z, NEW U, NEW E, NEW p, Hole(m, z, U, {p}, {p}, E),
         TopOK(m, z, U, {p}, E), p = m.dv \/ DvOK(m, z, U, {p}),
         m.chunk[p].pinuse, NEW r, r = p + z[p],
         r \in DOMAIN z \ U, r \notin {m.top, m.dv},
         NEW k, k = set_size_and_pinuse_of_free_chunk(
                        Erase(unlink_chunk(m, r, z[r]), r), p, z[p] + z[r]),
         NEW n, n = IF p = m.dv THEN set_dv(k, p, z[p] + z[r]) ELSE insert_chunk(k, p, z[p] + z[r])
  PROVE  Settles(m, z, n, U, U)
<1> DEFINE u == unlink_chunk(m, r, z[r])
           y == Join(z, p)
<1>1. m \in State /\ p \in DOMAIN z /\ p \notin U /\ U \subseteq DOMAIN z
  BY DEF Hole
<1>2. m.top \in DOMAIN z \ (U \cup {p}) /\ m.top + z[m.top] = E /\ m.topsize = z[m.top]
  BY DEF TopOK
<1>3. p \in Nat /\ z[p] \in Nat /\ z[p] > 0 /\ NULL \notin DOMAIN z
  BY <1>1, HoleChunk
<1>4. p # r /\ z[r] \in Nat /\ r + z[r] # E
  <2>1. p # r
    BY <1>3
  <2>2. z[r] \in Nat /\ r + z[r] # E
    <3>1. r \in DOMAIN z /\ r # m.top /\ m.top \in DOMAIN z /\ m.top + z[m.top] = E
      BY <1>2
    <3>2. r + z[r] # E
      BY <3>1, NotTop
    <3>3. z[r] \in Nat
      BY <3>1, HoleChunk
    <3> QED  BY <3>2, <3>3
  <2> QED  BY <2>1, <2>2
<1>5. ~m.chunk[r + z[r]].pinuse /\ r + z[r] \in U
  <2>1. ~m.chunk[r + z[r]].pinuse /\ r + z[r] \in U \cup {p}
    BY <1>4, HoleFree
  <2>2. r + z[r] # p
    BY <1>3, <1>4
  <2> QED  BY <2>1, <2>2
<1>6. OnlyBins(m, u) /\ Hole(u, z, U, {p, r}, {p, r}, E)
  BY <1>4, UnlinkNext, ZenonT(60)
<1>7. k = set_size_and_pinuse_of_free_chunk(Erase(u, r), p, z[p] + z[r])
  OBVIOUS
<1> HIDE DEF u
<1>8. u.chunk = m.chunk /\ u.top = m.top /\ u.topsize = m.topsize /\ u.dv = m.dv
      /\ u.dvsize = m.dvsize /\ SameSystem(m, u)
  BY <1>6 DEF OnlyBins, SameTop, SameDv
<1>9. /\ OnlyChunks(u, k) /\ Hole(k, y, U, {}, {p}, E) /\ y[p] = z[p] + z[r]
      /\ DOMAIN y = DOMAIN z \ {r} /\ \A a \in DOMAIN z \ {p, r} : y[a] = z[a]
  <2>1. y = Join(z, p)
    OBVIOUS
  <2> HIDE DEF y
  <2>2. ~u.chunk[r + z[r]].pinuse /\ u.chunk[p].pinuse /\ p + z[p] = r
    BY <1>5, <1>8
  <2>3. PICK H : H = {p, r}
    OBVIOUS
  <2>4. Hole(u, z, U, H, H, E)
    BY <1>6, <2>3
  <2>5. OnlyChunks(u, k) /\ Hole(k, y, U, {}, {p}, E) /\ Joined(y, z, p, r)
    BY <1>4, <1>5, <1>7, <2>1, <2>2, <2>3, <2>4, ForwardFree
  <2> QED  BY <2>5 DEF Joined
<1> HIDE DEF y
<1>10. k.top = m.top /\ k.topsize = m.topsize /\ k.dv = m.dv /\ k.dvsize = m.dvsize
       /\ SameSystem(m, k)
  BY <1>8, <1>9, SystemTrans DEF OnlyChunks, SameTop, SameDv
<1>11. p # m.top /\ p + y[p] # E
  <2>1. m.top \in DOMAIN y /\ m.top + y[m.top] = E /\ p \in DOMAIN y /\ p # m.top
    BY <1>1, <1>2, <1>4, <1>9
  <2> QED  BY <1>9, <1>10, <2>1, NotTop, SMTT(40)
<1>12. /\ Hole(n, y, U, {}, {}, E) /\ DvOK(n, y, U, {})
       /\ n.top = m.top /\ n.topsize = m.topsize /\ SameSystem(k, n)
  <2>1. CASE p = m.dv
    <3>1. n = set_dv(k, p, y[p])
      BY <1>9, <2>1
    <3>2. p \in {p} \ {} /\ p # k.top /\ k.dv \in {p} /\ k.dv = p
      BY <1>10, <1>11, <2>1
    <3>3. /\ SameSystem(k, n) /\ SameTop(k, n)
          /\ Hole(n, y, U, {}, {p} \ {p}, E) /\ DvOK(n, y, U, {p} \ {p})
      BY <1>9, <3>1, <3>2, HoleSetDv
    <3>4. {p} \ {p} = {}
      OBVIOUS
    <3> QED  BY <1>10, <3>3, <3>4 DEF SameTop
  <2>2. CASE p # m.dv
    <3>1. n = insert_chunk(k, p, y[p])
      BY <1>9, <2>2
    <3>2. p \in {p} \ {} /\ p \notin {k.top, k.dv}
      BY <1>10, <1>11, <2>2
    <3>3. OnlyBins(k, n) /\ Hole(n, y, U, {}, {p} \ {p}, E)
      BY <1>9, <1>11, <3>1, <3>2, HolePut
    <3>4. {p} \ {p} = {}
      OBVIOUS
    <3>5. n.dv = m.dv /\ n.dvsize = m.dvsize /\ n.top = m.top /\ n.topsize = m.topsize
          /\ SameSystem(k, n)
      BY <1>10, <3>3 DEF OnlyBins, SameTop, SameDv
    <3>6. DvOK(n, y, U, {})
      BY <1>9, <2>2, <3>5 DEF DvOK
    <3> QED  BY <3>3, <3>4, <3>5, <3>6
  <2> QED  BY <2>1, <2>2
<1>13. TopOK(n, y, U, {}, E)
  <2>1. m.top # r /\ m.top # p /\ m.top \in DOMAIN z /\ m.top \notin U
    BY <1>2, <1>4
  <2>2. m.top \in DOMAIN y /\ y[m.top] = z[m.top]
    BY <1>9, <2>1
  <2>3. n.top = m.top /\ n.topsize = m.topsize
    BY <1>12
  <2> QED  BY <1>2, <2>1, <2>2, <2>3 DEF TopOK
<1>14. Heap(n, y, U) /\ n.top + n.topsize = E
  BY <1>12, <1>13, HeapFromHole
<1>15. SameSystem(m, n) /\ m.top + m.topsize = E /\ \A a \in U : y[a] = z[a]
  BY <1>1, <1>2, <1>4, <1>9, <1>10, <1>12, SystemTrans
<1> QED  BY <1>14, <1>15 DEF Settles

(* All of it.                                                              *)
LEMMA ForwardFacts ==
  ASSUME NEW m, NEW z, NEW U, NEW E, NEW p, Hole(m, z, U, {p}, {p}, E),
         TopOK(m, z, U, {p}, E), m.chunk[p].pinuse,
         DvOK(m, z, U, {p}) \/ (p = m.dv /\ p + z[p] \notin U),
         NEW n, n = ConsolidateForward(m, p, z[p], p + z[p])
  PROVE  Settles(m, z, n, U, U)
<1> DEFINE r == p + z[p]
<1>1. p \in DOMAIN z /\ U \subseteq DOMAIN z /\ p \notin U
      /\ Tags(m.chunk, z, m.seg, E, U, {p})
  BY DEF Hole
<1>2. m.top \in DOMAIN z \ (U \cup {p}) /\ m.top + z[m.top] = E
  BY DEF TopOK
<1>3. p \in Nat /\ z[p] \in Nat /\ z[p] > 0
  BY <1>1, HoleChunk
<1>4. r \in DOMAIN z /\ r # p
  <2>1. p + z[p] # E
    BY <1>1, <1>2, NotTop
  <2> QED  BY <1>1, <1>3, <2>1, HoleNextFree
<1>5. m.chunk[r].size = z[r] /\ (m.chunk[r].cinuse <=> r \in U)
  BY <1>1, <1>4 DEF Tags
<1>6. CASE r \in U
  <2>1. n = insert_chunk(set_free_with_pinuse(m, p, z[p], p + z[p]), p, z[p])
    BY <1>5, <1>6 DEF ConsolidateForward, cinuse
  <2> QED  BY <1>6, <2>1, ForwardUsed
<1>7. CASE r \notin U /\ r = m.top
  <2>1. n = LET merged == set_top(Erase(m, m.top), p, m.topsize + z[p])
            IN IF p = m.dv THEN no_dv(merged) ELSE merged
    BY <1>5, <1>7 DEF ConsolidateForward, cinuse
  <2> QED  BY <1>7, <2>1, ForwardTop
<1>8. CASE r \notin U /\ r # m.top /\ r = m.dv
  <2>1. n = set_dv(set_size_and_pinuse_of_free_chunk(Erase(m, m.dv), p, m.dvsize + z[p]),
                   p, m.dvsize + z[p])
    BY <1>5, <1>8 DEF ConsolidateForward, cinuse
  <2>2. DvOK(m, z, U, {p})
    BY <1>4, <1>8
  <2> QED  BY <1>8, <2>1, <2>2, ForwardDv
<1>9. CASE r \notin U /\ r # m.top /\ r # m.dv
  <2> DEFINE k == set_size_and_pinuse_of_free_chunk(
                      Erase(unlink_chunk(m, r, z[r]), r), p, z[p] + z[r])
  <2>1. n = IF p = m.dv THEN set_dv(k, p, z[p] + z[r]) ELSE insert_chunk(k, p, z[p] + z[r])
    BY <1>5, <1>9 DEF ConsolidateForward, cinuse, chunksize
  <2>2. r \in DOMAIN z \ U /\ r \notin {m.top, m.dv} /\ (p = m.dv \/ DvOK(m, z, U, {p}))
    BY <1>4, <1>9
  <2> HIDE DEF k, r
  <2> QED  BY <2>1, <2>2, ForwardBinned DEF k, r
<1> QED  BY <1>6, <1>7, <1>8, <1>9

(* dv may be set before its header is; what is dv need not be set apart.   *)
LEMMA HoleSetDvEarly ==
  ASSUME NEW m, NEW z, NEW U, NEW L, NEW E, NEW H, Hole(m, z, U, H, L, E),
         NEW p \in L, m.dv \in L, NEW s \in size_t,
         NEW n, n = set_dv(m, p, s)
  PROVE  /\ SameSystem(m, n) /\ SameTop(m, n) /\ n.chunk = m.chunk /\ n.dv = p /\ n.dvsize = s
         /\ Hole(n, z, U, H, L, E)
<1>1. m \in State /\ Bins(m, z, U \cup L \cup {m.top, m.dv}) /\ p \in DOMAIN z
      /\ L \subseteq DOMAIN z
  BY DEF Hole
<1>2. p \in Addr
  BY <1>1, HoleChunk
<1>3. n \in State /\ n.dv = p /\ n.dvsize = s /\ n.chunk = m.chunk
      /\ SameSystem(m, n) /\ SameBins(m, n) /\ SameTop(m, n)
  BY <1>1, <1>2, SetDvFacts
<1>4. /\ n.seg = m.seg /\ n.aborted = m.aborted /\ n.least_addr = m.least_addr
      /\ n.brk = m.brk /\ n.top = m.top
  BY <1>3 DEF SameSystem, SameTop
<1>5. U \cup L \cup {m.top, m.dv} = U \cup L \cup {n.top, n.dv}
  BY <1>3, <1>4
<1>6. Bins(n, z, U \cup L \cup {n.top, n.dv})
  BY <1>1, <1>3, <1>5, BinsFrame
<1>7. Hole(n, z, U, H, L, E)
  BY <1>3, <1>4, <1>6 DEF Hole
<1> QED  BY <1>3, <1>7

(* What is top or dv need not be set apart. *)
LEMMA HoleDrop ==
  ASSUME NEW m, NEW z, NEW U, NEW L, NEW E, NEW H, Hole(m, z, U, H, L, E),
         NEW p \in L \ H, p \in {m.top, m.dv}
  PROVE  Hole(m, z, U, H, L \ {p}, E)
<1>1. U \cup L \cup {m.top, m.dv} = U \cup (L \ {p}) \cup {m.top, m.dv}
  OBVIOUS
<1> QED  BY <1>1 DEF Hole

(* The chunk before is free: it takes up the freed one.                    *)
LEMMA BackwardFacts ==
  ASSUME NEW m, NEW z, NEW U, NEW E, NEW p, NEW a, NEW H, H = {p, a}, Hole(m, z, U, H, H, E),
         a + z[a] = p, a # p, m.chunk[a].pinuse,
         NEW k, k = Erase(m, p), NEW y, y = Join(z, a)
  PROVE  /\ OnlyChunks(m, k) /\ Hole(k, y, U, {a}, {a}, E) /\ k.chunk[a].pinuse
         /\ Joined(y, z, a, p)
<1>1. a \in DOMAIN z /\ p \in DOMAIN z /\ Layout(z, m.seg, E)
  BY DEF Hole
<1>2. a \in Addr /\ a \in Nat /\ z[a] \in Nat /\ z[p] \in Nat
  BY <1>1, HoleChunk
<1>3. a \in H /\ a + z[a] \in H /\ k = Erase(m, a + z[a])
  OBVIOUS
<1>4. /\ OnlyChunks(m, k)
      /\ \A q \in Addr \ {a + z[a]} : k.chunk[q] = m.chunk[q]
      /\ Hole(k, y, U, H \ {a + z[a]}, H \ {a + z[a]}, E)
  BY <1>3, HoleJoin
<1>5. H \ {a + z[a]} = {a}
  OBVIOUS
<1>6. Hole(k, y, U, {a}, {a}, E)
  BY <1>4, <1>5
<1>7. Joined(y, z, a, p) /\ a + y[a] = p + z[p]
  <2>1. PICK seg : seg = m.seg
    OBVIOUS
  <2>2. Layout(z, seg, E)
    BY <1>1, <2>1
  <2>3. Joined(Join(z, a), z, a, p) /\ a + Join(z, a)[a] = p + z[p]
    BY <1>1, <2>2, JoinedFacts
  <2> QED  BY <2>3
<1>8. k.chunk[a].pinuse
  BY <1>2, <1>4
<1> QED  BY <1>4, <1>6, <1>7, <1>8

(* A change before the work is settled is part of it. *)
LEMMA SettlesAfter ==
  ASSUME NEW m, NEW z, NEW k, NEW y, NEW n, NEW V, NEW W, Settles(k, y, n, V, W),
         SameSystem(m, k), k.top + k.topsize = m.top + m.topsize,
         \A a \in W : y[a] = z[a]
  PROVE  Settles(m, z, n, V, W)
<1>1. PICK x : /\ Heap(n, x, V) /\ n.top + n.topsize = k.top + k.topsize
               /\ \A a \in W : x[a] = y[a]
  BY DEF Settles
<1>2. SameSystem(m, n)
  BY SystemTrans DEF Settles
<1>3. \A a \in W : x[a] = z[a]
  BY <1>1
<1> QED  BY <1>1, <1>2, <1>3 DEF Settles

(* Behind a free chunk that is binned.                                     *)
LEMMA DisposeBinned ==
  ASSUME NEW m, NEW z, NEW U, NEW E, NEW p, Hole(m, z, U, {p}, {p}, E),
         TopOK(m, z, U, {p}, E), DvOK(m, z, U, {p}),
         NEW a \in DOMAIN z \ U, a + z[a] = p, a # p, m.chunk[a].pinuse, a # m.dv,
         NEW n, n = ConsolidateForward(Erase(unlink_chunk(m, a, z[a]), p), a, z[p] + z[a],
                                       p + z[p])
  PROVE  Settles(m, z, n, U, U)
<1> DEFINE u == unlink_chunk(m, a, z[a])
           k == Erase(u, p)
           y == Join(z, a)
<1>1. p \in DOMAIN z /\ U \subseteq DOMAIN z /\ p \notin U /\ Layout(z, m.seg, E)
      /\ Segs(m.seg, E, m.least_addr, m.brk)
  BY DEF Hole
<1>2. p # E
  BY <1>1, StopsFacts
<1>3. a # m.top
  BY <1>2 DEF TopOK
<1>4. OnlyBins(m, u) /\ Hole(u, z, U, {p, a}, {p, a}, E)
  <2>1. a \notin {m.top, m.dv} /\ a + z[a] # E
    BY <1>2, <1>3
  <2>2. u = unlink_chunk(m, a, z[a])
    OBVIOUS
  <2> HIDE DEF u
  <2> QED  BY <2>1, <2>2, UnlinkNext
<1>5. n = ConsolidateForward(k, a, z[p] + z[a], p + z[p])
  OBVIOUS
<1>6. /\ OnlyChunks(u, k) /\ Hole(k, y, U, {a}, {a}, E) /\ k.chunk[a].pinuse
      /\ Joined(y, z, a, p) /\ a + y[a] = p + z[p]
  <2>1. k = Erase(u, p) /\ y = Join(z, a)
    OBVIOUS
  <2> HIDE DEF u, k, y
  <2>2. PICK H : H = {p, a}
    OBVIOUS
  <2>3. Hole(u, z, U, H, H, E) /\ u.chunk[a].pinuse
    BY <1>4, <2>2 DEF OnlyBins
  <2>4. /\ OnlyChunks(u, k) /\ Hole(k, y, U, {a}, {a}, E) /\ k.chunk[a].pinuse
        /\ Joined(y, z, a, p)
    BY <2>1, <2>2, <2>3, BackwardFacts
  <2>5. z[p] \in Nat /\ z[a] \in Nat /\ a \in Nat /\ p \in Nat
    BY <1>1, HoleChunk
  <2> QED  BY <2>4, <2>5 DEF Joined
<1> HIDE DEF u, k, y
<1>7. k.top = m.top /\ k.topsize = m.topsize /\ k.dv = m.dv /\ k.dvsize = m.dvsize
      /\ SameSystem(m, k)
  BY <1>4, <1>6, SystemTrans DEF OnlyBins, OnlyChunks, SameTop, SameDv
<1>8. TopOK(k, y, U, {a}, E) /\ DvOK(k, y, U, {a})
  BY <1>3, <1>6, <1>7 DEF TopOK, DvOK, Joined
<1>9. n = ConsolidateForward(k, a, y[a], a + y[a])
  <2>1. z[p] \in Nat /\ z[a] \in Nat
    BY <1>1, HoleChunk
  <2>2. y[a] = z[p] + z[a]
    BY <1>6, <2>1 DEF Joined
  <2> QED  BY <1>5, <1>6, <2>2
<1>10. Settles(k, y, n, U, U)
  BY <1>6, <1>8, <1>9, ForwardFacts
<1>11. \A b \in U : y[b] = z[b]
  BY <1>1, <1>6 DEF Joined
<1> QED  BY <1>7, <1>10, <1>11, SettlesAfter

IsDv(m, a) == a = m.dv

(* Behind dv.                                                              *)
LEMMA DisposeDv ==
  ASSUME NEW m, NEW z, NEW U, NEW E, NEW p, Hole(m, z, U, {p}, {p}, E),
         TopOK(m, z, U, {p}, E), m.chunk[p + z[p]].pinuse, m.chunk[p + z[p]].cinuse <=> p + z[p] \in U,
         NEW a \in DOMAIN z \ U, a + z[a] = p, a # p, m.chunk[a].pinuse, IsDv(m, a),
         NEW n,
         n = IF cinuse(m, p + z[p]) /\ pinuse(m, p + z[p])
             THEN set_free_with_pinuse(set_dv(Erase(m, p), a, z[p] + z[a]), a, z[p] + z[a], p + z[p])
             ELSE ConsolidateForward(Erase(m, p), a, z[p] + z[a], p + z[p])
  PROVE  Settles(m, z, n, U, U)
<1> DEFINE k == Erase(m, p)
           y == Join(z, a)
<1>1. p \in DOMAIN z /\ U \subseteq DOMAIN z /\ p \notin U /\ Layout(z, m.seg, E)
      /\ Segs(m.seg, E, m.least_addr, m.brk)
  BY DEF Hole
<1>2. p # E
  BY <1>1, StopsFacts
<1>3. a # m.top
  BY <1>2 DEF TopOK
<1>4. Hole(m, z, U, {p, a}, {p, a}, E)
  <2>1. PICK H : H = {p}
    OBVIOUS
  <2>2. Hole(m, z, U, H, H, E) /\ a \in DOMAIN z \ (U \cup H) /\ a \in {m.top, m.dv}
    BY <2>1 DEF IsDv
  <2>3. Hole(m, z, U, H \cup {a}, H \cup {a}, E)
    BY <2>2, HoleUnbinned
  <2>4. H \cup {a} = {p, a}
    BY <2>1
  <2> QED  BY <2>3, <2>4
<1>5. n = IF cinuse(m, p + z[p]) /\ pinuse(m, p + z[p])
          THEN set_free_with_pinuse(set_dv(k, a, z[p] + z[a]), a, z[p] + z[a], p + z[p])
          ELSE ConsolidateForward(k, a, z[p] + z[a], p + z[p])
  OBVIOUS
<1>6. /\ OnlyChunks(m, k) /\ Hole(k, y, U, {a}, {a}, E) /\ k.chunk[a].pinuse
      /\ Joined(y, z, a, p) /\ a + y[a] = p + z[p]
  <2>1. k = Erase(m, p) /\ y = Join(z, a)
    OBVIOUS
  <2> HIDE DEF k, y
  <2>2. PICK H : H = {p, a}
    OBVIOUS
  <2>3. Hole(m, z, U, H, H, E)
    BY <1>4, <2>2
  <2>4. /\ OnlyChunks(m, k) /\ Hole(k, y, U, {a}, {a}, E) /\ k.chunk[a].pinuse
        /\ Joined(y, z, a, p)
    BY <2>1, <2>2, <2>3, BackwardFacts
  <2>5. z[p] \in Nat /\ z[a] \in Nat /\ a \in Nat /\ p \in Nat
    BY <1>1, HoleChunk
  <2> QED  BY <2>4, <2>5 DEF Joined
<1> HIDE DEF k, y
<1>7. k.top = m.top /\ k.topsize = m.topsize /\ k.dv = a
      /\ SameSystem(m, k)
  BY <1>6 DEF OnlyChunks, SameTop, SameDv, IsDv
<1>8. TopOK(k, y, U, {a}, E)
  BY <1>3, <1>6, <1>7 DEF TopOK, Joined
<1>9. y[a] = z[p] + z[a]
  <2>1. z[p] \in Nat /\ z[a] \in Nat
    BY <1>1, HoleChunk
  <2> QED  BY <1>6, <2>1 DEF Joined
<1>11. \A b \in U : y[b] = z[b]
  BY <1>1, <1>6 DEF Joined
<1>12. CASE p + z[p] \notin U
  <2>1. n = ConsolidateForward(k, a, y[a], a + y[a])
    BY <1>5, <1>6, <1>9, <1>12 DEF cinuse
  <2>2. a = k.dv /\ a + y[a] \notin U
    BY <1>6, <1>7, <1>12
  <2>3. Settles(k, y, n, U, U)
    BY <1>6, <1>8, <2>1, <2>2, ForwardFacts
  <2> QED  BY <1>7, <1>11, <2>3, SettlesAfter
<1>13. CASE p + z[p] \in U
  <2> DEFINE d == set_dv(k, a, y[a])
  <2>1. n = set_free_with_pinuse(d, a, y[a], a + y[a])
    BY <1>5, <1>6, <1>9, <1>13 DEF cinuse, pinuse
  <2>2. a \in DOMAIN y /\ a \in {a}
    BY <1>6 DEF Hole
  <2>3. a \in Addr /\ y[a] \in size_t \ {0} /\ y[a] \in size_t /\ a + y[a] \in Addr
    BY <1>6, <2>2, HoleChunk
  <2>4. /\ SameSystem(k, d) /\ SameTop(k, d) /\ d.chunk = k.chunk /\ d.dv = a /\ d.dvsize = y[a]
        /\ Hole(d, y, U, {a}, {a}, E)
    <3>1. d = set_dv(k, a, y[a]) /\ k.dv \in {a}
      BY <1>7
    <3> HIDE DEF d
    <3> QED  BY <1>6, <2>2, <2>3, <3>1, HoleSetDvEarly
  <2> HIDE DEF d
  <2>5. OnlyChunks(d, n) /\ MarksFree(d.chunk, n.chunk, a, y[a])
    <3>1. d \in State
      BY <2>4 DEF Hole
    <3> QED  BY <2>1, <2>3, <3>1, SetFreeFacts
  <2>6. Hole(n, y, U, {}, {a}, E)
    <3>1. MaySet(d.chunk, y, {a}, a) /\ a + y[a] \in U \cup {a}
      BY <1>6, <1>13, <2>4 DEF MaySet
    <3>2. Hole(n, y, U, {a} \ {a}, {a}, E)
      BY <2>2, <2>4, <2>5, <3>1, HoleToFree
    <3>3. {a} \ {a} = {}
      OBVIOUS
    <3> QED  BY <3>2, <3>3
  <2>7. n.dv = a /\ n.dvsize = y[a] /\ n.top = m.top /\ n.topsize = m.topsize
        /\ SameSystem(m, n)
    BY <1>7, <2>4, <2>5 DEF OnlyChunks, SameTop, SameDv, SameSystem
  <2>8. Hole(n, y, U, {}, {}, E)
    <3>1. a \in {a} \ {} /\ a \in {n.top, n.dv}
      BY <2>7
    <3>2. Hole(n, y, U, {}, {a} \ {a}, E)
      BY <2>6, <3>1, HoleDrop
    <3>3. {a} \ {a} = {}
      OBVIOUS
    <3> QED  BY <3>2, <3>3
  <2>9. TopOK(n, y, U, {}, E) /\ DvOK(n, y, U, {})
    <3>1. a # NULL
      BY <1>6, <2>2, HoleChunk
    <3> QED  BY <1>3, <1>7, <1>8, <2>2, <2>7, <3>1 DEF TopOK, DvOK
  <2>10. Heap(n, y, U) /\ n.top + n.topsize = E
    BY <2>8, <2>9, HeapFromHole
  <2>11. m.top + m.topsize = E
    BY DEF TopOK
  <2> QED  BY <1>11, <2>7, <2>10, <2>11 DEF Settles
<1> QED  BY <1>12, <1>13

(* dispose_chunk makes a heap again of one with a chunk less in use.       *)
LEMMA DisposeFacts ==
  ASSUME NEW m, NEW z, NEW U, NEW E, NEW p, Hole(m, z, U, {p}, {p}, E),
         TopOK(m, z, U, {p}, E), DvOK(m, z, U, {p}), m.chunk[p + z[p]].pinuse,
         NEW n, n = dispose_chunk(m, p, z[p])
  PROVE  Settles(m, z, n, U, U)
<1>1. p \in DOMAIN z /\ U \subseteq DOMAIN z /\ p \notin U
      /\ Tags(m.chunk, z, m.seg, E, U, {p})
  BY DEF Hole
<1>2. m.top \in DOMAIN z \ (U \cup {p}) /\ m.top + z[m.top] = E
  BY DEF TopOK
<1>3. p \in Nat /\ z[p] \in Nat /\ z[p] > 0 /\ m.least_addr <= p /\ m.least_addr \in Nat
      /\ p + z[p] \in Nat
  <2>1. m.least_addr \in Nat
    BY SegTyped DEF Hole
  <2> QED  BY <1>1, <2>1, HoleChunk
<1>4. p + z[p] \in DOMAIN z
  <2>1. p + z[p] # E
    BY <1>1, <1>2, NotTop
  <2> QED  BY <1>1, <2>1, HoleNextFree
<1>5. m.chunk[p + z[p]].cinuse <=> p + z[p] \in U
  BY <1>1, <1>3, <1>4 DEF Tags
<1>6. CASE m.chunk[p].pinuse
  <2>1. n = ConsolidateForward(m, p, z[p], p + z[p])
    BY <1>3, <1>6 DEF dispose_chunk, pinuse, ok_address
  <2> QED  BY <1>6, <2>1, ForwardFacts
<1>7. CASE ~m.chunk[p].pinuse
  <2>1. PICK a \in DOMAIN z \ (U \cup {p}) :
            a + z[a] = p /\ m.chunk[p].prev_foot = z[a] /\ p - z[a] = a /\ a < p
    BY <1>1, <1>3, <1>7, HolePrev
  <2>2. m.least_addr <= a /\ a \in Nat
    BY <2>1, HoleChunk
  <2>3. m.chunk[a].pinuse
    BY <1>3, <2>1, <2>2, HoleFreePinuse
  <2>4. CASE a # m.dv
    <3>1. n = ConsolidateForward(Erase(unlink_chunk(m, a, z[a]), p), a, z[p] + z[a], p + z[p])
      BY <1>7, <2>1, <2>2, <2>4 DEF dispose_chunk, pinuse, ok_address
    <3> QED  BY <2>1, <2>3, <2>4, <3>1, DisposeBinned
  <2>5. CASE a = m.dv
    <3>1. n = IF cinuse(m, p + z[p]) /\ pinuse(m, p + z[p])
              THEN set_free_with_pinuse(set_dv(Erase(m, p), a, z[p] + z[a]), a, z[p] + z[a],
                                        p + z[p])
              ELSE ConsolidateForward(Erase(m, p), a, z[p] + z[a], p + z[p])
      BY <1>7, <2>1, <2>2, <2>5 DEF dispose_chunk, pinuse, ok_address
    <3> QED  BY <1>5, <2>1, <2>3, <2>5, <3>1, DisposeDv DEF IsDv
  <2> QED  BY <2>4, <2>5
<1> QED  BY <1>6, <1>7

-------------------------------------------------------------------------------
(* A heap with work left to do on the chunks of L, and what a call makes   *)
(* of it: a heap where p is in use with a size in S, and the chunks of W   *)
(* are as before.                                                          *)
Work(m, z, U, H, L, E) ==
    Hole(m, z, U, H, L, E) /\ TopOK(m, z, U, L, E) /\ DvOK(m, z, U, L)

SettlesAt(m, z, n, V, W, p, S) ==
    /\ SameSystem(m, n)
    /\ \E y : /\ Heap(n, y, V) /\ n.top + n.topsize = m.top + m.topsize
              /\ \A a \in W : y[a] = z[a]
              /\ p \in V /\ y[p] \in S

(* A heap between two calls has no work left. *)
LEMMA HeapWork ==
  ASSUME NEW m, NEW z, NEW U
  PROVE  /\ \A E : Work(m, z, U, {}, {}, E) => Heap(m, z, U) /\ m.top + m.topsize = E
         /\ Heap(m, z, U) => Work(m, z, U, {}, {}, m.top + m.topsize)
<1>1. ASSUME NEW E, Work(m, z, U, {}, {}, E) PROVE Heap(m, z, U) /\ m.top + m.topsize = E
  BY <1>1, HeapFromHole DEF Work
<1>2. Heap(m, z, U) => Work(m, z, U, {}, {}, m.top + m.topsize)
  BY DEF Heap, Work
<1> QED  BY <1>1, <1>2

NoRecord(m, p) == \A i \in DOMAIN m.seg \ {1} : m.seg[i].record # p

(* A used chunk that is no record may be freed or changed.                 *)
LEMMA OpenUsed ==
  ASSUME NEW m, NEW z, NEW U, NEW E, Work(m, z, U, {}, {}, E), NEW p \in U, NoRecord(m, p)
  PROVE  /\ Work(m, z, U \ {p}, {p}, {p}, E)
         /\ m.chunk[p].size = z[p] /\ m.chunk[p].cinuse /\ m.chunk[p + z[p]].pinuse
         /\ p \in DOMAIN z /\ p + z[p] \in DOMAIN z
<1>1. Hole(m, z, U, {}, {}, E) /\ TopOK(m, z, U, {}, E) /\ DvOK(m, z, U, {})
      /\ U \subseteq DOMAIN z
  BY DEF Work, Hole
<1>2. Hole(m, z, U \ {p}, {} \cup {p}, {} \cup {p}, E)
  BY <1>1, HoleUsed DEF NoRecord
<1>3. {} \cup {p} = {p}
  OBVIOUS
<1>4. TopOK(m, z, U \ {p}, {p}, E) /\ DvOK(m, z, U \ {p}, {p})
  BY <1>1 DEF TopOK, DvOK
<1>5. m.chunk[p].size = z[p] /\ m.chunk[p].cinuse /\ m.chunk[p + z[p]].pinuse /\ p + z[p] # E
  BY <1>1, HoleNextUsed
<1>6. p + z[p] \in DOMAIN z
  BY <1>1, <1>5, HoleNext DEF NoRecord
<1> QED  BY <1>1, <1>2, <1>3, <1>4, <1>5, <1>6 DEF Work

(* free without a trim.                                                    *)
LEMMA DisposeUsed ==
  ASSUME NEW m, NEW z, NEW U, Heap(m, z, U), NEW p \in U, NoRecord(m, p),
         NEW n, n = dispose_chunk(m, p, chunksize(m, p))
  PROVE  Settles(m, z, n, U \ {p}, U \ {p})
<1>1. PICK E : E = m.top + m.topsize
  OBVIOUS
<1>2. Work(m, z, U, {}, {}, E)
  BY <1>1, HeapWork
<1>3. /\ Work(m, z, U \ {p}, {p}, {p}, E)
      /\ m.chunk[p].size = z[p] /\ m.chunk[p + z[p]].pinuse
  BY <1>2, OpenUsed
<1>4. n = dispose_chunk(m, p, z[p])
  BY <1>3 DEF chunksize
<1> QED  BY <1>3, <1>4, DisposeFacts DEF Work

(* A heap that settles has the chunk p with the size it was given. *)
LEMMA SettlesAtFrom ==
  ASSUME NEW m, NEW z, NEW k, NEW y, NEW n, NEW V, NEW W, NEW p \in V, NEW S,
         Settles(k, y, n, V, V), y[p] \in S, W \subseteq V,
         SameSystem(m, k), k.top + k.topsize = m.top + m.topsize,
         \A a \in W : y[a] = z[a]
  PROVE  SettlesAt(m, z, n, V, W, p, S)
<1>1. PICK x : /\ Heap(n, x, V) /\ n.top + n.topsize = k.top + k.topsize
               /\ \A a \in V : x[a] = y[a]
  BY DEF Settles
<1>2. SameSystem(m, n)
  BY SystemTrans DEF Settles
<1>3. (\A a \in W : x[a] = z[a]) /\ x[p] \in S
  BY <1>1
<1> QED  BY <1>1, <1>2, <1>3 DEF SettlesAt

(* The chunk at p, whose header is still to come, is cut in two, and the   *)
(* chunk in front becomes one in use.                                      *)
LEMMA CutUsed ==
  ASSUME NEW m, NEW z, NEW U, NEW E, NEW p, Hole(m, z, U, {p}, {p}, E),
         NEW nb \in Nat, Even(nb), 4 <= nb, nb < z[p], p + z[p] # E => z[p] - nb >= 4,
         NEW n, n = set_inuse(m, p, nb)
  PROVE  /\ OnlyChunks(m, n) /\ n.chunk[p + nb].pinuse
         /\ Hole(n, Cut(z, p, nb), U \cup {p}, {p + nb}, {p + nb}, E)
<1> DEFINE r == p + nb
           y == Cut(z, p, nb)
<1>1. m \in State /\ p \in DOMAIN z /\ Layout(z, m.seg, E)
  BY DEF Hole
<1>2. p \in Addr /\ p \in Nat /\ z[p] \in Nat /\ p + z[p] \in Addr /\ p + z[p] \in Nat
      /\ z[p] \in size_t
  BY <1>1, HoleChunk
<1>3. r \in Addr /\ nb \in size_t \ {0} /\ 0 < nb
  BY <1>2, Small
<1>4. Hole(m, y, U, {p, r}, {p, r}, E)
  <2>1. PICK H : H = {p}
    OBVIOUS
  <2>2. Hole(m, z, U, H, H, E) /\ p \in H
    BY <2>1
  <2>3. Hole(m, Cut(z, p, nb), U, H \cup {p + nb}, H \cup {p + nb}, E)
    BY <2>2, HoleCut
  <2>4. H \cup {p + nb} = {p, r}
    BY <2>1
  <2> QED  BY <2>3, <2>4
<1>5. /\ OnlyChunks(m, n) /\ MarksUsed(m.chunk, n.chunk, p, nb)
      /\ n.chunk[p].pinuse = m.chunk[p].pinuse
      /\ n.chunk[p].prev_foot = m.chunk[p].prev_foot
  BY <1>1, <1>2, <1>3, SetInuseFacts
<1>6. DOMAIN y = DOMAIN z \cup {r} /\ y[p] = nb /\ p # r
  <2>1. PICK seg : seg = m.seg
    OBVIOUS
  <2>2. Layout(z, seg, E) /\ nb < z[p] /\ 0 < nb /\ p \in DOMAIN z
    BY <1>1, <1>2, <1>3, <2>1
  <2> QED  BY <2>2, CutFacts
<1> HIDE DEF y, r
<1>7. Hole(n, y, U \cup {p}, {r}, {r}, E)
  <2>1. PICK H : H = {p, r}
    OBVIOUS
  <2>2. Hole(m, y, U, H, H, E) /\ p \in H /\ p + y[p] \in DOMAIN y
    BY <1>4, <1>6, <2>1 DEF r
  <2>3. MarksUsed(m.chunk, n.chunk, p, y[p])
    BY <1>5, <1>6
  <2>4. Hole(n, y, U \cup {p}, H \ {p}, H \ {p}, E)
    BY <1>5, <2>2, <2>3, HoleToUsed
  <2>5. H \ {p} = {r}
    BY <1>6, <2>1
  <2> QED  BY <2>4, <2>5
<1>8. n.chunk[r].pinuse
  BY <1>5 DEF MarksUsed, r
<1> QED  BY <1>5, <1>7, <1>8 DEF y, r

(* A chunk in use gives back what it has too much.                         *)
LEMMA SplitOffFacts ==
  ASSUME NEW m, NEW z, NEW U, NEW E, NEW p, Work(m, z, U, {p}, {p}, E),
         NEW nb \in Nat, Even(nb), 4 <= nb, nb + 4 <= z[p],
         NEW n, n = SplitOff(m, p, z[p], nb)
  PROVE  SettlesAt(m, z, n, U \cup {p}, U, p, {nb})
<1> DEFINE r == p + nb
           s == z[p] - nb
           y == Cut(z, p, nb)
           k == set_inuse(m, p, nb)
           j == set_inuse(k, r, s)
<1>1. /\ m \in State /\ p \in DOMAIN z /\ p \notin U /\ U \subseteq DOMAIN z
      /\ Layout(z, m.seg, E) /\ Records(m.seg, z, U) /\ Hole(m, z, U, {p}, {p}, E)
  BY DEF Work, Hole
<1>2. m.top \in DOMAIN z \ (U \cup {p}) /\ m.top + z[m.top] = E /\ m.topsize = z[m.top]
  BY DEF Work, TopOK
<1>3. p \in Nat /\ z[p] \in Nat /\ z[p] \in size_t /\ p + z[p] \in Addr /\ p + z[p] \in Nat
  BY <1>1, HoleChunk
<1>4. p + z[p] # E /\ p + z[p] \in DOMAIN z
  <2>1. p + z[p] # E
    BY <1>1, <1>2, NotTop
  <2> QED  BY <1>1, <2>1, HoleNextFree
<1>5. /\ s \in Nat /\ s >= 4 /\ r + s = p + z[p] /\ r # p /\ nb < z[p] /\ z[p] - nb >= 4 /\ 0 < nb
      /\ s \in size_t \ {0} /\ r + s \in Addr
  BY <1>3, Small, SMTT(40)
<1>6. OnlyChunks(m, k) /\ Hole(k, y, U \cup {p}, {r}, {r}, E)
  BY <1>1, <1>5, CutUsed
<1>7. DOMAIN y = DOMAIN z \cup {r} /\ r \notin DOMAIN z /\ y[p] = nb /\ y[r] = s
      /\ \A a \in DOMAIN z \ {p} : y[a] = z[a]
  BY <1>1, <1>5, CutFacts
<1>8. n = dispose_chunk(j, r, s)
  BY DEF SplitOff
<1> HIDE DEF y, r, s, k, j
<1>9. r \in DOMAIN y /\ r \in Addr /\ k \in State
  <2>1. r \in DOMAIN y
    BY <1>7
  <2> QED  BY <1>6, <2>1, HoleChunk DEF OnlyChunks
<1>10. /\ OnlyChunks(k, j) /\ MarksUsed(k.chunk, j.chunk, r, y[r])
       /\ j.chunk[r].pinuse = k.chunk[r].pinuse
       /\ j.chunk[r].prev_foot = k.chunk[r].prev_foot
  BY <1>5, <1>7, <1>9, SetInuseFacts DEF j
<1>11. Hole(j, y, U \cup {p, r}, {}, {}, E)
  <2>1. r \in {r} /\ r + y[r] \in DOMAIN y
    BY <1>4, <1>5, <1>7
  <2>2. Hole(j, y, (U \cup {p}) \cup {r}, {r} \ {r}, {r} \ {r}, E)
    BY <1>6, <1>10, <2>1, HoleToUsed
  <2>3. (U \cup {p}) \cup {r} = U \cup {p, r} /\ {r} \ {r} = {}
    OBVIOUS
  <2> QED  BY <2>2, <2>3
<1>12. OnlyChunks(m, j)
  BY <1>6, <1>10, HeaderTrans
<1>13. j.top = m.top /\ j.topsize = m.topsize /\ j.dv = m.dv /\ j.dvsize = m.dvsize
       /\ SameSystem(m, j) /\ j.seg = m.seg
  BY <1>12 DEF OnlyChunks, SameTop, SameDv, SameSystem
<1>14. Hole(j, y, U \cup {p}, {r}, {r}, E)
  <2>1. r \in U \cup {p, r} /\ \A i \in DOMAIN j.seg \ {1} : j.seg[i].record # r
    BY <1>1, <1>7, <1>13 DEF Records
  <2>2. Hole(j, y, (U \cup {p, r}) \ {r}, {} \cup {r}, {} \cup {r}, E)
    BY <1>11, <2>1, HoleUsed
  <2>3. (U \cup {p, r}) \ {r} = U \cup {p} /\ {} \cup {r} = {r}
    BY <1>1, <1>7
  <2> QED  BY <2>2, <2>3
<1>15. TopOK(j, y, U \cup {p}, {r}, E) /\ DvOK(j, y, U \cup {p}, {r})
  <2>1. TopOK(j, y, U \cup {p}, {r}, E)
    BY <1>2, <1>7, <1>13 DEF TopOK
  <2>2. DvOK(j, y, U \cup {p}, {r})
    BY <1>7, <1>13 DEF DvOK, Work
  <2> QED  BY <2>1, <2>2
<1>16. j.chunk[r + y[r]].pinuse
  BY <1>10 DEF MarksUsed
<1>17. Settles(j, y, n, U \cup {p}, U \cup {p})
  BY <1>7, <1>8, <1>14, <1>15, <1>16, DisposeFacts
<1>18. y[p] \in {nb} /\ p \in U \cup {p} /\ \A a \in U : y[a] = z[a]
  BY <1>1, <1>7
<1> QED  BY <1>13, <1>17, <1>18, SettlesAtFrom

-------------------------------------------------------------------------------
(* A heap with a chunk more in use.                                        *)
LEMMA SettlesAtHeap ==
  ASSUME NEW m, NEW z, NEW n, NEW y, NEW V, NEW W, NEW p \in V, NEW S, NEW E,
         SameSystem(m, n), Work(n, y, V, {}, {}, E), m.top + m.topsize = E,
         \A a \in W : y[a] = z[a], y[p] \in S
  PROVE  SettlesAt(m, z, n, V, W, p, S)
<1>1. Heap(n, y, V) /\ n.top + n.topsize = E
  BY HeapWork
<1> QED  BY <1>1 DEF SettlesAt

(* And the chunk before it is marked as one in use.                        *)
Takes(m, z, n, V, W, p, S) == SettlesAt(m, z, n, V, W, p, S) /\ n.chunk[p].pinuse

(* A free chunk that is in no bin any more is taken whole.                 *)
LEMMA TakeWholeFacts ==
  ASSUME NEW m, NEW z, NEW U, NEW E, NEW v, Work(m, z, U, {v}, {v}, E),
         m.chunk[v].pinuse, v + z[v] \in U, NEW S, z[v] \in S,
         NEW n, n = set_inuse_and_pinuse(m, v, z[v])
  PROVE  Takes(m, z, n, U \cup {v}, U, v, S)
<1>1. /\ Hole(m, z, U, {v}, {v}, E) /\ m \in State /\ v \in DOMAIN z /\ v \notin U
      /\ U \subseteq DOMAIN z
  BY DEF Work, Hole
<1>2. /\ m.top \in DOMAIN z \ (U \cup {v}) /\ m.top + z[m.top] = E /\ m.topsize = z[m.top]
      /\ DvOK(m, z, U, {v})
  BY DEF Work, TopOK
<1>3. v \in Addr /\ z[v] \in size_t \ {0} /\ v + z[v] \in Addr
  BY <1>1, HoleChunk
<1>4. OnlyChunks(m, n) /\ MarksUsed(m.chunk, n.chunk, v, z[v]) /\ n.chunk[v].pinuse
  BY <1>1, <1>3, SetInuseAndPinuseFacts
<1>5. Hole(n, z, U \cup {v}, {}, {}, E)
  <2>1. v \in {v} /\ v + z[v] \in DOMAIN z /\ MaySet(m.chunk, z, {v}, v)
    BY <1>1 DEF MaySet
  <2>2. Hole(n, z, U \cup {v}, {v} \ {v}, {v} \ {v}, E)
    BY <1>1, <1>4, <2>1, HoleToUsed
  <2>3. {v} \ {v} = {}
    OBVIOUS
  <2> QED  BY <2>2, <2>3
<1>6. SameSystem(m, n) /\ SameTop(m, n) /\ SameDv(m, n)
  BY <1>4 DEF OnlyChunks
<1>7. TopOK(n, z, U \cup {v}, {}, E) /\ DvOK(n, z, U \cup {v}, {})
  BY <1>2, <1>6 DEF TopOK, DvOK, SameTop, SameDv
<1>8. Work(n, z, U \cup {v}, {}, {}, E)
  BY <1>5, <1>7 DEF Work
<1> QED  BY <1>2, <1>4, <1>6, <1>8, SettlesAtHeap DEF Takes

(* Where the rest of a divided chunk can go.                               *)
HasPlace(m, where) ==
    \/ where = "bin"
    \/ where = "dv" /\ is_small(m.dvsize)
    \/ where = "no dv yet" /\ m.dv = NULL

(* Or it is divided.                                                       *)
LEMMA DivideFacts ==
  ASSUME NEW m, NEW z, NEW U, NEW E, NEW v, Work(m, z, U, {v}, {v}, E),
         m.chunk[v].pinuse, ~m.chunk[v + z[v]].pinuse, v + z[v] \in U,
         NEW nb \in Nat, Even(nb), 4 <= nb, nb + 4 <= z[v],
         NEW where, HasPlace(m, where),
         NEW S, nb \in S,
         NEW n, n = Divide(m, v, nb, z[v] - nb, where)
  PROVE  Takes(m, z, n, U \cup {v}, U, v, S)
<1> DEFINE r == v + nb
           y == Cut(z, v, nb)
           k == set_size_and_pinuse_of_free_chunk(
                    set_size_and_pinuse_of_inuse_chunk(m, v, nb), v + nb, z[v] - nb)
<1>1. /\ Hole(m, z, U, {v}, {v}, E) /\ m \in State /\ v \in DOMAIN z /\ v \notin U
      /\ U \subseteq DOMAIN z /\ Layout(z, m.seg, E)
  BY DEF Work, Hole
<1>2. /\ m.top \in DOMAIN z \ (U \cup {v}) /\ m.top + z[m.top] = E /\ m.topsize = z[m.top]
      /\ DvOK(m, z, U, {v})
  BY DEF Work, TopOK
<1>3. v \in Nat /\ z[v] \in Nat /\ NULL \notin DOMAIN z
  BY <1>1, HoleChunk
<1>4. OnlyChunks(m, k) /\ Hole(k, y, U \cup {v}, {}, {r}, E) /\ k.chunk[v].pinuse
  BY <1>1, HoleDivide
<1>5. /\ DOMAIN y = DOMAIN z \cup {r} /\ y[v] = nb /\ y[r] = z[v] - nb /\ r \notin DOMAIN z
      /\ \A a \in DOMAIN z \ {v} : y[a] = z[a]
  <2>1. PICK seg : seg = m.seg
    OBVIOUS
  <2>2. Layout(z, seg, E) /\ nb < z[v] /\ 0 < nb /\ v \in DOMAIN z
    BY <1>1, <1>3, <2>1
  <2>3. DOMAIN y = DOMAIN z \cup {r} /\ y[v] = nb /\ y[r] = z[v] - nb /\ r \notin DOMAIN z
    BY <2>2, CutFacts
  <2>4. \A a \in DOMAIN z \ {v} : y[a] = z[a]
    BY <2>3 DEF Cut
  <2> QED  BY <2>3, <2>4
<1>6. n = PutRest(k, where, r, y[r])
  BY <1>5 DEF Divide
<1> HIDE DEF k, y, r
<1>7. SameSystem(m, k) /\ SameTop(m, k) /\ SameDv(m, k)
  BY <1>4 DEF OnlyChunks
<1>8. k.top = m.top /\ k.topsize = m.topsize /\ k.dv = m.dv /\ k.dvsize = m.dvsize
  BY <1>7 DEF SameTop, SameDv
<1>9. TopOK(k, y, U \cup {v}, {r}, E) /\ DvOK(k, y, U \cup {v}, {r})
  <2>1. TopOK(k, y, U \cup {v}, {r}, E)
    BY <1>1, <1>2, <1>5, <1>8 DEF TopOK
  <2>2. DvOK(k, y, U \cup {v}, {r})
    BY <1>1, <1>2, <1>5, <1>8 DEF DvOK
  <2> QED  BY <2>1, <2>2
<1>10. r # k.top /\ r # k.dv
  <2>1. r # k.top
    BY <1>2, <1>5, <1>8
  <2>2. r # k.dv
    <3>1. r \in DOMAIN y /\ NULL \notin DOMAIN y
      BY <1>4, <1>5, HoleChunk
    <3> QED  BY <1>2, <1>5, <1>8, <3>1 DEF DvOK
  <2> QED  BY <2>1, <2>2
<1>11. r + y[r] # E
  <2>1. k.top \in DOMAIN y /\ k.top + y[k.top] = E /\ r \in DOMAIN y
    BY <1>5, <1>9 DEF TopOK
  <2> QED  BY <1>4, <1>10, <2>1, NotTop
<1>12. /\ SameSystem(k, n) /\ SameTop(k, n) /\ n.chunk = k.chunk
       /\ Hole(n, y, U \cup {v}, {}, {r} \ {r}, E) /\ DvOK(n, y, U \cup {v}, {r} \ {r})
  <2>1. CASE where = "bin"
    <3>1. n = insert_chunk(k, r, y[r])
      BY <1>6, <2>1 DEF PutRest
    <3>2. r \in {r} \ {} /\ r \notin {k.top, k.dv}
      BY <1>10
    <3>3. OnlyBins(k, n) /\ Hole(n, y, U \cup {v}, {}, {r} \ {r}, E)
      BY <1>4, <1>11, <3>1, <3>2, HolePut
    <3>4. SameSystem(k, n) /\ SameTop(k, n) /\ SameDv(k, n) /\ n.chunk = k.chunk
      BY <3>3 DEF OnlyBins
    <3>5. DvOK(n, y, U \cup {v}, {r} \ {r})
      BY <1>9, <3>4 DEF DvOK, SameDv, SameTop
    <3> QED  BY <3>3, <3>4, <3>5
  <2>2. CASE where = "dv" /\ is_small(m.dvsize)
    <3>1. n = replace_dv(k, r, y[r]) /\ is_small(k.dvsize)
      BY <1>6, <1>8, <2>2 DEF PutRest
    <3>2. r \in {r} \ {}
      OBVIOUS
    <3> QED  BY <1>4, <1>9, <3>1, <3>2, HoleReplaceDv
  <2>3. CASE where = "no dv yet" /\ m.dv = NULL
    <3>1. n = set_dv(k, r, y[r]) /\ k.dv = NULL
      BY <1>6, <1>8, <2>3 DEF PutRest
    <3>2. r \in {r} \ {}
      OBVIOUS
    <3>3. k.dv \notin DOMAIN y /\ k.dv \notin {r}
      BY <1>4, <1>5, <1>10, <3>1, HoleChunk
    <3> QED  BY <1>4, <1>10, <3>1, <3>2, <3>3, HoleSetDv
  <2> QED  BY <2>1, <2>2, <2>3 DEF HasPlace
<1>13. {r} \ {r} = {}
  OBVIOUS
<1>14. n.top = k.top /\ n.topsize = k.topsize /\ SameSystem(m, n)
  BY <1>7, <1>12, SystemTrans DEF SameTop
<1>15. TopOK(n, y, U \cup {v}, {}, E)
  BY <1>9, <1>14 DEF TopOK
<1>16. Work(n, y, U \cup {v}, {}, {}, E)
  BY <1>12, <1>13, <1>15 DEF Work
<1>17. y[v] \in S /\ \A a \in U : y[a] = z[a]
  BY <1>1, <1>5
<1> QED  BY <1>2, <1>4, <1>12, <1>14, <1>16, <1>17, SettlesAtHeap DEF Takes

(* A chunk is taken whole or divided, as its size asks for. *)
LEMMA TakeChunkFacts ==
  ASSUME NEW m, NEW z, NEW U, NEW E, NEW v, Work(m, z, U, {v}, {v}, E),
         m.chunk[v].pinuse, ~m.chunk[v + z[v]].pinuse, v + z[v] \in U,
         NEW nb \in Nat, Even(nb), 4 <= nb, nb <= z[v],
         NEW where, HasPlace(m, where),
         NEW r, r = TakeChunk(m, v, z[v], nb, where)
  PROVE  r.mem = chunk2mem(v) /\ Takes(m, z, r.m, U \cup {v}, U, v, nb .. nb + 3)
<1>1. Hole(m, z, U, {v}, {v}, E) /\ v \in DOMAIN z
  BY DEF Work, Hole
<1>2. z[v] \in Nat
  BY <1>1, HoleChunk
<1>3. r.mem = chunk2mem(v)
  BY DEF TakeChunk, Result
<1>4. nb \in nb .. nb + 3
  OBVIOUS
<1>5. CASE z[v] - nb < 4
  <2>1. r.m = set_inuse_and_pinuse(m, v, z[v])
    BY <1>5 DEF TakeChunk, Result, MIN_CHUNK_SIZE
  <2>2. z[v] \in nb .. nb + 3
    BY <1>2, <1>5
  <2> QED  BY <1>3, <2>1, <2>2, TakeWholeFacts
<1>6. CASE ~(z[v] - nb < 4)
  <2>1. r.m = Divide(m, v, nb, z[v] - nb, where)
    BY <1>6 DEF TakeChunk, Result, MIN_CHUNK_SIZE
  <2>2. nb + 4 <= z[v]
    BY <1>2, <1>6
  <2> QED  BY <1>3, <1>4, <2>1, <2>2, DivideFacts
<1> QED  BY <1>3, <1>5, <1>6

(* The neighbours of a free chunk are in use.                              *)
LEMMA FreeAmongUsed ==
  ASSUME NEW m, NEW z, NEW U, NEW E, Work(m, z, U, {}, {}, E), NEW v \in DOMAIN z \ U, v # m.top
  PROVE  /\ m.chunk[v].pinuse /\ ~m.chunk[v + z[v]].pinuse /\ v + z[v] \in U
         /\ m.chunk[v].size = z[v] /\ v + z[v] # E /\ z[v] \in Nat /\ Even(z[v]) /\ z[v] >= 4
<1>1. Hole(m, z, U, {}, {}, E) /\ v \in DOMAIN z \ (U \cup {})
  BY DEF Work
<1>2. v + z[v] # E
  <2>1. m.top \in DOMAIN z /\ m.top + z[m.top] = E /\ v \in DOMAIN z
    BY DEF Work, TopOK
  <2> QED  BY <1>1, <2>1, NotTop
<1>3. \A a \in {} : v <= a
  OBVIOUS
<1>4. m.chunk[v].pinuse
  BY <1>1, <1>3, HoleFreePinuse
<1>5. ~m.chunk[v + z[v]].pinuse /\ m.chunk[v].size = z[v] /\ v + z[v] \in U \cup {}
  BY <1>1, <1>2, HoleFree
<1>6. z[v] \in Nat /\ Even(z[v]) /\ z[v] >= 4
  BY <1>1, <1>2, HoleChunk
<1> QED  BY <1>2, <1>4, <1>5, <1>6

(* A binned chunk that fits is taken.                                      *)
LEMMA TakeBinned ==
  ASSUME NEW m, NEW z, NEW U, NEW E, Work(m, z, U, {}, {}, E),
         NEW v \in DOMAIN z \ U, v \notin {m.top, m.dv},
         NEW nb \in Nat, Even(nb), 4 <= nb, nb <= z[v],
         NEW where, HasPlace(m, where), where # "no dv yet",
         NEW r, r = TakeChunk(unlink_chunk(m, v, z[v]), v, z[v], nb, where)
  PROVE  r.mem = chunk2mem(v) /\ Takes(m, z, r.m, U \cup {v}, U, v, nb .. nb + 3)
<1> DEFINE k == unlink_chunk(m, v, z[v])
<1>1. Hole(m, z, U, {}, {}, E) /\ TopOK(m, z, U, {}, E) /\ DvOK(m, z, U, {})
  BY DEF Work
<1>2. /\ m.chunk[v].pinuse /\ ~m.chunk[v + z[v]].pinuse /\ v + z[v] \in U /\ v + z[v] # E
  <2>1. v # m.top /\ Work(m, z, U, {}, {}, E) /\ v \in DOMAIN z \ U
    OBVIOUS
  <2>2. m.chunk[v].pinuse
    BY <2>1, FreeAmongUsed
  <2>3. ~m.chunk[v + z[v]].pinuse
    BY <2>1, FreeAmongUsed
  <2>4. v + z[v] \in U
    BY <2>1, FreeAmongUsed
  <2>5. v + z[v] # E
    <3>1. m.top \in DOMAIN z /\ m.top + z[m.top] = E
      BY <1>1 DEF TopOK
    <3> QED  BY <1>1, <2>1, <3>1, NotTop
  <2> QED  BY <2>2, <2>3, <2>4, <2>5
<1>3. OnlyBins(m, k) /\ Hole(k, z, U, {v}, {v}, E)
  <2>1. v \in DOMAIN z \ (U \cup {})
    OBVIOUS
  <2>2. OnlyBins(m, k) /\ Hole(k, z, U, {} \cup {v}, {} \cup {v}, E)
    BY <1>1, <1>2, <2>1, HoleBinned
  <2>3. {} \cup {v} = {v}
    OBVIOUS
  <2> QED  BY <2>2, <2>3
<1>4. /\ SameSystem(m, k) /\ k.chunk = m.chunk /\ k.top = m.top /\ k.topsize = m.topsize
      /\ k.dv = m.dv /\ k.dvsize = m.dvsize
  BY <1>3 DEF OnlyBins, SameTop, SameDv
<1> HIDE DEF k
<1>5. Work(k, z, U, {v}, {v}, E)
  BY <1>1, <1>3, <1>4 DEF Work, TopOK, DvOK
<1>6. r.mem = chunk2mem(v) /\ Takes(k, z, r.m, U \cup {v}, U, v, nb .. nb + 3)
  <2>1. r = TakeChunk(k, v, z[v], nb, where)
    BY DEF k
  <2>2. k.chunk[v].pinuse /\ ~k.chunk[v + z[v]].pinuse
    BY <1>2, <1>4
  <2>3. HasPlace(k, where)
    BY <1>4 DEF HasPlace
  <2> QED  BY <1>2, <1>5, <2>1, <2>2, <2>3, TakeChunkFacts
<1>7. SameSystem(m, r.m)
  BY <1>4, <1>6, SystemTrans DEF Takes, SettlesAt
<1> QED  BY <1>4, <1>6, <1>7 DEF Takes, SettlesAt

-------------------------------------------------------------------------------
(* What malloc hands out for a chunk size nb, if the system is not asked.  *)
Got(m, z, U, r, nb) ==
    \E v : /\ v \in Nat /\ v \notin U /\ r.mem = chunk2mem(v)
           /\ Takes(m, z, r.m, U \cup {v}, U, v, nb .. nb + 3)

(* The least of some numbers.                                              *)
LEMMA MinFacts ==
  ASSUME NEW T \in SUBSET Nat, T # {}
  PROVE  Min(T) \in T /\ \A n \in T : Min(T) <= n
<1>1. PICK k \in T : \A n \in T : k <= n
  BY LeastNat
<1>2. Min(T) = CHOOSE x \in T : \A y \in T : x <= y
  BY DEF Min
<1> QED  BY <1>1, <1>2

(* What is in a bin is free and of its size.                               *)
LEMMA BinHead ==
  ASSUME NEW m, NEW z, NEW U, NEW E, Work(m, z, U, {}, {}, E), NEW s \in Nat,
         NEW bin \in Seq(Addr), bin # <<>>, Lists(bin, z, U \cup {} \cup {m.top, m.dv}, s)
  PROVE  Head(bin) \in DOMAIN z \ U /\ Head(bin) \notin {m.top, m.dv} /\ z[Head(bin)] = s
         /\ Head(bin) \in Nat
<1>1. Head(bin) \in Range(bin)
  BY BinTyped
<1>2. Head(bin) \in DOMAIN z \ U /\ Head(bin) \notin {m.top, m.dv} /\ z[Head(bin)] = s
  BY <1>1 DEF Lists
<1>3. Hole(m, z, U, {}, {}, E)
  BY DEF Work
<1> QED  BY <1>2, <1>3, HoleChunk

(* The head of a small bin is a free chunk of that size, *)
LEMMA SmallBinHead ==
  ASSUME NEW m, NEW z, NEW U, NEW E, Work(m, z, U, {}, {}, E), NEW s \in m.smallmap,
         NEW v, v = Head(m.smallbins[s])
  PROVE  /\ v \in DOMAIN z \ U /\ v # m.top /\ v # m.dv /\ z[v] = s /\ s \in SmallSizes /\ v \in Nat
         /\ s \in Nat
         /\ unlink_first_small_chunk(m, s) = unlink_chunk(m, v, z[v])
<1>1. m \in State /\ Bins(m, z, U \cup {} \cup {m.top, m.dv})
  BY DEF Work, Hole
<1>2. s \in SmallSizes /\ m.smallbins[s] # <<>> /\ m.smallbins \in [SmallSizes -> Seq(Addr)]
  BY <1>1 DEF Bins, State
<1>3. s \in Nat /\ s >= 4 /\ is_small(s)
  BY <1>2, LargeFacts DEF SmallSizes, MIN_CHUNK_SIZE
<1>4. Lists(m.smallbins[s], z, U \cup {} \cup {m.top, m.dv}, s) /\ m.smallbins[s] \in Seq(Addr)
  BY <1>1, <1>2 DEF Bins
<1>5. v \in DOMAIN z \ U /\ v \notin {m.top, m.dv} /\ z[v] = s /\ v \in Nat
  BY <1>2, <1>3, <1>4, BinHead
<1>6. unlink_first_small_chunk(m, s) = unlink_chunk(m, v, s)
  BY <1>3 DEF unlink_first_small_chunk, unlink_chunk
<1> QED  BY <1>2, <1>3, <1>5, <1>6

(* and so is the oldest chunk of a large one. *)
LEMMA TreeBinHead ==
  ASSUME NEW m, NEW z, NEW U, NEW E, Work(m, z, U, {}, {}, E), NEW s \in TreeSizes(m),
         NEW v, v = Head(m.treebins[s])
  PROVE  /\ v \in DOMAIN z \ U /\ v # m.top /\ v # m.dv /\ z[v] = s /\ s \in LargeSizes /\ v \in Nat
         /\ s \in Nat
         /\ unlink_large_chunk(m, v) = unlink_chunk(m, v, z[v])
<1>1. m \in State /\ Bins(m, z, U \cup {} \cup {m.top, m.dv})
  BY DEF Work, Hole
<1>2. s \in LargeSizes /\ m.treebins[s] # <<>> /\ m.treebins \in [LargeSizes -> Seq(Addr)]
  BY <1>1 DEF TreeSizes, State
<1>3. s \in Nat /\ ~is_small(s)
  BY <1>2, LargeFacts, Small DEF LargeSizes
<1>4. Lists(m.treebins[s], z, U \cup {} \cup {m.top, m.dv}, s) /\ m.treebins[s] \in Seq(Addr)
  BY <1>1, <1>2 DEF Bins
<1>5. v \in DOMAIN z \ U /\ v \notin {m.top, m.dv} /\ z[v] = s /\ v \in Nat
  BY <1>2, <1>3, <1>4, BinHead
<1>6. unlink_large_chunk(m, v) = unlink_chunk(m, v, s)
  BY <1>3 DEF unlink_chunk
<1> QED  BY <1>2, <1>3, <1>5, <1>6

(* A binned chunk that fits is what malloc hands out. *)
LEMMA TakeGot ==
  ASSUME NEW m, NEW z, NEW U, NEW E, Work(m, z, U, {}, {}, E),
         NEW v \in DOMAIN z \ U, v # m.top, v # m.dv, v \in Nat,
         NEW nb \in Nat, Even(nb), 4 <= nb, nb <= z[v],
         NEW where, HasPlace(m, where), where # "no dv yet",
         NEW k, k = unlink_chunk(m, v, z[v]),
         NEW r, r = TakeChunk(k, v, z[v], nb, where)
  PROVE  Got(m, z, U, r, nb)
<1>1. r = TakeChunk(unlink_chunk(m, v, z[v]), v, z[v], nb, where) /\ v \notin {m.top, m.dv}
  OBVIOUS
<1>2. r.mem = chunk2mem(v) /\ Takes(m, z, r.m, U \cup {v}, U, v, nb .. nb + 3)
  BY <1>1, TakeBinned
<1> QED  BY <1>2 DEF Got

(* From the small bin of the size, or the next. *)
LEMMA MallocExactFacts ==
  ASSUME NEW m, NEW z, NEW U, NEW E, Work(m, z, U, {}, {}, E),
         NEW nb \in Nat, {nb, nb + 1} \cap m.smallmap # {},
         NEW r, r = malloc_exact(m, nb)
  PROVE  Got(m, z, U, r, nb)
<1> DEFINE s == IF nb \in m.smallmap THEN nb ELSE nb + 1
           v == Head(m.smallbins[s])
           k == unlink_chunk(m, v, z[v])
<1>1. s \in m.smallmap /\ s \in {nb, nb + 1}
  OBVIOUS
<1>2. /\ v \in DOMAIN z \ U /\ v # m.top /\ v # m.dv /\ z[v] = s /\ v \in Nat
      /\ unlink_first_small_chunk(m, s) = k
  BY <1>1, SmallBinHead
<1>3. r.mem = chunk2mem(v) /\ r.m = set_inuse_and_pinuse(k, v, z[v])
  BY <1>2 DEF malloc_exact, Result
<1>4. z[v] \in nb .. nb + 3
  BY <1>1, <1>2
<1> HIDE DEF s, v, k
<1>5. Hole(m, z, U, {}, {}, E) /\ TopOK(m, z, U, {}, E) /\ DvOK(m, z, U, {})
  BY DEF Work
<1>6. m.chunk[v].pinuse /\ v + z[v] \in U
  BY <1>2, FreeAmongUsed
<1>7. v + z[v] # E
  <2>1. m.top \in DOMAIN z /\ m.top + z[m.top] = E /\ v \in DOMAIN z
    BY <1>2, <1>5 DEF TopOK
  <2> QED  BY <1>2, <1>5, <2>1, NotTop
<1>8. OnlyBins(m, k) /\ Hole(k, z, U, {v}, {v}, E)
  <2>1. v \in DOMAIN z \ (U \cup {}) /\ v \notin {m.top, m.dv} /\ k = unlink_chunk(m, v, z[v])
    BY <1>2 DEF k
  <2>2. OnlyBins(m, k) /\ Hole(k, z, U, {} \cup {v}, {} \cup {v}, E)
    BY <1>5, <1>7, <2>1, HoleBinned
  <2>3. {} \cup {v} = {v}
    OBVIOUS
  <2> QED  BY <2>2, <2>3
<1>9. /\ SameSystem(m, k) /\ k.chunk = m.chunk /\ k.top = m.top /\ k.topsize = m.topsize
      /\ k.dv = m.dv /\ k.dvsize = m.dvsize
  BY <1>8 DEF OnlyBins, SameTop, SameDv
<1>10. Work(k, z, U, {v}, {v}, E)
  BY <1>2, <1>5, <1>8, <1>9 DEF Work, TopOK, DvOK
<1>11. Takes(k, z, r.m, U \cup {v}, U, v, nb .. nb + 3)
  BY <1>3, <1>4, <1>6, <1>9, <1>10, TakeWholeFacts
<1>12. Takes(m, z, r.m, U \cup {v}, U, v, nb .. nb + 3)
  <2>1. SameSystem(m, r.m)
    BY <1>9, <1>11, SystemTrans DEF Takes, SettlesAt
  <2> QED  BY <1>9, <1>11, <2>1 DEF Takes, SettlesAt
<1> QED  BY <1>2, <1>3, <1>12 DEF Got

(* From a bin, if there is something that fits.                            *)
LEMMA MallocBinnedFacts ==
  ASSUME NEW m, NEW z, NEW U, NEW E, Work(m, z, U, {}, {}, E),
         NEW nb \in Nat, (Even(nb) /\ 4 <= nb) \/ nb > BrkLimit,
         NEW small, small => is_small(nb) /\ Even(nb) /\ 4 <= nb,
         NEW r, r = malloc_binned(m, nb, small)
  PROVE  r = Failure(m) \/ Got(m, z, U, r, nb)
<1>1. m \in State /\ DvOK(m, z, U, {}) /\ m.dvsize \in Nat
  <2>1. m \in State /\ DvOK(m, z, U, {})
    BY DEF Work, Hole
  <2>2. m.dvsize \in size_t
    BY <2>1 DEF State
  <2> QED  BY <2>1, <2>2, Small
<1>2. m.smallmap \subseteq SmallSizes /\ SmallSizes \subseteq Nat /\ LargeSizes \subseteq Nat
      /\ TreeSizes(m) \subseteq LargeSizes
  <2>1. m.smallmap \subseteq SmallSizes
    BY <1>1 DEF State
  <2>2. SmallSizes \subseteq Nat /\ LargeSizes \subseteq Nat
    BY LargeFacts, Small DEF SmallSizes, LargeSizes
  <2>3. TreeSizes(m) \subseteq LargeSizes
    BY DEF TreeSizes
  <2> QED  BY <2>1, <2>2, <2>3
<1>3. CASE small
  <2>1. is_small(nb) /\ Even(nb) /\ 4 <= nb
    BY <1>3
  <2>2. CASE {nb, nb + 1} \cap m.smallmap # {}
    BY <1>3, <2>2, MallocExactFacts DEF malloc_binned
  <2>3. CASE {nb, nb + 1} \cap m.smallmap = {} /\ nb <= m.dvsize
    BY <1>3, <2>3 DEF malloc_binned
  <2>4. CASE {nb, nb + 1} \cap m.smallmap = {} /\ ~(nb <= m.dvsize)
    <3>1. is_small(m.dvsize)
      BY <1>1, <2>1, <2>4, LargeFacts DEF is_small
    <3>2. HasPlace(m, "dv") /\ "dv" # "no dv yet"
      BY <3>1 DEF HasPlace
    <3>3. CASE \E i \in m.smallmap : i > nb
      <4> DEFINE T == {i \in m.smallmap : i > nb}
                 s == Min(T)
                 v == Head(m.smallbins[s])
                 k == unlink_chunk(m, v, z[v])
      <4>1. T \in SUBSET Nat /\ T # {}
        BY <1>2, <3>3
      <4>2. s \in m.smallmap /\ s > nb
        BY <4>1, MinFacts
      <4>3. /\ v \in DOMAIN z \ U /\ v # m.top /\ v # m.dv /\ z[v] = s /\ v \in Nat /\ s \in Nat
            /\ unlink_first_small_chunk(m, s) = k
        BY <4>2, SmallBinHead
      <4>4. r = TakeChunk(k, v, z[v], nb, "dv")
        BY <1>3, <2>4, <3>3, <4>3 DEF malloc_binned, malloc_small_bin
      <4>5. nb <= z[v]
        BY <4>2, <4>3
      <4> QED  BY <2>1, <3>2, <4>3, <4>4, <4>5, TakeGot
    <3>4. CASE ~(\E i \in m.smallmap : i > nb) /\ TreeSizes(m) # {}
      <4> DEFINE s == Min(TreeSizes(m))
                 v == Head(m.treebins[s])
                 k == unlink_chunk(m, v, z[v])
      <4>1. s \in TreeSizes(m)
        BY <1>2, <3>4, MinFacts
      <4>2. /\ v \in DOMAIN z \ U /\ v # m.top /\ v # m.dv /\ z[v] = s /\ v \in Nat /\ s \in Nat
            /\ unlink_large_chunk(m, v) = k /\ s \in LargeSizes
        BY <4>1, TreeBinHead
      <4>3. r = TakeChunk(k, v, z[v], nb, "dv")
        BY <1>3, <2>4, <3>4, <4>2 DEF malloc_binned, tmalloc_small
      <4>4. nb <= z[v]
        BY <2>1, <4>2, LargeFacts DEF LargeSizes, is_small
      <4> QED  BY <2>1, <3>2, <4>2, <4>3, <4>4, TakeGot
    <3>5. CASE ~(\E i \in m.smallmap : i > nb) /\ TreeSizes(m) = {}
      BY <1>3, <2>4, <3>5 DEF malloc_binned
    <3> QED  BY <3>3, <3>4, <3>5
  <2> QED  BY <2>2, <2>3, <2>4
<1>4. CASE ~small
  <2> DEFINE T == {s \in TreeSizes(m) : s >= nb}
             s == Min(T)
             v == Head(m.treebins[s])
             k == unlink_chunk(m, v, z[v])
  <2>1. r = tmalloc_large(m, nb)
    BY <1>4 DEF malloc_binned
  <2>2. CASE r = Failure(m)
    BY <2>2
  <2>3. CASE r # Failure(m)
    <3>1. T # {} /\ r = TakeChunk(unlink_large_chunk(m, v), v, s, nb, "bin")
      BY <2>1, <2>3 DEF tmalloc_large
    <3>2. s \in TreeSizes(m) /\ s >= nb
      <4>1. T \in SUBSET Nat
        BY <1>2
      <4> QED  BY <3>1, <4>1, MinFacts
    <3>3. /\ v \in DOMAIN z \ U /\ v # m.top /\ v # m.dv /\ z[v] = s /\ v \in Nat /\ s \in Nat
          /\ unlink_large_chunk(m, v) = k /\ s \in LargeSizes
      BY <3>2, TreeBinHead
    <3>4. r = TakeChunk(k, v, z[v], nb, "bin") /\ nb <= z[v]
      BY <3>1, <3>2, <3>3
    <3>5. Even(nb) /\ 4 <= nb
      BY <3>2, <3>3, Small, LargeFacts DEF LargeSizes
    <3>6. HasPlace(m, "bin") /\ "bin" # "no dv yet"
      BY DEF HasPlace
    <3> QED  BY <3>3, <3>4, <3>5, <3>6, TakeGot
  <2> QED  BY <2>2, <2>3
<1> QED  BY <1>3, <1>4

-------------------------------------------------------------------------------
(* The chunks after a cut. *)
LEMMA CutHole ==
  ASSUME NEW m, NEW z, NEW U, NEW H, NEW L, NEW E, Hole(m, z, U, H, L, E),
         NEW p \in DOMAIN z, NEW k \in Nat, 0 < k, k < z[p]
  PROVE  /\ DOMAIN Cut(z, p, k) = DOMAIN z \cup {p + k} /\ p + k \notin DOMAIN z
         /\ Cut(z, p, k)[p] = k /\ Cut(z, p, k)[p + k] = z[p] - k
         /\ \A a \in DOMAIN z : a # p => Cut(z, p, k)[a] = z[a]
<1>1. PICK seg : seg = m.seg
  OBVIOUS
<1>2. Layout(z, seg, E)
  BY <1>1 DEF Hole
<1>3. /\ DOMAIN Cut(z, p, k) = DOMAIN z \cup {p + k} /\ p + k \notin DOMAIN z
      /\ Cut(z, p, k)[p] = k /\ Cut(z, p, k)[p + k] = z[p] - k
  BY <1>2, CutFacts
<1>4. \A a \in DOMAIN z : a # p => Cut(z, p, k)[a] = z[a]
  BY <1>3 DEF Cut
<1> QED  BY <1>3, <1>4

(* malloc from dv.                                                         *)
LEMMA MallocDvFacts ==
  ASSUME NEW m, NEW z, NEW U, NEW E, Work(m, z, U, {}, {}, E),
         NEW nb \in Nat, Even(nb), 4 <= nb, nb <= m.dvsize,
         NEW r, r = malloc_dv(m, nb)
  PROVE  Got(m, z, U, r, nb)
<1> DEFINE v == m.dv
           k == no_dv(m)
<1>1. /\ Hole(m, z, U, {}, {}, E) /\ TopOK(m, z, U, {}, E) /\ DvOK(m, z, U, {}) /\ m \in State
  BY DEF Work, Hole
<1>2. v # NULL /\ v \in DOMAIN z \ U /\ v # m.top /\ m.dvsize = z[v]
  BY <1>1 DEF DvOK
<1>3. m.chunk[v].pinuse /\ ~m.chunk[v + z[v]].pinuse /\ v + z[v] \in U
  BY <1>2, FreeAmongUsed
<1>4. Hole(m, z, U, {v}, {v}, E)
  <2>1. v \in DOMAIN z \ (U \cup {}) /\ v \in {m.top, m.dv}
    BY <1>2
  <2>2. Hole(m, z, U, {} \cup {v}, {} \cup {v}, E)
    BY <1>1, <2>1, HoleUnbinned
  <2>3. {} \cup {v} = {v}
    OBVIOUS
  <2> QED  BY <2>2, <2>3
<1>5. /\ SameSystem(m, k) /\ SameTop(m, k) /\ k.chunk = m.chunk
      /\ Hole(k, z, U, {v}, {v}, E) /\ DvOK(k, z, U, {v})
  <2>1. m.dv \in {v} \cup U \cup {m.top}
    OBVIOUS
  <2> QED  BY <1>4, <2>1, HoleNoDv
<1>6. k.top = m.top /\ k.topsize = m.topsize /\ k.dv = NULL
  <2>1. k.dv = NULL
    BY <1>1, Small, SetDvFacts DEF no_dv
  <2> QED  BY <1>5, <2>1 DEF SameTop
<1>7. r = TakeChunk(k, v, z[v], nb, "no dv yet") /\ v \in Nat
  <2>1. v \in Nat
    BY <1>1, <1>2, HoleChunk
  <2> QED  BY <1>2, <2>1 DEF malloc_dv
<1>8. nb <= z[v]
  BY <1>2
<1> HIDE DEF v, k
<1>9. Work(k, z, U, {v}, {v}, E)
  BY <1>1, <1>2, <1>5, <1>6 DEF Work, TopOK
<1>10. r.mem = chunk2mem(v) /\ Takes(k, z, r.m, U \cup {v}, U, v, nb .. nb + 3)
  <2>1. HasPlace(k, "no dv yet")
    BY <1>6 DEF HasPlace
  <2>2. k.chunk[v].pinuse /\ ~k.chunk[v + z[v]].pinuse
    BY <1>3, <1>5
  <2> QED  BY <1>3, <1>7, <1>8, <1>9, <2>1, <2>2, TakeChunkFacts
<1>11. Takes(m, z, r.m, U \cup {v}, U, v, nb .. nb + 3)
  <2>1. SameSystem(m, r.m)
    BY <1>5, <1>10, SystemTrans DEF Takes, SettlesAt
  <2> QED  BY <1>6, <1>10, <2>1 DEF Takes, SettlesAt
<1> QED  BY <1>2, <1>7, <1>10, <1>11 DEF Got

(* malloc from top.                                                        *)
LEMMA SplitTopFacts ==
  ASSUME NEW m, NEW z, NEW U, NEW E, Work(m, z, U, {}, {}, E),
         NEW nb \in Nat, Even(nb), 4 <= nb, nb < m.topsize,
         NEW r, r = split_top(m, nb)
  PROVE  Got(m, z, U, r, nb)
<1> DEFINE t == m.top
           q == m.top + nb
           s == m.topsize - nb
           y == Cut(z, t, nb)
           k == set_top(m, q, s)
<1>1. /\ Hole(m, z, U, {}, {}, E) /\ DvOK(m, z, U, {}) /\ m \in State /\ Layout(z, m.seg, E)
      /\ U \subseteq DOMAIN z
  BY DEF Work, Hole
<1>2. t \in DOMAIN z \ U /\ t + z[t] = E /\ m.topsize = z[t]
  BY DEF Work, TopOK
<1>3. t \in Nat /\ t \in Addr /\ z[t] \in Nat /\ z[t] \in size_t /\ t + z[t] \in Addr
      /\ NULL \notin DOMAIN z
  BY <1>1, <1>2, HoleChunk
<1>4. q \in Addr /\ q \in Nat /\ nb \in size_t \ {0} /\ nb < z[t] /\ 0 < nb /\ q # t
      /\ q + s = E /\ s \in Nat
  BY <1>2, <1>3, Small
<1>5. m.chunk[t].pinuse
  <2>1. t \in DOMAIN z \ (U \cup {}) /\ \A a \in {} : t <= a
    BY <1>2
  <2> QED  BY <1>1, <2>1, HoleFreePinuse
<1>6. Hole(m, z, U, {t}, {t}, E)
  <2>1. t \in DOMAIN z \ (U \cup {}) /\ t \in {m.top, m.dv}
    BY <1>2
  <2>2. Hole(m, z, U, {} \cup {t}, {} \cup {t}, E)
    BY <1>1, <2>1, HoleUnbinned
  <2>3. {} \cup {t} = {t}
    OBVIOUS
  <2> QED  BY <2>2, <2>3
<1>7. Hole(m, y, U, {t, q}, {t, q}, E)
  <2>1. PICK H : H = {t}
    OBVIOUS
  <2>2. Hole(m, z, U, H, H, E) /\ t \in H
    BY <1>6, <2>1
  <2>3. Hole(m, Cut(z, t, nb), U, H \cup {t + nb}, H \cup {t + nb}, E)
    BY <1>2, <1>4, <2>2, HoleCut
  <2>4. H \cup {t + nb} = {t, q}
    BY <2>1
  <2> QED  BY <2>3, <2>4
<1>8. /\ DOMAIN y = DOMAIN z \cup {q} /\ y[t] = nb /\ y[q] = s /\ q \notin DOMAIN z
      /\ \A a \in DOMAIN z \ {t} : y[a] = z[a]
  <2>1. z[t] - nb = s
    BY <1>2
  <2>2. PICK p : p = t
    OBVIOUS
  <2>3. p \in DOMAIN z /\ 0 < nb /\ nb < z[p] /\ Hole(m, z, U, {}, {}, E)
    BY <1>1, <1>2, <1>4, <2>2
  <2>4. /\ DOMAIN Cut(z, p, nb) = DOMAIN z \cup {p + nb} /\ p + nb \notin DOMAIN z
        /\ Cut(z, p, nb)[p] = nb /\ Cut(z, p, nb)[p + nb] = z[p] - nb
        /\ \A a \in DOMAIN z : a # p => Cut(z, p, nb)[a] = z[a]
    BY <2>3, CutHole
  <2> QED  BY <2>1, <2>2, <2>4
<1>9. r.mem = chunk2mem(t) /\ r.m = set_size_and_pinuse_of_inuse_chunk(k, t, nb)
  BY DEF split_top, Result
<1>10. t + nb = q
  OBVIOUS
<1>11. /\ k \in State /\ SameSystem(m, k) /\ SameBins(m, k) /\ SameDv(m, k)
       /\ k.top = q /\ k.topsize = s /\ k.chunk \in [Addr -> HeaderSet]
       /\ k.chunk[q].size = s /\ ~k.chunk[q].cinuse /\ k.chunk[q].pinuse
       /\ \A a \in Addr \ {q} : k.chunk[a] = m.chunk[a]
  <2>1. s \in size_t
    BY <1>2, <1>3, <1>4, Small, SMTT(40)
  <2> QED  BY <1>1, <1>4, <2>1, SetTopFacts
<1>12. k = set_top(m, q, y[q])
  BY <1>8
<1> HIDE DEF y, k, q, s
<1>13. Hole(k, y, U, {t}, {t}, E) /\ TopOK(k, y, U, {t}, E)
  <2>1. PICK H : H = {t, q}
    OBVIOUS
  <2>2. Hole(m, y, U, H, H, E) /\ q \in H /\ m.top \in H /\ q + y[q] = E
    BY <1>4, <1>7, <1>8, <2>1
  <2>3. MaySet(m.chunk, y, H, q)
    <3>1. t \in H \cap DOMAIN y /\ t + y[t] = q
      BY <1>2, <1>8, <1>10, <2>1
    <3> QED  BY <3>1 DEF MaySet
  <2>4. Hole(k, y, U, H \ {q}, H \ {q}, E) /\ TopOK(k, y, U, H \ {q}, E)
    BY <1>12, <2>2, <2>3, HoleToTop
  <2>5. H \ {q} = {t}
    BY <1>4, <2>1
  <2> QED  BY <2>4, <2>5
<1>14. /\ OnlyChunks(k, r.m) /\ r.m.chunk \in [Addr -> HeaderSet]
       /\ r.m.chunk[t] = UsedHeader(nb)
       /\ \A a \in Addr \ {t} : r.m.chunk[a] = k.chunk[a]
  BY <1>3, <1>4, <1>9, <1>11, SetSizeOfInuseFacts
<1>15. UsedHeader(nb).size = nb /\ UsedHeader(nb).cinuse /\ UsedHeader(nb).pinuse
  BY DEF UsedHeader, Header
<1>16. MarksUsed(k.chunk, r.m.chunk, t, nb)
  <2>1. r.m.chunk[t + nb] = k.chunk[q] /\ k.chunk[q].pinuse
    BY <1>4, <1>10, <1>11, <1>14
  <2>2. \A a \in Addr \ {t, t + nb} : r.m.chunk[a] = k.chunk[a]
    BY <1>14
  <2>3. r.m.chunk[t].size = nb /\ r.m.chunk[t].cinuse
    BY <1>14, <1>15
  <2>4. k.chunk[t + nb] = k.chunk[q]
    BY <1>10
  <2> QED  BY <1>14, <2>1, <2>2, <2>3, <2>4 DEF MarksUsed
<1>17. Hole(r.m, y, U \cup {t}, {}, {}, E)
  <2>1. t \in {t} /\ t + y[t] \in DOMAIN y
    BY <1>8, <1>10
  <2>2. r.m.chunk[t].pinuse /\ MaySet(k.chunk, y, {t}, t)
    <3>1. k.chunk[t].pinuse
      BY <1>3, <1>4, <1>5, <1>11
    <3> QED  BY <1>14, <1>15, <3>1 DEF MaySet
  <2>3. MarksUsed(k.chunk, r.m.chunk, t, y[t])
    BY <1>8, <1>16
  <2>4. Hole(r.m, y, U \cup {t}, {t} \ {t}, {t} \ {t}, E)
    BY <1>13, <1>14, <2>1, <2>2, <2>3, HoleToUsed
  <2>5. {t} \ {t} = {}
    OBVIOUS
  <2> QED  BY <2>4, <2>5
<1>18. /\ SameSystem(m, r.m) /\ r.m.top = q /\ r.m.topsize = s
       /\ r.m.dv = m.dv /\ r.m.dvsize = m.dvsize
  BY <1>11, <1>14, SystemTrans DEF OnlyChunks, SameTop, SameDv
<1>19. TopOK(r.m, y, U \cup {t}, {}, E)
  BY <1>1, <1>2, <1>4, <1>8, <1>18 DEF TopOK
<1>20. DvOK(r.m, y, U \cup {t}, {})
  BY <1>1, <1>2, <1>4, <1>8, <1>18 DEF DvOK
<1>21. Work(r.m, y, U \cup {t}, {}, {}, E)
  BY <1>17, <1>19, <1>20 DEF Work
<1>22. SettlesAt(m, z, r.m, U \cup {t}, U, t, nb .. nb + 3)
  <2>1. y[t] \in nb .. nb + 3 /\ t \in U \cup {t}
    BY <1>8
  <2>2. \A a \in U : y[a] = z[a]
    BY <1>1, <1>2, <1>8
  <2>3. m.top + m.topsize = E
    BY <1>2
  <2> QED  BY <1>18, <1>21, <2>1, <2>2, <2>3, SettlesAtHeap
<1>23. r.m.chunk[t].pinuse
  BY <1>14, <1>15
<1> QED  BY <1>2, <1>3, <1>9, <1>22, <1>23 DEF Got, Takes

-------------------------------------------------------------------------------
Pair(H, z, p, r) == H = {p, r} /\ p # r /\ p + z[p] = r

(* A chunk takes up the free one behind it; its header is still to come.   *)
LEMMA JoinHole ==
  ASSUME NEW m, NEW z, NEW U, NEW E, NEW p, NEW r, NEW H, Pair(H, z, p, r),
         Hole(m, z, U, H, H, E),
         NEW k, k = Erase(m, r), NEW y, y = Join(z, p)
  PROVE  /\ OnlyChunks(m, k) /\ Hole(k, y, U, {p}, {p}, E)
         /\ Joined(y, z, p, r) /\ p + y[p] = r + z[r]
<1>1. p \in DOMAIN z /\ r \in DOMAIN z /\ Layout(z, m.seg, E) /\ p + z[p] = r
  BY DEF Hole, Pair
<1>2. p \in H /\ p + z[p] \in H /\ k = Erase(m, p + z[p])
  BY DEF Pair
<1>3. /\ OnlyChunks(m, k)
      /\ Hole(k, y, U, H \ {p + z[p]}, H \ {p + z[p]}, E)
  BY <1>2, HoleJoin
<1>4. H \ {p + z[p]} = {p}
  BY DEF Pair
<1>5. Hole(k, y, U, {p}, {p}, E)
  BY <1>3, <1>4
<1>6. Joined(y, z, p, r) /\ p + y[p] = r + z[r]
  <2>1. PICK seg : seg = m.seg
    OBVIOUS
  <2>2. Layout(z, seg, E)
    BY <1>1, <2>1
  <2>3. Joined(Join(z, p), z, p, r) /\ p + Join(z, p)[p] = r + z[r]
    BY <1>1, <2>2, JoinedFacts
  <2> QED  BY <2>3
<1> QED  BY <1>3, <1>5, <1>6

TopBehind(m, z, p, nb) == p + z[p] = m.top /\ z[p] < nb /\ nb < z[p] + m.topsize

(* The words behind the chunk p that is being resized, if they are top.    *)
LEMMA ExtendTopFacts ==
  ASSUME NEW m, NEW z, NEW U, NEW E, NEW p, Work(m, z, U, {p}, {p}, E),
         NEW nb \in Nat, Even(nb), 4 <= nb, TopBehind(m, z, p, nb),
         NEW n, n = extend_into_top(m, p, z[p], nb)
  PROVE  SettlesAt(m, z, n, U \cup {p}, U, p, {nb})
<1> DEFINE q == p + nb
           s == z[p] + m.topsize - nb
           k == Erase(m, m.top)
           x == Join(z, p)
           y == Cut(x, p, nb)
           j == set_inuse(k, p, nb)
<1>1. /\ Hole(m, z, U, {p}, {p}, E) /\ DvOK(m, z, U, {p}) /\ m \in State
      /\ p \in DOMAIN z /\ p \notin U /\ U \subseteq DOMAIN z
  BY DEF Work, Hole
<1>2. m.top \in DOMAIN z \ (U \cup {p}) /\ m.top + z[m.top] = E /\ m.topsize = z[m.top]
  BY DEF Work, TopOK
<1>3. p \in Nat /\ p \in Addr /\ z[p] \in Nat /\ z[m.top] \in Nat /\ NULL \notin DOMAIN z
  BY <1>1, <1>2, HoleChunk
<1>4. /\ OnlyChunks(m, k) /\ Hole(k, x, U, {p}, {p}, E)
      /\ Joined(x, z, p, m.top) /\ p + x[p] = E
  <2>1. PICK H : H = {p, m.top}
    OBVIOUS
  <2>2. Hole(m, z, U, {p} \cup {m.top}, {p} \cup {m.top}, E)
    <3>1. m.top \in DOMAIN z \ (U \cup {p}) /\ m.top \in {m.top, m.dv}
      BY <1>2
    <3> QED  BY <1>1, <3>1, HoleUnbinned
  <2>3. Hole(m, z, U, H, H, E) /\ p # m.top
    BY <1>2, <2>1, <2>2
  <2>4. k = Erase(m, m.top) /\ x = Join(z, p)
    OBVIOUS
  <2> HIDE DEF k, x
  <2>5. PICK r : r = m.top
    OBVIOUS
  <2>6. k = Erase(m, r) /\ Pair(H, z, p, r)
    BY <2>1, <2>3, <2>4, <2>5 DEF TopBehind, Pair
  <2>7. /\ OnlyChunks(m, k) /\ Hole(k, x, U, {p}, {p}, E)
        /\ Joined(x, z, p, r) /\ p + x[p] = r + z[r]
    BY <2>3, <2>4, <2>6, JoinHole
  <2> QED  BY <1>2, <2>5, <2>7
<1>5. x[p] = z[p] + z[m.top] /\ p \in DOMAIN x /\ nb < x[p] /\ 0 < nb /\ x[p] \in Nat
      /\ x[p] - nb = s
  BY <1>1, <1>2, <1>3, <1>4 DEF Joined, TopBehind
<1>6. n = set_top(j, q, s)
  BY DEF extend_into_top
<1> HIDE DEF k, x, j
<1>7. OnlyChunks(k, j) /\ j.chunk[q].pinuse /\ Hole(j, y, U \cup {p}, {q}, {q}, E)
  <2>1. j = set_inuse(k, p, nb)
    BY DEF j
  <2>2. p + x[p] # E => x[p] - nb >= 4
    BY <1>4
  <2> QED  BY <1>4, <1>5, <2>1, <2>2, CutUsed
<1>8. /\ DOMAIN y = DOMAIN x \cup {q} /\ y[p] = nb /\ y[q] = s /\ q \notin DOMAIN x
      /\ \A a \in DOMAIN x : a # p => y[a] = x[a]
  <2>1. /\ DOMAIN Cut(x, p, nb) = DOMAIN x \cup {p + nb} /\ p + nb \notin DOMAIN x
        /\ Cut(x, p, nb)[p] = nb /\ Cut(x, p, nb)[p + nb] = x[p] - nb
        /\ \A a \in DOMAIN x : a # p => Cut(x, p, nb)[a] = x[a]
    <3> HIDE DEF y, q, s
    <3>1. PICK L : L = {p}
      OBVIOUS
    <3>2. Hole(k, x, U, L, L, E) /\ p \in DOMAIN x /\ 0 < nb /\ nb < x[p]
      BY <1>4, <1>5, <3>1
    <3> QED  BY <3>2, CutHole
  <2> QED  BY <1>5, <2>1
<1> HIDE DEF y, s
<1>9. q \in Nat /\ q # p /\ q # m.top /\ q + y[q] = E
  BY <1>3, <1>4, <1>5, <1>8 DEF TopBehind
<1>10. /\ j.top = m.top /\ j.topsize = m.topsize /\ j.dv = m.dv /\ j.dvsize = m.dvsize
       /\ SameSystem(m, j)
  BY <1>4, <1>7, SystemTrans DEF OnlyChunks, SameTop, SameDv
<1>11. n = set_top(j, q, y[q])
  BY <1>6, <1>8
<1> HIDE DEF q
<1>12. /\ SameSystem(j, n) /\ SameDv(j, n) /\ Hole(n, y, U \cup {p}, {}, {}, E)
       /\ TopOK(n, y, U \cup {p}, {}, E)
  <2>1. j.top \notin DOMAIN y
    BY <1>4, <1>8, <1>9, <1>10 DEF Joined
  <2>2. MaySet(j.chunk, y, {q}, q)
    BY <1>7 DEF MaySet
  <2>3. q \in {q} /\ q + y[q] = E
    BY <1>9
  <2>4. /\ SameSystem(j, n) /\ SameDv(j, n) /\ Hole(n, y, U \cup {p}, {q} \ {q}, {q} \ {q}, E)
        /\ TopOK(n, y, U \cup {p}, {q} \ {q}, E)
    BY <1>7, <1>11, <2>1, <2>2, <2>3, HoleToTop
  <2>5. {q} \ {q} = {}
    OBVIOUS
  <2> QED  BY <2>4, <2>5
<1>13. DvOK(n, y, U \cup {p}, {})
  <2>1. n.dv = m.dv /\ n.dvsize = m.dvsize
    BY <1>10, <1>12 DEF SameDv
  <2>2. CASE m.dv = NULL
    BY <1>1, <2>1, <2>2 DEF DvOK
  <2>3. CASE m.dv # NULL
    <3>1. m.dv \in DOMAIN z \ (U \cup {p}) /\ m.dv # m.top /\ m.dvsize = z[m.dv]
      BY <1>1, <2>3 DEF DvOK
    <3>2. m.dv \in DOMAIN x /\ x[m.dv] = z[m.dv] /\ m.dv # q
      BY <1>4, <1>8, <3>1 DEF Joined
    <3>3. m.dv \in DOMAIN y /\ y[m.dv] = z[m.dv]
      BY <1>8, <3>1, <3>2
    <3>4. m.dv # n.top
      <4>1. n.top = q
        BY <1>7, <1>9, <1>11, <1>12, <1>8 DEF set_top
      <4> QED  BY <3>2, <4>1
    <3> QED  BY <2>1, <2>3, <3>1, <3>3, <3>4 DEF DvOK
  <2> QED  BY <2>2, <2>3
<1>14. Work(n, y, U \cup {p}, {}, {}, E)
  BY <1>12, <1>13 DEF Work
<1>15. y[p] \in {nb} /\ \A a \in U : y[a] = z[a]
  BY <1>1, <1>2, <1>4, <1>8 DEF Joined
<1>16. SameSystem(m, n) /\ m.top + m.topsize = E
  BY <1>2, <1>10, <1>12, SystemTrans
<1> QED  BY <1>14, <1>15, <1>16, SettlesAtHeap

-------------------------------------------------------------------------------
IsCut(y, x, p, k, q) ==
    /\ DOMAIN y = DOMAIN x \cup {q} /\ q \notin DOMAIN x
    /\ y[p] = k /\ y[q] = x[p] - k
    /\ \A a \in DOMAIN x : a # p => y[a] = x[a]

(* The same under a name of its own. *)
LEMMA CutOne ==
  ASSUME NEW m, NEW x, NEW U, NEW E, NEW p, Hole(m, x, U, {p}, {p}, E),
         NEW k \in Nat, 0 < k, k < x[p], p \in DOMAIN x
  PROVE  IsCut(Cut(x, p, k), x, p, k, p + k)
<1>1. PICK seg : seg = m.seg
  OBVIOUS
<1>2. Layout(x, seg, E)
  BY <1>1 DEF Hole
<1>3. /\ DOMAIN Cut(x, p, k) = DOMAIN x \cup {p + k} /\ p + k \notin DOMAIN x
      /\ Cut(x, p, k)[p] = k /\ Cut(x, p, k)[p + k] = x[p] - k
  BY <1>2, CutFacts
<1>4. \A a \in DOMAIN x : a # p => Cut(x, p, k)[a] = x[a]
  BY <1>3 DEF Cut
<1> QED  BY <1>3, <1>4 DEF IsCut

AtLeast(nb) == {k \in Nat : k >= nb}
DvBehind(m, z, p, nb) == p + z[p] = m.dv /\ m.dv # NULL /\ z[p] < nb /\ nb <= z[p] + m.dvsize

(* dv behind it.                                                           *)
LEMMA ExtendDvFacts ==
  ASSUME NEW m, NEW z, NEW U, NEW E, NEW p, Work(m, z, U, {p}, {p}, E),
         NEW nb \in Nat, Even(nb), 4 <= nb, DvBehind(m, z, p, nb),
         NEW n, n = extend_into_dv(m, p, z[p], nb)
  PROVE  SettlesAt(m, z, n, U \cup {p}, U, p, AtLeast(nb))
<1> DEFINE q == p + nb
           s == z[p] + m.dvsize - nb
           k == Erase(m, m.dv)
           x == Join(z, p)
           y == Cut(x, p, nb)
           j == set_inuse(k, p, nb)
<1>1. /\ Hole(m, z, U, {p}, {p}, E) /\ TopOK(m, z, U, {p}, E) /\ m \in State
      /\ p \in DOMAIN z /\ p \notin U /\ U \subseteq DOMAIN z
  BY DEF Work, Hole
<1>2. m.dv \in DOMAIN z \ (U \cup {p}) /\ m.dv # m.top /\ m.dvsize = z[m.dv]
  BY DEF Work, DvOK, DvBehind
<1>3. m.top \in DOMAIN z \ (U \cup {p}) /\ m.top + z[m.top] = E /\ m.topsize = z[m.top]
  BY <1>1 DEF TopOK
<1>4. p \in Nat /\ p \in Addr /\ z[p] \in Nat /\ z[p] > 0 /\ Even(z[p]) /\ NULL \notin DOMAIN z
  <2>1. p + z[p] # E
    <3>1. p # m.top /\ m.top \in DOMAIN z
      BY <1>3
    <3> QED  BY <1>1, <1>3, <3>1, NotTop
  <2> QED  BY <1>1, <2>1, HoleChunk
<1>5. m.dv + z[m.dv] # E
  <2>1. m.dv \in DOMAIN z /\ m.top \in DOMAIN z
    BY <1>2, <1>3
  <2> QED  BY <1>1, <1>2, <1>3, <2>1, NotTop
<1>6. z[m.dv] \in Nat /\ Even(z[m.dv]) /\ m.dv \in Nat /\ m.dv + z[m.dv] \in Nat
  <2>1. m.dv \in DOMAIN z
    BY <1>2
  <2> QED  BY <1>1, <1>5, <2>1, HoleChunk
<1>7. m.dv + z[m.dv] \in U /\ ~m.chunk[m.dv + z[m.dv]].pinuse
  <2>1. PICK H : H = {p}
    OBVIOUS
  <2>2. Hole(m, z, U, H, H, E) /\ m.dv \in DOMAIN z \ (U \cup H)
    BY <1>1, <1>2, <2>1
  <2>3. ~m.chunk[m.dv + z[m.dv]].pinuse /\ m.dv + z[m.dv] \in U \cup H
    BY <1>5, <2>2, HoleFree
  <2>4. m.dv + z[m.dv] # p
    BY <1>4, <1>6 DEF DvBehind
  <2> QED  BY <2>1, <2>3, <2>4
<1>8. /\ OnlyChunks(m, k) /\ Hole(k, x, U, {p}, {p}, E)
      /\ Joined(x, z, p, m.dv) /\ p + x[p] = m.dv + z[m.dv]
  <2>1. PICK H : H = {p, m.dv}
    OBVIOUS
  <2>2. Hole(m, z, U, {p} \cup {m.dv}, {p} \cup {m.dv}, E)
    <3>1. m.dv \in DOMAIN z \ (U \cup {p}) /\ m.dv \in {m.top, m.dv}
      BY <1>2
    <3> QED  BY <1>1, <3>1, HoleUnbinned
  <2>3. Hole(m, z, U, H, H, E) /\ p # m.dv
    BY <1>2, <2>1, <2>2
  <2>4. k = Erase(m, m.dv) /\ x = Join(z, p)
    OBVIOUS
  <2> HIDE DEF k, x
  <2>5. PICK r : r = m.dv
    OBVIOUS
  <2>6. k = Erase(m, r) /\ Pair(H, z, p, r)
    BY <2>1, <2>3, <2>4, <2>5 DEF DvBehind, Pair
  <2>7. /\ OnlyChunks(m, k) /\ Hole(k, x, U, {p}, {p}, E)
        /\ Joined(x, z, p, r) /\ p + x[p] = r + z[r]
    BY <2>3, <2>4, <2>6, JoinHole
  <2> QED  BY <2>5, <2>7
<1>9. x[p] = z[p] + z[m.dv] /\ p \in DOMAIN x /\ nb <= x[p] /\ x[p] \in Nat
      /\ x[p] - nb = s /\ Even(x[p]) /\ s \in Nat /\ Even(s)
  <2>1. x[p] = z[p] + z[m.dv] /\ p \in DOMAIN x
    BY <1>1, <1>2, <1>8 DEF Joined
  <2>2. nb <= x[p] /\ x[p] \in Nat /\ x[p] - nb = s /\ s \in Nat
    BY <1>2, <1>4, <1>6, <2>1 DEF DvBehind
  <2>3. Even(x[p])
    <3>1. p + x[p] # E
      BY <1>5, <1>8
    <3> QED  BY <1>8, <2>1, <3>1, HoleChunk
  <2>4. Even(x[p] - nb)
    <3>1. PICK w \in Int : w = x[p]
      BY <2>2
    <3>2. nb \in Int /\ Even(w)
      BY <2>3, <3>1
    <3>3. Even(w - nb)
      BY <3>2, EvenSum
    <3> QED  BY <3>1, <3>3
  <2> QED  BY <2>1, <2>2, <2>3, <2>4
<1>10. /\ k.top = m.top /\ k.topsize = m.topsize /\ k.dv = m.dv /\ k.dvsize = m.dvsize
       /\ SameSystem(m, k) /\ k \in State
  BY <1>8 DEF OnlyChunks, SameTop, SameDv
<1>11. m.top \in DOMAIN x \ (U \cup {p}) /\ x[m.top] = z[m.top] /\ m.dv \notin DOMAIN x
       /\ \A a \in U : a \in DOMAIN x /\ x[a] = z[a]
  BY <1>1, <1>2, <1>3, <1>8 DEF Joined
<1>12. NULL \notin DOMAIN x
  BY <1>8, <1>9, HoleChunk
<1> HIDE DEF k, x
<1>13. CASE s >= 4
  <2>1. n = set_dv(set_free_with_pinuse(j, q, s, q + s), q, s)
    BY <1>13, <1>8 DEF extend_into_dv, MIN_CHUNK_SIZE, k
  <2> HIDE DEF j
  <2>2. OnlyChunks(k, j) /\ j.chunk[q].pinuse /\ Hole(j, y, U \cup {p}, {q}, {q}, E)
    <3>1. j = set_inuse(k, p, nb)
      BY DEF j
    <3>2. (p + x[p] # E => x[p] - nb >= 4) /\ nb < x[p]
      BY <1>9, <1>13
    <3> QED  BY <1>8, <1>9, <3>1, <3>2, CutUsed
  <2>3. /\ DOMAIN y = DOMAIN x \cup {q} /\ y[p] = nb /\ y[q] = s /\ q \notin DOMAIN x
        /\ \A a \in DOMAIN x : a # p => y[a] = x[a]
    <3>1. nb < x[p] /\ 0 < nb
      BY <1>9, <1>13
    <3>2. IsCut(y, x, p, nb, q)
      BY <1>8, <1>9, <3>1, CutOne
    <3> QED  BY <1>9, <3>2 DEF IsCut
  <2>4. q \in Nat /\ q # m.dv /\ q # m.top /\ q # NULL /\ q + s = m.dv + z[m.dv] /\ p # q
        /\ m.dv \notin DOMAIN y
    <3>1. q \in Nat /\ q # m.dv /\ p # q
      BY <1>4 DEF DvBehind
    <3>2. q # m.top
      BY <1>11, <2>3
    <3>3. q # NULL
      BY <1>4, Small
    <3>4. q + s = m.dv + z[m.dv]
      BY <1>2, <1>4, <1>6, <1>9 DEF DvBehind
    <3>5. m.dv \notin DOMAIN y
      BY <1>11, <2>3, <3>1
    <3> QED  BY <3>1, <3>2, <3>3, <3>4, <3>5
  <2>5. /\ j.top = m.top /\ j.topsize = m.topsize /\ j.dv = m.dv /\ j.dvsize = m.dvsize
        /\ SameSystem(m, j) /\ j \in State
    BY <1>10, <2>2, SystemTrans DEF OnlyChunks, SameTop, SameDv
  <2> DEFINE i == set_free_with_pinuse(j, q, s, q + s)
  <2> HIDE DEF y, s, q
  <2>6. OnlyChunks(j, i) /\ MarksFree(j.chunk, i.chunk, q, s)
    <3>1. q \in DOMAIN y
      BY <2>3
    <3>2. q \in Addr /\ y[q] \in size_t \ {0} /\ q + y[q] \in Addr
      BY <2>2, <3>1, HoleChunk
    <3> QED  BY <2>3, <2>5, <3>2, SetFreeFacts
  <2>7. n = set_dv(i, q, y[q])
    BY <2>1, <2>3
  <2> HIDE DEF i
  <2>8. Hole(i, y, U \cup {p}, {}, {q}, E)
    <3>1. q \in {q} /\ q + y[q] \in (U \cup {p}) \cup {q}
      BY <1>7, <2>3, <2>4
    <3>2. MarksFree(j.chunk, i.chunk, q, y[q]) /\ MaySet(j.chunk, y, {q}, q)
      BY <2>2, <2>3, <2>6 DEF MaySet
    <3>3. Hole(i, y, U \cup {p}, {q} \ {q}, {q}, E)
      BY <2>2, <2>6, <3>1, <3>2, HoleToFree
    <3>4. {q} \ {q} = {}
      OBVIOUS
    <3> QED  BY <3>3, <3>4
  <2>9. /\ i.top = m.top /\ i.topsize = m.topsize /\ i.dv = m.dv /\ SameSystem(m, i)
    BY <2>5, <2>6, SystemTrans DEF OnlyChunks, SameTop, SameDv
  <2>10. /\ SameSystem(i, n) /\ SameTop(i, n) /\ Hole(n, y, U \cup {p}, {}, {}, E)
         /\ DvOK(n, y, U \cup {p}, {})
    <3>1. q \in {q} \ {} /\ q # i.top /\ i.dv \notin DOMAIN y /\ i.dv \notin {q}
      BY <2>4, <2>9
    <3>2. /\ SameSystem(i, n) /\ SameTop(i, n) /\ Hole(n, y, U \cup {p}, {}, {q} \ {q}, E)
          /\ DvOK(n, y, U \cup {p}, {q} \ {q})
      BY <2>7, <2>8, <3>1, HoleSetDv
    <3>3. {q} \ {q} = {}
      OBVIOUS
    <3> QED  BY <3>2, <3>3
  <2>11. n.top = m.top /\ n.topsize = m.topsize /\ SameSystem(m, n)
    BY <2>9, <2>10, SystemTrans DEF SameTop
  <2>12. TopOK(n, y, U \cup {p}, {}, E)
    BY <1>3, <1>11, <2>3, <2>11 DEF TopOK
  <2>13. Work(n, y, U \cup {p}, {}, {}, E)
    BY <2>10, <2>12 DEF Work
  <2>14. y[p] \in AtLeast(nb) /\ \A a \in U : y[a] = z[a]
    <3>1. \A a \in U : y[a] = z[a]
      BY <1>1, <1>11, <2>3
    <3> QED  BY <2>3, <3>1 DEF AtLeast
  <2>15. m.top + m.topsize = E
    BY <1>3
  <2> QED  BY <2>11, <2>13, <2>14, <2>15, SettlesAtHeap
<1>14. CASE ~(s >= 4)
  <2> DEFINE i == set_inuse(k, p, x[p])
  <2>1. n = no_dv(i)
    BY <1>2, <1>14, <1>8, <1>9 DEF extend_into_dv, MIN_CHUNK_SIZE, k
  <2>2. x[p] \in size_t \ {0} /\ p + x[p] \in Addr
    BY <1>8, <1>9, HoleChunk
  <2>3. /\ OnlyChunks(k, i) /\ MarksUsed(k.chunk, i.chunk, p, x[p])
        /\ i.chunk[p].pinuse = k.chunk[p].pinuse
        /\ i.chunk[p].prev_foot = k.chunk[p].prev_foot
    BY <1>4, <1>10, <2>2, SetInuseFacts
  <2> HIDE DEF i
  <2>4. Hole(i, x, U \cup {p}, {}, {}, E)
    <3>1. p \in {p} /\ p + x[p] \in DOMAIN x
      BY <1>7, <1>8, <1>11
    <3>2. Hole(i, x, U \cup {p}, {p} \ {p}, {p} \ {p}, E)
      BY <1>8, <2>3, <3>1, HoleToUsed
    <3>3. {p} \ {p} = {}
      OBVIOUS
    <3> QED  BY <3>2, <3>3
  <2>5. /\ i.top = m.top /\ i.topsize = m.topsize /\ i.dv = m.dv /\ SameSystem(m, i)
    BY <1>10, <2>3, SystemTrans DEF OnlyChunks, SameTop, SameDv
  <2>6. /\ SameSystem(i, n) /\ SameTop(i, n) /\ Hole(n, x, U \cup {p}, {}, {}, E)
        /\ DvOK(n, x, U \cup {p}, {})
    <3>1. i.dv \notin DOMAIN x
      BY <1>11, <2>5
    <3> QED  BY <2>1, <2>4, <3>1, HoleNoDv
  <2>7. n.top = m.top /\ n.topsize = m.topsize /\ SameSystem(m, n)
    BY <2>5, <2>6, SystemTrans DEF SameTop
  <2>8. TopOK(n, x, U \cup {p}, {}, E)
    BY <1>3, <1>11, <2>7 DEF TopOK
  <2>9. Work(n, x, U \cup {p}, {}, {}, E)
    BY <2>6, <2>8 DEF Work
  <2>10. x[p] \in AtLeast(nb) /\ \A a \in U : x[a] = z[a]
    BY <1>9, <1>11 DEF AtLeast
  <2>11. m.top + m.topsize = E
    BY <1>3
  <2> QED  BY <2>7, <2>9, <2>10, <2>11, SettlesAtHeap
<1> QED  BY <1>13, <1>14

-------------------------------------------------------------------------------
FreeBehind(m, z, U, p, r, nb) ==
    /\ p + z[p] = r /\ r \in DOMAIN z \ U /\ r # m.top /\ r # m.dv
    /\ z[p] < nb /\ nb <= z[p] + z[r]

(* A binned chunk behind it.                                               *)
LEMMA ExtendFreeFacts ==
  ASSUME NEW m, NEW z, NEW U, NEW E, NEW p, Work(m, z, U, {p}, {p}, E),
         NEW nb \in Nat, Even(nb), 4 <= nb, NEW r, FreeBehind(m, z, U, p, r, nb),
         m.chunk[r].size = z[r],
         NEW n, n = extend_into_free(m, p, r, z[p], nb)
  PROVE  SettlesAt(m, z, n, U \cup {p}, U, p, AtLeast(nb))
<1> DEFINE u == unlink_chunk(m, r, z[r])
           k == Erase(u, r)
           x == Join(z, p)
<1>1. /\ Hole(m, z, U, {p}, {p}, E) /\ TopOK(m, z, U, {p}, E) /\ DvOK(m, z, U, {p})
      /\ m \in State /\ p \in DOMAIN z /\ p \notin U /\ U \subseteq DOMAIN z
  BY DEF Work, Hole
<1>2. m.top \in DOMAIN z \ (U \cup {p}) /\ m.top + z[m.top] = E /\ m.topsize = z[m.top]
  BY <1>1 DEF TopOK
<1>3. r \in DOMAIN z \ U /\ r # m.top /\ r # m.dv
  BY DEF FreeBehind
<1>4. p \in Nat /\ p \in Addr /\ z[p] \in Nat /\ z[p] > 0 /\ z[r] \in Nat /\ r # p
      /\ NULL \notin DOMAIN z
  <2>1. p \in Nat /\ p \in Addr /\ z[p] \in Nat /\ z[p] > 0 /\ NULL \notin DOMAIN z
    BY <1>1, HoleChunk
  <2>2. z[r] \in Nat
    BY <1>1, <1>3, HoleChunk
  <2>3. r # p
    BY <2>1 DEF FreeBehind
  <2> QED  BY <2>1, <2>2, <2>3
<1>5. r + z[r] # E
  <2>1. r \in DOMAIN z /\ m.top \in DOMAIN z
    BY <1>2, <1>3
  <2> QED  BY <1>1, <1>2, <1>3, <2>1, NotTop
<1>6. r + z[r] \in U
  <2>1. PICK H : H = {p}
    OBVIOUS
  <2>2. Hole(m, z, U, H, H, E) /\ r \in DOMAIN z \ (U \cup H)
    BY <1>1, <1>3, <1>4, <2>1
  <2>3. r + z[r] \in U \cup H
    BY <1>5, <2>2, HoleFree
  <2>4. r + z[r] # p
    BY <1>4 DEF FreeBehind
  <2> QED  BY <2>1, <2>3, <2>4
<1>7. OnlyBins(m, u) /\ Hole(u, z, U, {p, r}, {p, r}, E)
  <2>1. r \notin {m.top, m.dv} /\ u = unlink_chunk(m, r, z[r])
    BY <1>3
  <2> HIDE DEF u
  <2> QED  BY <1>1, <1>3, <1>4, <1>5, <2>1, UnlinkNext
<1>8. /\ OnlyChunks(u, k) /\ Hole(k, x, U, {p}, {p}, E)
      /\ Joined(x, z, p, r) /\ p + x[p] = r + z[r]
  <2>1. PICK H : H = {p, r}
    OBVIOUS
  <2>2. k = Erase(u, r) /\ x = Join(z, p)
    OBVIOUS
  <2> HIDE DEF k, x, u
  <2>3. Hole(u, z, U, H, H, E) /\ Pair(H, z, p, r)
    BY <1>4, <1>7, <2>1 DEF FreeBehind, Pair
  <2> QED  BY <2>2, <2>3, JoinHole
<1>9. x[p] = z[p] + z[r] /\ p \in DOMAIN x /\ nb <= x[p] /\ x[p] \in Nat
  <2>1. x[p] = z[p] + z[r] /\ p \in DOMAIN x
    BY <1>1, <1>4, <1>8 DEF Joined
  <2> QED  BY <1>4, <2>1 DEF FreeBehind
<1>10. n = IF x[p] - nb < 4 THEN set_inuse(k, p, x[p]) ELSE SplitOff(k, p, x[p], nb)
  BY <1>9 DEF extend_into_free, chunksize, MIN_CHUNK_SIZE
<1> HIDE DEF u, k, x
<1>11. /\ k.top = m.top /\ k.topsize = m.topsize /\ k.dv = m.dv /\ k.dvsize = m.dvsize
       /\ SameSystem(m, k) /\ k \in State
  BY <1>7, <1>8, SystemTrans DEF OnlyBins, OnlyChunks, SameTop, SameDv
<1>12. /\ m.top \in DOMAIN x \ (U \cup {p}) /\ x[m.top] = z[m.top]
       /\ \A a \in U : a \in DOMAIN x /\ x[a] = z[a]
  BY <1>1, <1>2, <1>3, <1>8 DEF Joined
<1>13. TopOK(k, x, U, {p}, E)
  BY <1>2, <1>11, <1>12 DEF TopOK
<1>14. DvOK(k, x, U, {p})
  BY <1>1, <1>3, <1>8, <1>11 DEF DvOK, Joined
<1>15. Work(k, x, U, {p}, {p}, E)
  BY <1>8, <1>13, <1>14 DEF Work
<1>16. m.top + m.topsize = E /\ k.top + k.topsize = E
  BY <1>2, <1>11
<1>17. CASE x[p] - nb < 4
  <2>1. n = set_inuse(k, p, x[p])
    BY <1>10, <1>17
  <2>2. x[p] \in size_t \ {0} /\ p + x[p] \in Addr
    BY <1>8, <1>9, HoleChunk
  <2>3. /\ OnlyChunks(k, n) /\ MarksUsed(k.chunk, n.chunk, p, x[p])
        /\ n.chunk[p].pinuse = k.chunk[p].pinuse
        /\ n.chunk[p].prev_foot = k.chunk[p].prev_foot
    BY <1>4, <1>11, <2>1, <2>2, SetInuseFacts
  <2>4. Hole(n, x, U \cup {p}, {}, {}, E)
    <3>1. p \in {p} /\ p + x[p] \in DOMAIN x
      BY <1>6, <1>8, <1>12
    <3>2. Hole(n, x, U \cup {p}, {p} \ {p}, {p} \ {p}, E)
      BY <1>8, <2>3, <3>1, HoleToUsed
    <3>3. {p} \ {p} = {}
      OBVIOUS
    <3> QED  BY <3>2, <3>3
  <2>5. /\ n.top = m.top /\ n.topsize = m.topsize /\ n.dv = m.dv /\ n.dvsize = m.dvsize
        /\ SameSystem(m, n)
    BY <1>11, <2>3, SystemTrans DEF OnlyChunks, SameTop, SameDv
  <2>6. TopOK(n, x, U \cup {p}, {}, E)
    BY <1>2, <1>12, <2>5 DEF TopOK
  <2>7. DvOK(n, x, U \cup {p}, {})
    BY <1>11, <1>14, <2>5 DEF DvOK
  <2>8. Work(n, x, U \cup {p}, {}, {}, E)
    BY <2>4, <2>6, <2>7 DEF Work
  <2>9. x[p] \in AtLeast(nb) /\ \A a \in U : x[a] = z[a]
    BY <1>9, <1>12 DEF AtLeast
  <2> QED  BY <1>16, <2>5, <2>8, <2>9, SettlesAtHeap
<1>18. CASE ~(x[p] - nb < 4)
  <2>1. n = SplitOff(k, p, x[p], nb) /\ nb + 4 <= x[p]
    BY <1>9, <1>10, <1>18
  <2>2. SettlesAt(k, x, n, U \cup {p}, U, p, {nb})
    BY <1>15, <2>1, SplitOffFacts
  <2>3. SameSystem(m, n)
    BY <1>11, <2>2, SystemTrans DEF SettlesAt
  <2>4. PICK y : /\ Heap(n, y, U \cup {p}) /\ n.top + n.topsize = k.top + k.topsize
                 /\ \A a \in U : y[a] = x[a]
                 /\ y[p] = nb
    BY <2>2 DEF SettlesAt
  <2>5. n.top + n.topsize = m.top + m.topsize
    BY <1>16, <2>4
  <2>6. \A a \in U : y[a] = z[a]
    BY <1>12, <2>4
  <2>7. y[p] \in AtLeast(nb)
    BY <2>4 DEF AtLeast
  <2>8. p \in U \cup {p}
    OBVIOUS
  <2> QED  BY <2>3, <2>4, <2>5, <2>6, <2>7, <2>8 DEF SettlesAt
<1> QED  BY <1>17, <1>18

(* realloc without moving the block.                                       *)
LEMMA TryReallocFacts ==
  ASSUME NEW m, NEW z, NEW U, NEW E, Work(m, z, U, {}, {}, E), NEW p \in U, NoRecord(m, p),
         NEW nb \in Nat, Even(nb), 4 <= nb,
         NEW r, r = try_realloc_chunk(m, p, nb)
  PROVE  r = Failure(m) \/ (r.mem = p /\ SettlesAt(m, z, r.m, U, U \ {p}, p, AtLeast(nb)))
<1> DEFINE V == U \ {p}
           s == z[p]
           next == p + z[p]
<1>1. /\ Work(m, z, V, {p}, {p}, E)
      /\ m.chunk[p].size = s /\ m.chunk[p].cinuse /\ m.chunk[next].pinuse
      /\ p \in DOMAIN z /\ next \in DOMAIN z
  BY OpenUsed
<1>2. Hole(m, z, U, {}, {}, E) /\ TopOK(m, z, U, {}, E) /\ DvOK(m, z, U, {})
  BY DEF Work
<1>3. p \in Nat /\ s \in Nat /\ s > 0 /\ m.least_addr <= p /\ NULL \notin DOMAIN z
  BY <1>1, <1>2, HoleChunk
<1>4. V \cup {p} = U
  OBVIOUS
<1>5. m.top \in DOMAIN z \ U /\ m.topsize = z[m.top]
  BY <1>2 DEF TopOK
<1>6. ok_address(m, p) /\ is_inuse(m, p) /\ p < next /\ pinuse(m, next) /\ chunksize(m, p) = s
  <2>1. ok_address(m, p)
    <3>1. m.least_addr \in Nat
      <4>1. m.least_addr \in Addr
        BY <1>2 DEF Hole, State
      <4> QED  BY <4>1, Small
    <3> QED  BY <1>3, <3>1 DEF ok_address
  <2>2. p < next
    BY <1>3
  <2> QED  BY <1>1, <2>1, <2>2 DEF is_inuse, pinuse, chunksize
<1>7. next \notin U => m.chunk[next].size = z[next] /\ ~m.chunk[next].cinuse
  <2>1. CASE next \notin U
    <3>1. next \in DOMAIN z \ (U \cup {})
      BY <1>1, <2>1
    <3> QED  BY <1>2, <3>1, HoleFree
  <2> QED  BY <2>1
<1>8. next \in U => m.chunk[next].cinuse
  BY <1>2, HoleNextUsed
<1>9. r = IF s >= nb
          THEN Result(IF s - nb >= 4 THEN SplitOff(m, p, s, nb) ELSE m, p)
          ELSE IF next = m.top
          THEN IF s + m.topsize > nb THEN Result(extend_into_top(m, p, s, nb), p)
               ELSE Failure(m)
          ELSE IF next = m.dv
          THEN IF s + m.dvsize >= nb THEN Result(extend_into_dv(m, p, s, nb), p)
               ELSE Failure(m)
          ELSE IF ~cinuse(m, next) /\ s + chunksize(m, next) >= nb
          THEN Result(extend_into_free(m, p, next, s, nb), p)
          ELSE Failure(m)
  BY <1>6 DEF try_realloc_chunk, MIN_CHUNK_SIZE
<1>10. \A k : Result(k, p).m = k /\ Result(k, p).mem = p
  BY DEF Result
<1> HIDE DEF V, s, next
<1>11. CASE s >= nb
  <2>1. CASE s - nb >= 4
    <3>1. r = Result(SplitOff(m, p, s, nb), p)
      BY <1>9, <1>11, <2>1
    <3>2. nb + 4 <= z[p]
      BY <1>3, <2>1 DEF s
    <3>3. SettlesAt(m, z, r.m, V \cup {p}, V, p, {nb})
      BY <1>1, <1>10, <3>1, <3>2, SplitOffFacts DEF s
    <3>4. {nb} \subseteq AtLeast(nb)
      BY DEF AtLeast
    <3>5. SettlesAt(m, z, r.m, U, V, p, AtLeast(nb))
      BY <1>4, <3>3, <3>4 DEF SettlesAt
    <3> QED  BY <1>10, <3>1, <3>5 DEF V
  <2>2. CASE ~(s - nb >= 4)
    <3>1. r = Result(m, p)
      BY <1>9, <1>11, <2>2
    <3>2. Heap(m, z, U)
      BY HeapWork
    <3>3. z[p] \in AtLeast(nb)
      BY <1>3, <1>11 DEF AtLeast, s
    <3>4. SettlesAt(m, z, m, U, U \ {p}, p, AtLeast(nb))
      BY <3>2, <3>3 DEF SettlesAt, SameSystem
    <3> QED  BY <1>10, <3>1, <3>4
  <2> QED  BY <2>1, <2>2
<1>12. CASE ~(s >= nb) /\ next = m.top
  <2>1. CASE s + m.topsize > nb
    <3>1. r = Result(extend_into_top(m, p, z[p], nb), p)
      BY <1>9, <1>12, <2>1 DEF s
    <3>2. TopBehind(m, z, p, nb)
      BY <1>3, <1>12, <2>1 DEF TopBehind, s, next
    <3>3. SettlesAt(m, z, r.m, V \cup {p}, V, p, {nb})
      BY <1>1, <1>10, <3>1, <3>2, ExtendTopFacts
    <3>4. {nb} \subseteq AtLeast(nb)
      BY DEF AtLeast
    <3>5. SettlesAt(m, z, r.m, U, V, p, AtLeast(nb))
      BY <1>4, <3>3, <3>4 DEF SettlesAt
    <3> QED  BY <1>10, <3>1, <3>5 DEF V
  <2>2. CASE ~(s + m.topsize > nb)
    BY <1>9, <1>12, <2>2
  <2> QED  BY <2>1, <2>2
<1>13. CASE ~(s >= nb) /\ next # m.top /\ next = m.dv
  <2>1. CASE s + m.dvsize >= nb
    <3>1. r = Result(extend_into_dv(m, p, z[p], nb), p)
      BY <1>9, <1>13, <2>1 DEF s
    <3>2. DvBehind(m, z, p, nb)
      <4>1. m.dv # NULL
        BY <1>1, <1>3, <1>13
      <4>2. m.dvsize \in Nat
        <5>1. m.dvsize \in size_t
          BY <1>2 DEF Hole, State
        <5> QED  BY <5>1, Small
      <4> QED  BY <1>3, <1>13, <2>1, <4>1, <4>2 DEF DvBehind, s, next
    <3>3. SettlesAt(m, z, r.m, V \cup {p}, V, p, AtLeast(nb))
      BY <1>1, <1>10, <3>1, <3>2, ExtendDvFacts
    <3> QED  BY <1>4, <1>10, <3>1, <3>3 DEF V
  <2>2. CASE ~(s + m.dvsize >= nb)
    BY <1>9, <1>13, <2>2
  <2> QED  BY <2>1, <2>2
<1>14. CASE ~(s >= nb) /\ next # m.top /\ next # m.dv
  <2>1. CASE ~cinuse(m, next) /\ s + chunksize(m, next) >= nb
    <3>1. r = Result(extend_into_free(m, p, next, z[p], nb), p)
      BY <1>9, <1>14, <2>1 DEF s
    <3>2. next \notin U /\ m.chunk[next].size = z[next]
      BY <1>7, <1>8, <2>1 DEF cinuse
    <3>3. z[next] \in Nat
      BY <1>1, <1>2, HoleChunk
    <3>4. FreeBehind(m, z, V, p, next, nb)
      <4>1. p + z[p] = next /\ next \in DOMAIN z \ V
        BY <1>1, <3>2 DEF next, V
      <4>2. z[p] < nb /\ nb <= z[p] + z[next]
        BY <1>3, <1>14, <2>1, <3>2, <3>3 DEF s, chunksize
      <4> QED  BY <1>14, <4>1, <4>2 DEF FreeBehind
    <3>5. SettlesAt(m, z, r.m, V \cup {p}, V, p, AtLeast(nb))
      BY <1>1, <1>10, <3>1, <3>2, <3>4, ExtendFreeFacts
    <3> QED  BY <1>4, <1>10, <3>1, <3>5 DEF V
  <2>2. CASE ~(~cinuse(m, next) /\ s + chunksize(m, next) >= nb)
    BY <1>9, <1>14, <2>2
  <2> QED  BY <2>1, <2>2
<1> QED  BY <1>11, <1>12, <1>13, <1>14

-------------------------------------------------------------------------------
LeaderOf(z, p0, p) ==
    /\ p \in Nat /\ p0 + 4 <= p /\ Even(p) /\ p + 4 <= p0 + z[p0]

(* memalign: what is in front of the aligned chunk p is freed.             *)
LEMMA GiveBackLeaderFacts ==
  ASSUME NEW m, NEW z, NEW U, NEW E, Work(m, z, U, {}, {}, E), NEW p0 \in U, NoRecord(m, p0),
         NEW p, LeaderOf(z, p0, p), NEW size, size = z[p0] - (p - p0),
         NEW n, n = dispose_chunk(set_inuse(set_inuse(m, p, size), p0, p - p0), p0, p - p0)
  PROVE  p \notin U /\ SettlesAt(m, z, n, (U \ {p0}) \cup {p}, U \ {p0}, p, {size})
<1> DEFINE V == U \ {p0}
           k == p - p0
           y == Cut(z, p0, k)
           i == set_inuse(m, p, size)
           j == set_inuse(i, p0, k)
<1>1. /\ Work(m, z, V, {p0}, {p0}, E) /\ p0 \in DOMAIN z /\ p0 + z[p0] \in DOMAIN z
  BY OpenUsed
<1>2. /\ Hole(m, z, V, {p0}, {p0}, E) /\ TopOK(m, z, V, {p0}, E) /\ DvOK(m, z, V, {p0})
      /\ m \in State /\ V \subseteq DOMAIN z
  BY <1>1 DEF Work, Hole
<1>3. p0 \in Nat /\ z[p0] \in Nat /\ Even(p0) /\ p0 + z[p0] \in Addr /\ NULL \notin DOMAIN z
      /\ z[p0] \in size_t /\ p0 \in Addr
  BY <1>1, <1>2, HoleChunk
<1>4. /\ k \in Nat /\ 4 <= k /\ 0 < k /\ k < z[p0] /\ z[p0] - k >= 4 /\ p0 + k = p
      /\ size = z[p0] - k /\ p + size = p0 + z[p0] /\ size \in Nat /\ p \in Nat
  BY <1>3 DEF LeaderOf
<1>5. Even(k)
  <2>1. p \in Int /\ p0 \in Int /\ Even(p)
    BY <1>3 DEF LeaderOf
  <2>2. Even(p0) <=> Even(p - p0)
    BY <2>1, EvenSum
  <2> QED  BY <1>3, <2>2
<1>6. n = dispose_chunk(j, p0, k)
  OBVIOUS
<1>7. /\ size \in size_t \ {0} /\ k \in size_t \ {0} /\ p \in Addr /\ p0 + k \in Addr
      /\ p + size \in Addr
  BY <1>3, <1>4, Small
<1> HIDE DEF y, i, j, k, V
<1>8. IsCut(y, z, p0, k, p)
  <2>1. IsCut(Cut(z, p0, k), z, p0, k, p0 + k)
    BY <1>1, <1>2, <1>4, CutOne
  <2> QED  BY <1>4, <2>1 DEF y
<1>9. /\ DOMAIN y = DOMAIN z \cup {p} /\ p \notin DOMAIN z
      /\ y[p0] = k /\ y[p] = size
      /\ \A a \in DOMAIN z : a # p0 => y[a] = z[a]
  BY <1>4, <1>8 DEF IsCut
<1>10. Hole(m, y, V, {p0, p}, {p0, p}, E)
  <2>1. PICK H : H = {p0}
    OBVIOUS
  <2>2. Hole(m, z, V, H, H, E) /\ p0 \in H
    BY <1>2, <2>1
  <2>3. Hole(m, Cut(z, p0, k), V, H \cup {p0 + k}, H \cup {p0 + k}, E)
    BY <1>4, <1>5, <2>2, HoleCut
  <2>4. H \cup {p0 + k} = {p0, p}
    BY <1>4, <2>1
  <2> QED  BY <2>3, <2>4 DEF y
<1>11. p # p0
  BY <1>1, <1>9
<1>12. Hole(i, y, V \cup {p}, {p0}, {p0}, E) /\ OnlyChunks(m, i)
  <2>1. /\ OnlyChunks(m, i) /\ MarksUsed(m.chunk, i.chunk, p, size)
        /\ i.chunk[p].pinuse = m.chunk[p].pinuse
        /\ i.chunk[p].prev_foot = m.chunk[p].prev_foot
    BY <1>2, <1>7, SetInuseFacts DEF i
  <2>2. PICK H : H = {p0, p}
    OBVIOUS
  <2>3. Hole(m, y, V, H, H, E) /\ p \in H /\ p + y[p] \in DOMAIN y
    BY <1>1, <1>4, <1>9, <1>10, <2>2
  <2>4. MarksUsed(m.chunk, i.chunk, p, y[p])
    BY <1>9, <2>1
  <2>5. Hole(i, y, V \cup {p}, H \ {p}, H \ {p}, E)
    BY <2>1, <2>3, <2>4, HoleToUsed
  <2>6. H \ {p} = {p0}
    BY <1>11, <2>2
  <2> QED  BY <2>1, <2>5, <2>6
<1>13. /\ OnlyChunks(i, j) /\ MarksUsed(i.chunk, j.chunk, p0, k)
       /\ j.chunk[p0].pinuse = i.chunk[p0].pinuse
       /\ j.chunk[p0].prev_foot = i.chunk[p0].prev_foot
  <2>1. i \in State
    BY <1>12 DEF OnlyChunks
  <2> QED  BY <1>3, <1>7, <2>1, SetInuseFacts DEF j
<1>14. Hole(j, y, V \cup {p, p0}, {}, {}, E)
  <2>1. p0 \in {p0} /\ p0 + y[p0] \in DOMAIN y
    BY <1>4, <1>9
  <2>2. MarksUsed(i.chunk, j.chunk, p0, y[p0])
    BY <1>9, <1>13
  <2>3. Hole(j, y, (V \cup {p}) \cup {p0}, {p0} \ {p0}, {p0} \ {p0}, E)
    BY <1>12, <1>13, <2>1, <2>2, HoleToUsed
  <2>4. (V \cup {p}) \cup {p0} = V \cup {p, p0} /\ {p0} \ {p0} = {}
    OBVIOUS
  <2> QED  BY <2>3, <2>4
<1>15. OnlyChunks(m, j)
  BY <1>12, <1>13, HeaderTrans
<1>16. j.top = m.top /\ j.topsize = m.topsize /\ j.dv = m.dv /\ j.dvsize = m.dvsize
       /\ SameSystem(m, j) /\ j.seg = m.seg
  BY <1>15 DEF OnlyChunks, SameTop, SameDv, SameSystem
<1>17. Hole(j, y, V \cup {p}, {p0}, {p0}, E)
  <2>1. p0 \in V \cup {p, p0} /\ \A a \in DOMAIN j.seg \ {1} : j.seg[a].record # p0
    BY <1>16 DEF NoRecord
  <2>2. Hole(j, y, (V \cup {p, p0}) \ {p0}, {} \cup {p0}, {} \cup {p0}, E)
    BY <1>14, <2>1, HoleUsed
  <2>3. (V \cup {p, p0}) \ {p0} = V \cup {p} /\ {} \cup {p0} = {p0}
    BY <1>11 DEF V
  <2> QED  BY <2>2, <2>3
<1>18. m.top \in DOMAIN z \ (V \cup {p0}) /\ m.top + z[m.top] = E /\ m.topsize = z[m.top]
  BY <1>2 DEF TopOK
<1>19. TopOK(j, y, V \cup {p}, {p0}, E)
  BY <1>9, <1>16, <1>18 DEF TopOK
<1>20. DvOK(j, y, V \cup {p}, {p0})
  BY <1>2, <1>9, <1>16 DEF DvOK
<1>21. j.chunk[p0 + y[p0]].pinuse
  BY <1>9, <1>13 DEF MarksUsed
<1>22. n = dispose_chunk(j, p0, y[p0])
  BY <1>6, <1>9
<1>23. Settles(j, y, n, V \cup {p}, V \cup {p})
  BY <1>17, <1>19, <1>20, <1>21, <1>22, DisposeFacts
<1>24. y[p] \in {size} /\ p \in V \cup {p} /\ V \subseteq V \cup {p}
       /\ \A a \in V : y[a] = z[a]
  BY <1>2, <1>9 DEF V
<1>25. SettlesAt(m, z, n, V \cup {p}, V, p, {size})
  BY <1>16, <1>23, <1>24, SettlesAtFrom
<1>26. p \notin U
  BY <1>2, <1>9, <1>11 DEF V
<1> QED  BY <1>25, <1>26 DEF V

(* What is too much of a chunk is freed,                                   *)
LEMMA SplitUsedFacts ==
  ASSUME NEW m, NEW z, NEW U, NEW E, Work(m, z, U, {}, {}, E), NEW p \in U, NoRecord(m, p),
         NEW nb \in Nat, Even(nb), 4 <= nb, nb + 4 <= z[p],
         NEW n, n = SplitOff(m, p, z[p], nb)
  PROVE  SettlesAt(m, z, n, U, U \ {p}, p, {nb})
<1>1. Work(m, z, U \ {p}, {p}, {p}, E)
  BY OpenUsed
<1>2. SettlesAt(m, z, n, (U \ {p}) \cup {p}, U \ {p}, p, {nb})
  BY <1>1, SplitOffFacts
<1>3. (U \ {p}) \cup {p} = U
  OBVIOUS
<1> QED  BY <1>2, <1>3

(* One change after another. *)
LEMMA SettlesAtAgain ==
  ASSUME NEW m, NEW z, NEW k, NEW n, NEW V, NEW W, NEW p, NEW S, NEW T,
         SettlesAt(m, z, k, V, W, p, S), W \subseteq V \ {p},
         \A y : Heap(k, y, V) /\ y[p] \in S => SettlesAt(k, y, n, V, V \ {p}, p, T)
  PROVE  SettlesAt(m, z, n, V, W, p, T)
<1>1. PICK y : /\ Heap(k, y, V) /\ k.top + k.topsize = m.top + m.topsize
               /\ \A a \in W : y[a] = z[a]
               /\ p \in V /\ y[p] \in S
  BY DEF SettlesAt
<1>2. SettlesAt(k, y, n, V, V \ {p}, p, T)
  BY <1>1
<1>3. PICK x : /\ Heap(n, x, V) /\ n.top + n.topsize = k.top + k.topsize
               /\ \A a \in V \ {p} : x[a] = y[a]
               /\ x[p] \in T
  BY <1>2 DEF SettlesAt
<1>4. SameSystem(m, n)
  BY <1>2, SystemTrans DEF SettlesAt
<1>5. \A a \in W : x[a] = z[a]
  BY <1>1, <1>3
<1>6. n.top + n.topsize = m.top + m.topsize
  BY <1>1, <1>3
<1> QED  BY <1>1, <1>3, <1>4, <1>5, <1>6 DEF SettlesAt

TrailerOf(z, p, size, nb) == z[p] = size /\ size \in Nat /\ nb <= size

(* which is done only when there is enough of it to free. *)
LEMMA GiveBackTrailerFacts ==
  ASSUME NEW m, NEW z, NEW U, NEW E, Work(m, z, U, {}, {}, E), NEW p \in U, NoRecord(m, p),
         NEW nb \in Nat, Even(nb), 4 <= nb, NEW size, TrailerOf(z, p, size, nb),
         NEW r, r = GiveBackTrailer(m, p, size, nb)
  PROVE  r.mem = chunk2mem(p) /\ SettlesAt(m, z, r.m, U, U \ {p}, p, AtLeast(nb))
<1>1. r.mem = chunk2mem(p)
  BY DEF GiveBackTrailer, Result
<1>2. CASE size > nb + 4
  <2>1. r.m = SplitOff(m, p, z[p], nb) /\ nb + 4 <= z[p]
    BY <1>2 DEF GiveBackTrailer, Result, TrailerOf, MIN_CHUNK_SIZE
  <2>2. SettlesAt(m, z, r.m, U, U \ {p}, p, {nb})
    BY <2>1, SplitUsedFacts
  <2>3. {nb} \subseteq AtLeast(nb)
    BY DEF AtLeast
  <2>4. SettlesAt(m, z, r.m, U, U \ {p}, p, AtLeast(nb))
    BY <2>2, <2>3 DEF SettlesAt
  <2> QED  BY <1>1, <2>4
<1>3. CASE ~(size > nb + 4)
  <2>1. r.m = m
    BY <1>3 DEF GiveBackTrailer, Result, MIN_CHUNK_SIZE
  <2>2. Heap(m, z, U)
    BY HeapWork
  <2>3. z[p] \in AtLeast(nb)
    BY DEF AtLeast, TrailerOf
  <2>4. SettlesAt(m, z, m, U, U \ {p}, p, AtLeast(nb))
    BY <2>2, <2>3 DEF SettlesAt, SameSystem
  <2> QED  BY <1>1, <2>1, <2>4
<1> QED  BY <1>2, <1>3

-------------------------------------------------------------------------------
(* What init_top leaves alone.                                             *)
SameSettings(m, n) ==
    /\ n.least_addr = m.least_addr
    /\ n.footprint = m.footprint /\ n.max_footprint = m.max_footprint
    /\ n.footprint_limit = m.footprint_limit /\ n.noncontiguous = m.noncontiguous
    /\ n.seg = m.seg /\ n.granularity = m.granularity
    /\ n.trim_threshold = m.trim_threshold /\ n.brk = m.brk /\ n.aborted = m.aborted

FootHeader == Header(TOP_FOOT_SIZE, FALSE, FALSE)
WithTrim(m, t) == [m EXCEPT !.trim_check = t]

(* Only the trim check changes. *)
LEMMA WithTrimFacts ==
  ASSUME NEW m \in State, NEW t \in size_t
  PROVE  /\ WithTrim(m, t) \in State /\ WithTrim(m, t).chunk = m.chunk
         /\ SameSettings(m, WithTrim(m, t)) /\ SameBins(m, WithTrim(m, t))
         /\ SameDv(m, WithTrim(m, t)) /\ SameTop(m, WithTrim(m, t))
BY DEF WithTrim, State, SameSettings, SameBins, SameDv, SameTop

(* init_top writes top's header and foot, at the aligned address. *)
LEMMA InitTopFacts ==
  ASSUME NEW m \in State, NEW p, NEW psize, NEW q, NEW s,
         q = align_as_chunk(p), s = psize - align_offset(p),
         q \in Addr, s \in size_t \ {0}, q + s \in Addr, m.top + m.topsize \in Addr,
         NEW n, n = init_top(m, p, psize)
  PROVE  /\ n \in State /\ SameSettings(m, n) /\ SameBins(m, n) /\ SameDv(m, n)
         /\ n.top = q /\ n.topsize = s
         /\ n.chunk[q] = FreeHeader(s) /\ n.chunk[q + s] = FootHeader
         /\ \A a \in Addr \ {q, q + s, m.top + m.topsize} : n.chunk[a] = m.chunk[a]
<1> DEFINE k == IF is_initialized(m) THEN Erase(m, m.top + m.topsize) ELSE m
           i == set_top(k, q, s)
           h == [i.chunk EXCEPT ![q + s] = FootHeader]
           j == WithChunks(i, h)
<1>1. /\ k \in State /\ SameSettings(m, k) /\ SameBins(m, k) /\ SameDv(m, k)
      /\ k.chunk \in [Addr -> HeaderSet] /\ k.trim_threshold = m.trim_threshold
      /\ \A a \in Addr \ {m.top + m.topsize} : k.chunk[a] = m.chunk[a]
  <2>1. CASE is_initialized(m)
    <3>1. k = Erase(m, m.top + m.topsize)
      BY <2>1
    <3>2. /\ OnlyChunks(m, k) /\ k.chunk \in [Addr -> HeaderSet]
          /\ \A a \in Addr \ {m.top + m.topsize} : k.chunk[a] = m.chunk[a]
      BY <3>1, EraseFacts
    <3> HIDE DEF k
    <3> QED  BY <3>2 DEF OnlyChunks, SameSystem, SameSettings
  <2>2. CASE ~is_initialized(m)
    <3>1. k = m
      BY <2>2
    <3> HIDE DEF k
    <3> QED  BY <3>1 DEF State, SameSettings, SameBins, SameDv
  <2> QED  BY <2>1, <2>2
<1>2. n = WithTrim(j, m.trim_threshold)
  BY DEF init_top, WithTrim, WithChunks, FootHeader, set_top
<1> HIDE DEF k
<1>3. /\ i \in State /\ SameSystem(k, i) /\ SameBins(k, i) /\ SameDv(k, i)
      /\ i.top = q /\ i.topsize = s /\ i.chunk \in [Addr -> HeaderSet]
      /\ i.chunk[q] = FreeHeader(s)
      /\ \A a \in Addr \ {q} : i.chunk[a] = k.chunk[a]
  BY <1>1, SetTopFacts
<1> HIDE DEF i
<1>4. FootHeader \in HeaderSet
  <2>1. SizeRange \in Nat /\ SizeRange >= 64
    BY SizeFacts
  <2>2. TOP_FOOT_SIZE \in size_t /\ 0 \in size_t
    BY <2>1, Small
  <2> QED  BY <2>2 DEF FootHeader, Header, HeaderSet
<1>5. q + s # q
  BY Small
<1>6. /\ h \in [Addr -> HeaderSet] /\ h[q + s] = FootHeader /\ h[q] = FreeHeader(s)
      /\ \A a \in Addr \ {q, q + s} : h[a] = i.chunk[a]
  BY <1>3, <1>4, <1>5
<1> HIDE DEF h
<1>7. /\ j \in State /\ j.chunk = h /\ SameSystem(i, j) /\ SameBins(i, j) /\ SameDv(i, j)
      /\ SameTop(i, j)
  BY <1>3, <1>6, WithChunksFacts
<1> HIDE DEF j
<1>8. m.trim_threshold \in size_t
  BY DEF State
<1>9. /\ n \in State /\ n.chunk = h /\ SameSettings(j, n) /\ SameBins(j, n) /\ SameDv(j, n)
      /\ SameTop(j, n)
  BY <1>2, <1>7, <1>8, WithTrimFacts
<1>10. SameSettings(m, n)
  BY <1>1, <1>3, <1>7, <1>9 DEF SameSettings, SameSystem
<1>11. SameBins(m, n)
  BY <1>1, <1>3, <1>7, <1>9 DEF SameBins
<1>12. SameDv(m, n)
  BY <1>1, <1>3, <1>7, <1>9 DEF SameDv
<1>13. n.top = q /\ n.topsize = s
  BY <1>3, <1>7, <1>9 DEF SameTop
<1>14. \A a \in Addr \ {q, q + s, m.top + m.topsize} : n.chunk[a] = m.chunk[a]
  BY <1>1, <1>3, <1>6, <1>9
<1> QED  BY <1>6, <1>9, <1>10, <1>11, <1>12, <1>13, <1>14

(* top is in the first segment, and nothing is above it.                   *)
LEMMA TopHighest ==
  ASSUME NEW seg, NEW E, NEW lo, NEW hi, Segs(seg, E, lo, hi), NEW z, Layout(z, seg, E),
         NEW t \in DOMAIN z, t + z[t] = E
  PROVE  /\ t \in Nat /\ t < E /\ seg[1].base <= t
         /\ \A a \in DOMAIN z : a <= t /\ (a # t => a + z[a] <= t)
         /\ \A i \in DOMAIN seg \ {1} : /\ EndOf(seg[i]) <= seg[1].base
                                        /\ stop(seg, E, i) + 2 <= t
<1>1. /\ t \in Nat /\ z[t] \in Nat /\ z[t] > 0 /\ t < E /\ E \in Nat
  BY DEF Layout, Segs
<1>2. \A i \in DOMAIN seg : i \in Nat /\ i >= 1
  BY SegTyped
<1>3. 1 \in DOMAIN seg /\ E + TOP_FOOT_SIZE = EndOf(seg[1]) /\ stop(seg, E, 1) = E
  BY DEF Segs, stop
<1>4. \A i \in DOMAIN seg \ {1} : EndOf(seg[i]) <= seg[1].base
  BY <1>2, <1>3 DEF Segs
<1>5. seg[1].base \in Nat /\ seg[1].base < E
  <2>1. /\ seg[1].base \in Nat /\ first(seg, 1) \in Nat /\ seg[1].base <= first(seg, 1)
    BY <1>3, SegTyped
  <2>2. first(seg, 1) < E
    BY <1>3 DEF Segs
  <2> QED  BY <1>1, <2>1, <2>2
<1>6. seg[1].base <= t
  <2>1. PICK i \in DOMAIN seg : seg[i].base <= t /\ t + z[t] <= stop(seg, E, i)
    BY DEF Layout
  <2>2. CASE i = 1
    BY <2>1, <2>2
  <2>3. CASE i # 1
    <3>1. stop(seg, E, i) \in Nat /\ stop(seg, E, i) + 2 <= EndOf(seg[i]) /\ EndOf(seg[i]) \in Nat
      BY SegTyped, Small
    <3> QED  BY <1>1, <1>4, <1>5, <2>1, <2>3, <3>1
  <2> QED  BY <2>2, <2>3
<1>7. \A i \in DOMAIN seg \ {1} : stop(seg, E, i) + 2 <= t
  <2> SUFFICES ASSUME NEW i \in DOMAIN seg \ {1} PROVE stop(seg, E, i) + 2 <= t
    OBVIOUS
  <2>1. stop(seg, E, i) \in Nat /\ stop(seg, E, i) + 2 <= EndOf(seg[i]) /\ EndOf(seg[i]) \in Nat
    BY SegTyped, Small
  <2> QED  BY <1>1, <1>4, <1>5, <1>6, <2>1
<1>8. \A a \in DOMAIN z : a <= t /\ (a # t => a + z[a] <= t)
  <2> SUFFICES ASSUME NEW a \in DOMAIN z PROVE a <= t /\ (a # t => a + z[a] <= t)
    OBVIOUS
  <2>1. a \in Nat /\ z[a] \in Nat /\ z[a] > 0
    BY DEF Layout
  <2>2. PICK i \in DOMAIN seg : seg[i].base <= a /\ a + z[a] <= stop(seg, E, i)
    BY DEF Layout
  <2>3. CASE i # 1
    <3>1. stop(seg, E, i) \in Nat
      BY SegTyped
    <3> QED  BY <1>1, <1>7, <2>1, <2>2, <2>3, <3>1
  <2>4. CASE i = 1
    <3>1. a + z[a] <= E
      BY <1>3, <2>2, <2>4
    <3>2. (t <= a \/ a + z[a] <= t) /\ (a <= t \/ t + z[t] <= a)
      BY DEF Layout
    <3>3. a <= t
      BY <1>1, <2>1, <3>1, <3>2
    <3>4. CASE a # t
      BY <1>1, <2>1, <3>2, <3>3, <3>4
    <3> QED  BY <3>3, <3>4
  <2> QED  BY <2>3, <2>4
<1> QED  BY <1>1, <1>4, <1>6, <1>7, <1>8

(* The segment that holds top is the first. *)
LEMMA HoldingTop ==
  ASSUME NEW m, m.seg \in Seq(SegmentSet), 1 \in DOMAIN m.seg, NEW a \in Nat,
         m.seg[1].base <= a, a < EndOf(m.seg[1])
  PROVE  segment_holding(m, a) = 1
<1> DEFINE I == {i \in 1 .. Len(m.seg) : a >= m.seg[i].base /\ a < m.seg[i].base + m.seg[i].size}
<1>1. segment_holding(m, a) = IF I # {} THEN Min(I) ELSE 0
  BY DEF segment_holding, SelectInSeq
<1>2. DOMAIN m.seg = 1 .. Len(m.seg) /\ Len(m.seg) \in Nat
  OBVIOUS
<1>3. m.seg[1] \in SegmentSet
  OBVIOUS
<1>4. m.seg[1].base \in Nat
  BY <1>3, Small DEF SegmentSet
<1>5. 1 \in I
  BY <1>2, <1>4 DEF EndOf
<1>6. I \in SUBSET Nat /\ I # {} /\ \A i \in I : i >= 1
  BY <1>2, <1>5
<1>7. Min(I) \in I /\ Min(I) <= 1
  BY <1>5, <1>6, MinFacts
<1>8. Min(I) = 1
  <2> HIDE DEF I
  <2>1. Min(I) \in Nat /\ Min(I) >= 1
    BY <1>6, <1>7
  <2> QED  BY <1>7, <2>1
<1> QED  BY <1>1, <1>6, <1>8

-------------------------------------------------------------------------------
(* The segment of top gets another size, and so does the chunk at t.       *)
Resegmented(seg, seg2) ==
    /\ DOMAIN seg2 = DOMAIN seg
    /\ seg2[1].base = seg[1].base /\ seg2[1].record = seg[1].record
    /\ \A i \in DOMAIN seg \ {1} : seg2[i] = seg[i]

TopSize(z, y, t, s) ==
    DOMAIN y = DOMAIN z /\ y[t] = s /\ \A a \in DOMAIN z : a # t => y[a] = z[a]

(* Only the first segment ends elsewhere. *)
LEMMA ResegmentedFacts ==
  ASSUME NEW seg, NEW seg2, Resegmented(seg, seg2), NEW E, NEW F, 1 \in DOMAIN seg
  PROVE  /\ stop(seg2, F, 1) = F /\ \A i \in DOMAIN seg \ {1} : stop(seg2, F, i) = stop(seg, E, i)
         /\ \A i \in DOMAIN seg : seg2[i].base = seg[i].base /\ first(seg2, i) = first(seg, i)
                                  /\ seg2[i].record = seg[i].record
         /\ \A i \in DOMAIN seg \ {1} : EndOf(seg2[i]) = EndOf(seg[i])
<1>1. \A i \in DOMAIN seg : seg2[i].base = seg[i].base /\ seg2[i].record = seg[i].record
  BY DEF Resegmented
<1>2. \A i \in DOMAIN seg \ {1} : EndOf(seg2[i]) = EndOf(seg[i])
  BY DEF Resegmented
<1> QED  BY <1>1, <1>2 DEF stop, first

(* The segments are in order still, *)
LEMMA SegsResized ==
  ASSUME NEW seg, NEW E, NEW lo, NEW hi, Segs(seg, E, lo, hi), NEW z, Layout(z, seg, E),
         NEW t \in DOMAIN z, t + z[t] = E, NEW s \in Nat \ {0}, NEW F, F = t + s,
         NEW seg2, seg2 \in Seq(SegmentSet), Resegmented(seg, seg2), F + TOP_FOOT_SIZE = EndOf(seg2[1]),
         NEW hi2 \in Addr, F + TOP_FOOT_SIZE <= hi2
  PROVE  Segs(seg2, F, lo, hi2)
<1>1. /\ t \in Nat /\ seg[1].base <= t /\ F \in Nat /\ t < F /\ Even(t)
      /\ \A i \in DOMAIN seg \ {1} : EndOf(seg[i]) <= seg[1].base
  <2>1. /\ t \in Nat /\ seg[1].base <= t
        /\ \A i \in DOMAIN seg \ {1} : EndOf(seg[i]) <= seg[1].base
    BY TopHighest
  <2>2. Even(t)
    BY DEF Layout
  <2> QED  BY <2>1, <2>2
<1>2. 1 \in DOMAIN seg /\ seg[1].record = NULL /\ lo \in Addr \ {0} /\ E \in Nat
  BY DEF Segs
<1>3. /\ stop(seg2, F, 1) = F /\ \A i \in DOMAIN seg \ {1} : stop(seg2, F, i) = stop(seg, E, i)
      /\ \A i \in DOMAIN seg : seg2[i].base = seg[i].base /\ first(seg2, i) = first(seg, i)
                               /\ seg2[i].record = seg[i].record
      /\ \A i \in DOMAIN seg \ {1} : EndOf(seg2[i]) = EndOf(seg[i])
      /\ DOMAIN seg2 = DOMAIN seg
  BY <1>2, ResegmentedFacts DEF Resegmented
<1>4. \A i \in DOMAIN seg : /\ seg[i].base \in Nat /\ first(seg, i) \in Nat
                            /\ EndOf(seg[i]) \in Nat
                            /\ \A a \in Nat : Even(a) /\ seg[i].base <= a => first(seg, i) <= a
  BY SegTyped, Small
<1>5. TOP_FOOT_SIZE = 10 /\ hi2 \in Nat
  BY Small
<1>6. ASSUME NEW i \in DOMAIN seg
      PROVE  /\ lo <= seg2[i].base /\ EndOf(seg2[i]) <= hi2
             /\ first(seg2, i) < stop(seg2, F, i)
  <2>1. lo <= seg[i].base /\ first(seg, i) < stop(seg, E, i)
    BY DEF Segs
  <2>2. CASE i = 1
    <3>1. first(seg, 1) <= t
      BY <1>1, <1>2, <1>4
    <3>2. first(seg2, 1) < stop(seg2, F, 1)
      BY <1>1, <1>2, <1>3, <1>4, <3>1
    <3> QED  BY <1>2, <1>3, <1>5, <2>1, <2>2, <3>2
  <2>3. CASE i # 1
    <3>1. EndOf(seg[i]) <= seg[1].base
      BY <1>1, <2>3
    <3>2. EndOf(seg[i]) <= hi2
      BY <1>1, <1>2, <1>4, <1>5, <3>1
    <3> QED  BY <1>3, <2>1, <2>3, <3>2
  <2> QED  BY <2>2, <2>3
<1>7. \A i \in DOMAIN seg \ {1} : stop(seg2, F, i) + 2 <= EndOf(seg2[i])
  BY <1>3 DEF Segs
<1>8. \A i, j \in DOMAIN seg : i < j => EndOf(seg2[j]) <= seg2[i].base
  <2> SUFFICES ASSUME NEW i \in DOMAIN seg, NEW j \in DOMAIN seg, i < j
               PROVE  EndOf(seg2[j]) <= seg2[i].base
    OBVIOUS
  <2>1. i \in Nat /\ i >= 1 /\ j \in Nat
    BY SegTyped
  <2>2. j # 1
    BY <2>1
  <2> QED  BY <1>3, <2>2 DEF Segs
<1> QED  BY <1>1, <1>2, <1>3, <1>6, <1>7, <1>8 DEF Segs

(* and the chunks are a layout of them. *)
LEMMA LayoutResized ==
  ASSUME NEW seg, NEW E, NEW lo, NEW hi, Segs(seg, E, lo, hi), NEW z, Layout(z, seg, E),
         NEW t \in DOMAIN z, t + z[t] = E, NEW s \in Nat \ {0}, NEW F, F = t + s,
         NEW seg2, Resegmented(seg, seg2), NEW y, TopSize(z, y, t, s)
  PROVE  Layout(y, seg2, F)
<1>1. /\ t \in Nat /\ F \in Nat /\ t < F /\ E \in Nat /\ t < E
      /\ \A a \in DOMAIN z : a <= t /\ (a # t => a + z[a] <= t)
      /\ \A i \in DOMAIN seg \ {1} : stop(seg, E, i) + 2 <= t
  BY TopHighest DEF Segs
<1>2. 1 \in DOMAIN seg /\ stop(seg, E, 1) = E
  BY DEF Segs, stop
<1>3. /\ stop(seg2, F, 1) = F /\ \A i \in DOMAIN seg \ {1} : stop(seg2, F, i) = stop(seg, E, i)
      /\ \A i \in DOMAIN seg : seg2[i].base = seg[i].base /\ first(seg2, i) = first(seg, i)
      /\ DOMAIN seg2 = DOMAIN seg
  BY <1>2, ResegmentedFacts DEF Resegmented
<1>4. \A i \in DOMAIN seg : stop(seg, E, i) \in Nat
  BY SegTyped
<1>5. /\ DOMAIN y = DOMAIN z /\ y[t] = s /\ \A a \in DOMAIN z : a # t => y[a] = z[a]
  BY DEF TopSize
<1>6. \A a \in DOMAIN z : a \in Nat /\ Even(a) /\ z[a] \in Nat /\ z[a] > 0
  BY DEF Layout
<1>7. \A b : b \in Stops(seg2, F) => b = F \/ (b \in Stops(seg, E) /\ b \in Nat /\ b + 2 <= t)
  BY <1>1, <1>3, <1>4 DEF Stops
<1>8. \A a \in DOMAIN y : a \in Nat /\ Even(a) /\ y[a] \in Nat /\ y[a] > 0
  BY <1>5, <1>6
<1>9. \A a \in DOMAIN y : a \notin Stops(seg2, F)
  <2> SUFFICES ASSUME NEW a \in DOMAIN z PROVE a \notin Stops(seg2, F)
    BY <1>5
  <2>1. a # F /\ a \notin Stops(seg, E)
    BY <1>1, <1>6 DEF Layout
  <2> QED  BY <1>7, <2>1
<1>10. \A a \in DOMAIN y : a + y[a] \in DOMAIN y \cup Stops(seg2, F)
  <2> SUFFICES ASSUME NEW a \in DOMAIN z PROVE a + y[a] \in DOMAIN z \cup Stops(seg2, F)
    BY <1>5
  <2>1. CASE a = t
    BY <1>2, <1>3, <1>5, <2>1 DEF Stops
  <2>2. CASE a # t
    <3>1. a + z[a] \in DOMAIN z \cup Stops(seg, E) /\ a + z[a] # E
      <4>1. a + z[a] <= t /\ a + z[a] \in Nat
        BY <1>1, <1>6, <2>2
      <4> QED  BY <1>1, <4>1 DEF Layout
    <3>2. CASE a + z[a] \in Stops(seg, E)
      <4>1. PICK i \in DOMAIN seg : a + z[a] = stop(seg, E, i)
        BY <3>2 DEF Stops
      <4>2. i # 1
        BY <1>2, <3>1, <4>1
      <4>3. a + z[a] = stop(seg2, F, i)
        BY <1>3, <4>1, <4>2
      <4> QED  BY <1>3, <1>5, <2>2, <4>3 DEF Stops
    <3> QED  BY <1>5, <2>2, <3>1, <3>2
  <2> QED  BY <2>1, <2>2
<1>11. \A a \in DOMAIN y : \A b \in DOMAIN y \cup Stops(seg2, F) : b <= a \/ a + y[a] <= b
  <2> SUFFICES ASSUME NEW a \in DOMAIN z, NEW b \in DOMAIN z \cup Stops(seg2, F)
               PROVE  b <= a \/ a + y[a] <= b
    BY <1>5
  <2>1. CASE a = t
    <3>1. b \in Nat /\ (b <= t \/ b = F)
      BY <1>1, <1>6, <1>7
    <3> QED  BY <1>1, <1>5, <2>1, <3>1
  <2>2. CASE a # t
    <3>1. y[a] = z[a] /\ a \in Nat /\ z[a] \in Nat /\ a + z[a] <= t
      BY <1>1, <1>5, <1>6, <2>2
    <3>2. CASE b = F
      BY <1>1, <3>1, <3>2
    <3>3. CASE b # F
      <4>1. b \in DOMAIN z \cup Stops(seg, E)
        BY <1>7, <3>3
      <4> QED  BY <3>1, <4>1 DEF Layout
    <3> QED  BY <3>2, <3>3
  <2> QED  BY <2>1, <2>2
<1>12. \A a \in DOMAIN y : \E i \in DOMAIN seg2 :
           seg2[i].base <= a /\ a + y[a] <= stop(seg2, F, i)
  <2> SUFFICES ASSUME NEW a \in DOMAIN z
               PROVE  \E i \in DOMAIN seg : seg[i].base <= a /\ a + y[a] <= stop(seg2, F, i)
    BY <1>3, <1>5
  <2>1. PICK i \in DOMAIN seg : seg[i].base <= a /\ a + z[a] <= stop(seg, E, i)
    BY DEF Layout
  <2>2. CASE a = t
    <3>1. seg[1].base <= t
      BY TopHighest
    <3> QED  BY <1>1, <1>2, <1>3, <1>5, <2>2, <3>1
  <2>3. CASE a # t /\ i = 1
    <3>1. a + z[a] <= t /\ a + z[a] \in Nat /\ y[a] = z[a]
      BY <1>1, <1>5, <1>6, <2>3
    <3>2. a + y[a] <= stop(seg2, F, 1)
      BY <1>1, <1>3, <3>1
    <3> QED  BY <2>1, <2>3, <3>2
  <2>4. CASE a # t /\ i # 1
    BY <1>3, <1>5, <2>1, <2>4
  <2> QED  BY <2>2, <2>3, <2>4
<1>13. \A i \in DOMAIN seg2 : first(seg2, i) \in DOMAIN y
  BY <1>3, <1>5 DEF Layout
<1>14. \A b \in DOMAIN y : \/ \E i \in DOMAIN seg2 : b = first(seg2, i)
                           \/ \E a \in DOMAIN y : a + y[a] = b
  <2> SUFFICES ASSUME NEW b \in DOMAIN z
               PROVE  \/ \E i \in DOMAIN seg : b = first(seg, i)
                      \/ \E a \in DOMAIN z : a + y[a] = b
    BY <1>3, <1>5
  <2>1. CASE \E i \in DOMAIN seg : b = first(seg, i)
    BY <2>1
  <2>2. CASE \E a \in DOMAIN z : a + z[a] = b
    <3>1. PICK a \in DOMAIN z : a + z[a] = b
      BY <2>2
    <3>2. a # t
      BY <1>1, <1>6, <3>1
    <3> QED  BY <1>5, <3>1, <3>2
  <2> QED  BY <2>1, <2>2 DEF Layout
<1>15. \A a \in DOMAIN y : a + y[a] # F => Even(y[a]) /\ y[a] >= 4
  <2> SUFFICES ASSUME NEW a \in DOMAIN z, a + y[a] # F PROVE Even(y[a]) /\ y[a] >= 4
    BY <1>5
  <2>1. a # t
    BY <1>5
  <2>2. a + z[a] # E
    BY <1>1, <1>6, <2>1
  <2> QED  BY <1>5, <2>1, <2>2 DEF Layout
<1> QED  BY <1>8, <1>9, <1>10, <1>11, <1>12, <1>13, <1>14, <1>15 DEF Layout

(* The marks of a layout whose top has another size.                       *)
LEMMA TagsResized ==
  ASSUME NEW seg, NEW E, NEW lo, NEW hi, Segs(seg, E, lo, hi), NEW z, Layout(z, seg, E),
         NEW t \in DOMAIN z, t + z[t] = E, NEW s \in Nat \ {0}, NEW F, F = t + s,
         NEW seg2, Resegmented(seg, seg2), NEW y, TopSize(z, y, t, s),
         NEW U, NEW h, Tags(h, z, seg, E, U, {}), t \notin U, h[t].pinuse, Apart(z, U),
         NEW g, g[t] = FreeHeader(s), g[F] = FootHeader,
         \A a \in Addr \ {t, E, F} : g[a] = h[a]
  PROVE  Tags(g, y, seg2, F, U, {})
<1>1. /\ t \in Nat /\ F \in Nat /\ t < F /\ E \in Nat /\ t < E
      /\ \A a \in DOMAIN z : a <= t /\ (a # t => a + z[a] <= t)
      /\ \A i \in DOMAIN seg \ {1} : stop(seg, E, i) + 2 <= t
  <2>1. /\ t \in Nat /\ t < E
        /\ \A a \in DOMAIN z : a <= t /\ (a # t => a + z[a] <= t)
        /\ \A i \in DOMAIN seg \ {1} : stop(seg, E, i) + 2 <= t
    BY TopHighest
  <2>2. E \in Nat
    BY DEF Segs
  <2>3. F \in Nat /\ t < F
    BY <2>1
  <2> QED  BY <2>1, <2>2, <2>3
<1>2. 1 \in DOMAIN seg
  BY DEF Segs
<1>3. /\ \A i \in DOMAIN seg \ {1} : stop(seg2, F, i) = stop(seg, E, i)
      /\ \A i \in DOMAIN seg : first(seg2, i) = first(seg, i)
      /\ DOMAIN seg2 = DOMAIN seg
  BY <1>2, ResegmentedFacts DEF Resegmented
<1>4. \A i \in DOMAIN seg : stop(seg, E, i) \in Nat /\ stop(seg, E, i) \in Addr
  BY SegTyped, StopsFacts
<1>5. /\ DOMAIN y = DOMAIN z /\ y[t] = s /\ \A a \in DOMAIN z : a # t => y[a] = z[a]
  BY DEF TopSize
<1>6. \A a \in DOMAIN z : a \in Nat /\ a \in Addr /\ z[a] \in Nat /\ z[a] > 0
                         /\ a + z[a] \in Addr
  BY LayoutBounds
<1>7. g[t].size = s /\ ~g[t].cinuse /\ g[t].pinuse /\ ~g[F].pinuse
  BY DEF FreeHeader, FootHeader, Header
<1>8. ASSUME NEW a \in DOMAIN z, a # t
      PROVE  /\ g[a] = h[a] /\ y[a] = z[a]
             /\ g[a + z[a]].pinuse <=> h[a + z[a]].pinuse
             /\ a \notin U => g[a + z[a]] = h[a + z[a]]
  <2>1. a < t /\ a + z[a] <= t /\ a + z[a] \in Nat
    BY <1>1, <1>6, <1>8
  <2>2. g[a] = h[a]
    BY <1>1, <1>6, <2>1
  <2>3. a + z[a] # t => g[a + z[a]] = h[a + z[a]]
    BY <1>1, <1>6, <2>1
  <2>4. a \notin U => a + z[a] # t
    BY DEF Apart
  <2> QED  BY <1>5, <1>7, <1>8, <2>2, <2>3, <2>4
<1>9. ASSUME NEW a \in DOMAIN y
      PROVE  /\ g[a].size = y[a]
             /\ g[a].cinuse <=> a \in U
             /\ g[a + y[a]].pinuse <=> a \in U
             /\ a \notin U /\ a + y[a] # F => g[a + y[a]].prev_foot = y[a]
  <2>1. CASE a = t
    BY <1>5, <1>7, <2>1
  <2>2. CASE a # t
    <3>1. a \in DOMAIN z \ {} /\ a + z[a] # E
      <4>1. a + z[a] <= t /\ a + z[a] \in Nat
        BY <1>1, <1>5, <1>6, <2>2
      <4> QED  BY <1>1, <1>5, <4>1
    <3>2. /\ h[a].size = z[a] /\ (h[a].cinuse <=> a \in U) /\ (h[a + z[a]].pinuse <=> a \in U)
          /\ a \notin U => h[a + z[a]].prev_foot = z[a]
      BY <3>1 DEF Tags
    <3> QED  BY <1>8, <2>2, <3>1, <3>2
  <2> QED  BY <2>1, <2>2
<1>10. ASSUME NEW i \in DOMAIN seg PROVE g[first(seg, i)].pinuse
  <2>1. h[first(seg, i)].pinuse /\ first(seg, i) \in DOMAIN z
    BY DEF Tags, Layout
  <2> QED  BY <1>7, <1>8, <2>1
<1>11. ASSUME NEW i \in DOMAIN seg \ {1}
       PROVE  g[stop(seg, E, i)].size = 1 /\ g[stop(seg, E, i)].cinuse
  <2>1. stop(seg, E, i) \in Addr \ {t, E, F}
    BY <1>1, <1>4
  <2> QED  BY <2>1 DEF Tags
<1> QED  BY <1>3, <1>7, <1>9, <1>10, <1>11 DEF Tags

(* The state n after k is m with top of another size, and otherwise k.     *)
LEMMA MoveTop ==
  ASSUME NEW m, NEW z, NEW U, Heap(m, z, U),
         NEW s \in Nat \ {0}, NEW k \in State, SameBins(m, k), SameDv(m, k), SameTop(m, k),
         k.chunk = m.chunk, ~k.aborted, k.least_addr = m.least_addr,
         Resegmented(m.seg, k.seg), m.top + s + TOP_FOOT_SIZE = EndOf(k.seg[1]),
         EndOf(k.seg[1]) <= k.brk,
         NEW n, n = init_top(k, k.top, s), NEW y, TopSize(z, y, m.top, s)
  PROVE  SameSettings(k, n) /\ Heap(n, y, U) /\ n.top = m.top /\ n.topsize = s
<1>1. PICK E : E = m.top + m.topsize
  OBVIOUS
<1>2. Hole(m, z, U, {}, {}, E) /\ TopOK(m, z, U, {}, E) /\ DvOK(m, z, U, {})
  BY <1>1 DEF Heap
<1>3. PICK t : t = m.top
  OBVIOUS
<1>4. t \in DOMAIN z /\ t \notin U /\ t + z[t] = E
  BY <1>2, <1>3 DEF TopOK
<1>5. t \in Addr /\ t \in Nat /\ Even(t) /\ E \in Addr
  BY <1>2, <1>4, HoleChunk
<1>6. /\ m \in State /\ Segs(m.seg, E, m.least_addr, m.brk) /\ Layout(z, m.seg, E)
      /\ Tags(m.chunk, z, m.seg, E, U, {}) /\ Records(m.seg, z, U) /\ Apart(z, U \cup {})
      /\ Bins(m, z, U \cup {} \cup {m.top, m.dv}) /\ U \subseteq DOMAIN z
  BY <1>2 DEF Hole
<1>7. PICK F : F = t + s
  OBVIOUS
<1>8. k.brk \in Addr /\ k.seg \in Seq(SegmentSet)
  BY DEF State
<1>9. F + TOP_FOOT_SIZE = EndOf(k.seg[1]) /\ F + TOP_FOOT_SIZE <= k.brk
  BY <1>3, <1>7
<1>10. F \in Addr /\ F \in Nat /\ s \in size_t \ {0}
  <2>1. k.brk \in Nat /\ k.brk <= BrkLimit /\ BrkLimit \in Nat /\ BrkLimit <= MAX_SIZE_T
        /\ MAX_SIZE_T \in Nat /\ TOP_FOOT_SIZE = 10
    BY <1>8, Small
  <2> QED  BY <1>5, <1>7, <1>9, <2>1, Small
<1>11. align_as_chunk(t) = t /\ align_offset(t) = 0
  BY <1>5 DEF align_as_chunk, align_offset, Even, MALLOC_ALIGNMENT
<1>12. k.top = t /\ k.topsize = m.topsize /\ k.top + k.topsize = E
  BY <1>1, <1>3 DEF SameTop
<1>13. /\ n \in State /\ SameSettings(k, n) /\ SameBins(k, n) /\ SameDv(k, n)
       /\ n.top = t /\ n.topsize = s
       /\ n.chunk[t] = FreeHeader(s) /\ n.chunk[F] = FootHeader
       /\ \A a \in Addr \ {t, F, E} : n.chunk[a] = k.chunk[a]
  <2>1. n = init_top(k, t, s) /\ t = align_as_chunk(t) /\ s = s - align_offset(t)
    BY <1>10, <1>11, <1>12
  <2>2. t + s \in Addr /\ k.top + k.topsize \in Addr
    BY <1>5, <1>7, <1>10, <1>12
  <2> QED  BY <1>5, <1>7, <1>10, <1>12, <2>1, <2>2, InitTopFacts
<1>14. Segs(k.seg, F, m.least_addr, k.brk)
  <2>1. PICK seg : seg = m.seg
    OBVIOUS
  <2>2. PICK seg2 : seg2 = k.seg
    OBVIOUS
  <2> QED  BY <1>4, <1>6, <1>7, <1>8, <1>9, <2>1, <2>2, SegsResized
<1>15. Layout(y, k.seg, F)
  BY <1>3, <1>4, <1>6, <1>7, LayoutResized
<1>16. m.chunk[t].pinuse
  BY <1>2, <1>4, HoleFreePinuse
<1>17. Tags(n.chunk, y, k.seg, F, U, {})
  <2>1. Apart(z, U)
    BY <1>6
  <2>2. \A a \in Addr \ {t, E, F} : n.chunk[a] = m.chunk[a]
    BY <1>13
  <2>3. TopSize(z, y, t, s)
    BY <1>3
  <2> QED  BY <1>4, <1>6, <1>7, <1>13, <1>16, <2>1, <2>2, <2>3, TagsResized
<1>18. DOMAIN y = DOMAIN z /\ y[t] = s /\ \A a \in DOMAIN z : a # t => y[a] = z[a]
  BY <1>3 DEF TopSize
<1>19. Records(k.seg, y, U)
  <2>1. \A i \in DOMAIN k.seg \ {1} : i \in DOMAIN m.seg \ {1} /\ k.seg[i].record = m.seg[i].record
    BY DEF Resegmented
  <2> QED  BY <1>4, <1>6, <1>18, <2>1 DEF Records
<1>20. Apart(y, U \cup {})
  <2>1. F \notin DOMAIN z
    <3>1. F \in Stops(k.seg, F)
      BY <1>15, <1>14, <1>4, <1>18, StopsFacts
    <3> QED  BY <1>15, <1>18, <3>1 DEF Layout
  <2> QED  BY <1>6, <1>7, <1>18, <2>1 DEF Apart
<1>21. n.seg = k.seg /\ n.least_addr = m.least_addr /\ n.brk = k.brk /\ ~n.aborted
       /\ n.dv = m.dv /\ n.dvsize = m.dvsize
  BY <1>13 DEF SameSettings, SameDv
<1>22. Bins(n, y, U \cup {} \cup {n.top, n.dv})
  <2>1. SameBins(m, n)
    BY <1>13 DEF SameBins
  <2>2. PICK X : X = U \cup {} \cup {m.top, m.dv}
    OBVIOUS
  <2>3. X = U \cup {} \cup {n.top, n.dv} /\ t \in X
    BY <1>3, <1>13, <1>21, <2>2
  <2>4. Bins(m, z, X)
    BY <1>6, <2>2
  <2>5. DOMAIN z \ X = DOMAIN y \ X /\ \A a \in DOMAIN z \ X : y[a] = z[a]
    BY <1>18, <2>3
  <2>6. Bins(n, y, X)
    BY <2>1, <2>4, <2>5, BinsFrame
  <2> QED  BY <2>3, <2>6
<1>23. Hole(n, y, U, {}, {}, F)
  BY <1>6, <1>13, <1>14, <1>15, <1>17, <1>18, <1>19, <1>20, <1>21, <1>22 DEF Hole
<1>24. TopOK(n, y, U, {}, F)
  BY <1>4, <1>7, <1>13, <1>18 DEF TopOK
<1>25. DvOK(n, y, U, {})
  BY <1>2, <1>3, <1>13, <1>18, <1>21 DEF DvOK
<1>26. n.top + n.topsize = F
  BY <1>7, <1>13
<1> QED  BY <1>3, <1>13, <1>23, <1>24, <1>25, <1>26 DEF Heap

-------------------------------------------------------------------------------
(* A new first segment: the record of the old one is the chunk at c, behind*)
(* what is left of the old top at t; the new top is the chunk at q, which  *)
(* ends at F.                                                              *)
Shifted(seg, seg2, c) ==
    /\ seg2 \in Seq(SegmentSet) /\ DOMAIN seg2 = {1, 2} \cup {i + 1 : i \in DOMAIN seg \ {1}}
    /\ seg2[1].record = NULL
    /\ seg2[2].base = seg[1].base /\ EndOf(seg2[2]) = EndOf(seg[1]) /\ seg2[2].record = c
    /\ \A i \in DOMAIN seg \ {1} : seg2[i + 1] = seg[i]

Rearranged(z, y, t, c, q, s) ==
    /\ DOMAIN y = DOMAIN z \cup {c, q} /\ y[c] = SegmentRecord /\ y[q] = s
    /\ c # t => y[t] = c - t
    /\ \A a \in DOMAIN z : a # t => y[a] = z[a]

(* Where they are.                                                         *)
Placed(seg2, E, hi, hi2, t, c, q, s, F) ==
    /\ E \in Nat /\ hi \in Addr /\ hi2 \in Addr /\ E + TOP_FOOT_SIZE <= hi
    /\ t \in Nat /\ Even(t) /\ c \in Nat /\ Even(c) /\ t <= c /\ c <= E /\ (c = t \/ t + 4 <= c)
    /\ hi <= seg2[1].base /\ seg2[1].base \in Nat
    /\ q = align_as_chunk(seg2[1].base) /\ s \in Nat \ {0} /\ F = q + s
    /\ F + TOP_FOOT_SIZE = EndOf(seg2[1]) /\ EndOf(seg2[1]) <= hi2

(* Their order, and that all of it fits. *)
LEMMA PlacedFacts ==
  ASSUME NEW seg2, NEW E, NEW hi, NEW hi2, NEW t, NEW c, NEW q, NEW s, NEW F,
         Placed(seg2, E, hi, hi2, t, c, q, s, F)
  PROVE  /\ E \in Nat /\ hi \in Nat /\ hi2 \in Nat /\ t \in Nat /\ c \in Nat /\ q \in Nat /\ s \in Nat
         /\ F \in Nat /\ F \in Addr /\ q \in Addr /\ c \in Addr /\ c + SegmentRecord \in Addr
         /\ Even(t) /\ Even(c) /\ Even(q) /\ Even(SegmentRecord) /\ SegmentRecord = 6
         /\ t <= c /\ c <= E /\ (c = t \/ t + 4 <= c) /\ c + 6 < q /\ E + 10 <= q /\ E < q /\ t < q
         /\ hi <= q /\ q < F /\ s > 0 /\ F = q + s /\ c + 6 # F /\ s \in size_t
<1>1. /\ E \in Nat /\ hi \in Nat /\ hi2 \in Nat /\ hi2 <= BrkLimit /\ BrkLimit \in Nat
      /\ TOP_FOOT_SIZE = 10 /\ SegmentRecord = 6 /\ BrkLimit <= MAX_SIZE_T /\ MAX_SIZE_T \in Nat
  BY Small DEF Placed
<1>2. q \in Nat /\ Even(q) /\ seg2[1].base <= q
  BY FirstFacts DEF Placed
<1>3. /\ t \in Nat /\ Even(t) /\ c \in Nat /\ Even(c) /\ t <= c /\ c <= E /\ (c = t \/ t + 4 <= c)
      /\ s \in Nat /\ s > 0 /\ F = q + s /\ F + 10 <= hi2 /\ E + 10 <= hi
      /\ hi <= seg2[1].base /\ seg2[1].base \in Nat
  BY <1>1 DEF Placed
<1>4. hi <= q /\ F \in Nat /\ q < F /\ E + 10 <= q
  BY <1>1, <1>2, <1>3
<1>5. c + 6 < q /\ E < q /\ t < q /\ c + 6 # F
  BY <1>1, <1>2, <1>3, <1>4
<1>6. F \in Addr /\ q \in Addr /\ c \in Addr /\ c + SegmentRecord \in Addr /\ s \in size_t
  BY <1>1, <1>2, <1>3, <1>4, <1>5, Small
<1>7. Even(SegmentRecord)
  BY <1>1 DEF Even
<1> QED  BY <1>1, <1>2, <1>3, <1>4, <1>5, <1>6, <1>7

(* The indices of the segments after the addition.                         *)
LEMMA ShiftedFacts ==
  ASSUME NEW seg, NEW E, NEW lo, NEW hi, Segs(seg, E, lo, hi), NEW c, c \in Nat,
         NEW seg2, Shifted(seg, seg2, c), NEW F
  PROVE  /\ 1 \in DOMAIN seg2 /\ 2 \in DOMAIN seg2
         /\ \A i \in DOMAIN seg \ {1} : i + 1 \in DOMAIN seg2 \ {1, 2} /\ i \in Nat /\ i > 1
         /\ stop(seg2, F, 1) = F /\ stop(seg2, F, 2) = c + SegmentRecord
         /\ first(seg2, 2) = first(seg, 1)
         /\ \A i \in DOMAIN seg \ {1} : /\ stop(seg2, F, i + 1) = stop(seg, E, i)
                                        /\ first(seg2, i + 1) = first(seg, i)
                                        /\ seg2[i + 1] = seg[i]
         /\ \A k \in DOMAIN seg2 \ {1, 2} : \E i \in DOMAIN seg \ {1} : k = i + 1
         /\ \A b : b \in Stops(seg2, F) <=>
                       \/ b = F
                       \/ b = c + SegmentRecord
                       \/ \E i \in DOMAIN seg \ {1} : b = stop(seg, E, i)
<1>1. \A i \in DOMAIN seg : i \in Nat /\ i >= 1
  BY SegTyped
<1>2. /\ DOMAIN seg2 = {1, 2} \cup {i + 1 : i \in DOMAIN seg \ {1}}
      /\ seg2[2].base = seg[1].base /\ seg2[2].record = c
      /\ \A i \in DOMAIN seg \ {1} : seg2[i + 1] = seg[i]
  BY DEF Shifted
<1>3. \A i \in DOMAIN seg \ {1} : i > 1 /\ i \in Nat
  BY <1>1
<1>4. \A i \in DOMAIN seg \ {1} : i + 1 \in DOMAIN seg2 /\ i + 1 # 1 /\ i + 1 # 2
  BY <1>2, <1>3
<1>5. 1 \in DOMAIN seg2 /\ 2 \in DOMAIN seg2
  BY <1>2
<1>6. stop(seg2, F, 1) = F /\ stop(seg2, F, 2) = c + SegmentRecord /\ first(seg2, 2) = first(seg, 1)
  BY <1>2 DEF stop, first
<1>7. \A i \in DOMAIN seg \ {1} : /\ stop(seg2, F, i + 1) = stop(seg, E, i)
                                  /\ first(seg2, i + 1) = first(seg, i)
  BY <1>2, <1>4 DEF stop, first
<1>8. \A k \in DOMAIN seg2 \ {1, 2} : \E i \in DOMAIN seg \ {1} : k = i + 1
  BY <1>2
<1>9. ASSUME NEW b
      PROVE  b \in Stops(seg2, F) <=>
                       \/ b = F
                       \/ b = c + SegmentRecord
                       \/ \E i \in DOMAIN seg \ {1} : b = stop(seg, E, i)
  <2>1. ASSUME b \in Stops(seg2, F)
        PROVE  \/ b = F
               \/ b = c + SegmentRecord
               \/ \E i \in DOMAIN seg \ {1} : b = stop(seg, E, i)
    <3>1. PICK k \in DOMAIN seg2 : b = stop(seg2, F, k)
      BY <2>1 DEF Stops
    <3>2. CASE k = 1
      BY <1>6, <3>1, <3>2
    <3>3. CASE k = 2
      BY <1>6, <3>1, <3>3
    <3>4. CASE k \notin {1, 2}
      <4>1. PICK i \in DOMAIN seg \ {1} : k = i + 1
        BY <1>8, <3>4
      <4> QED  BY <1>7, <3>1, <4>1
    <3> QED  BY <3>2, <3>3, <3>4
  <2>2. b = F => b \in Stops(seg2, F)
    BY <1>5, <1>6 DEF Stops
  <2>3. b = c + SegmentRecord => b \in Stops(seg2, F)
    BY <1>5, <1>6 DEF Stops
  <2>4. (\E i \in DOMAIN seg \ {1} : b = stop(seg, E, i)) => b \in Stops(seg2, F)
    BY <1>4, <1>7 DEF Stops
  <2> QED  BY <2>1, <2>2, <2>3, <2>4
<1> QED  BY <1>2, <1>3, <1>4, <1>5, <1>6, <1>7, <1>8, <1>9

(* The segments with the new one are in order, *)
LEMMA SegsAdded ==
  ASSUME NEW seg, NEW E, NEW lo, NEW hi, Segs(seg, E, lo, hi), NEW z, Layout(z, seg, E),
         NEW t \in DOMAIN z, t + z[t] = E,
         NEW c, NEW q, NEW s, NEW F, NEW seg2, Shifted(seg, seg2, c),
         NEW hi2, Placed(seg2, E, hi, hi2, t, c, q, s, F)
  PROVE  Segs(seg2, F, lo, hi2)
<1>1. /\ E \in Nat /\ hi \in Nat /\ hi2 \in Nat /\ t \in Nat /\ c \in Nat /\ q \in Nat /\ s \in Nat
      /\ F \in Nat /\ SegmentRecord = 6 /\ Even(t) /\ TOP_FOOT_SIZE = 10
      /\ t <= c /\ c <= E /\ hi <= q /\ q < F /\ hi2 \in Addr
  <2>1. hi2 \in Addr /\ TOP_FOOT_SIZE = 10
    BY Small DEF Placed
  <2> QED  BY <2>1, PlacedFacts
<1>2. /\ F + TOP_FOOT_SIZE = EndOf(seg2[1]) /\ EndOf(seg2[1]) <= hi2 /\ hi <= seg2[1].base
      /\ seg2[1].base \in Nat /\ first(seg2, 1) = q
  BY DEF Placed, first
<1>3. /\ 1 \in DOMAIN seg /\ E + TOP_FOOT_SIZE = EndOf(seg[1]) /\ lo \in Addr \ {0} /\ lo \in Nat
      /\ \A i \in DOMAIN seg : lo <= seg[i].base /\ EndOf(seg[i]) <= hi
                               /\ first(seg, i) < stop(seg, E, i)
  BY Small DEF Segs
<1>4. \A i \in DOMAIN seg : /\ seg[i].base \in Nat /\ EndOf(seg[i]) \in Nat
                            /\ first(seg, i) \in Nat
                            /\ \A a \in Nat : Even(a) /\ seg[i].base <= a => first(seg, i) <= a
  BY SegTyped, Small
<1>5. seg[1].base <= t /\ \A i \in DOMAIN seg \ {1} : EndOf(seg[i]) <= seg[1].base
  BY TopHighest
<1>6. /\ 1 \in DOMAIN seg2 /\ 2 \in DOMAIN seg2
      /\ stop(seg2, F, 1) = F /\ stop(seg2, F, 2) = c + SegmentRecord
      /\ first(seg2, 2) = first(seg, 1)
      /\ \A i \in DOMAIN seg \ {1} : /\ stop(seg2, F, i + 1) = stop(seg, E, i)
                                     /\ first(seg2, i + 1) = first(seg, i)
                                     /\ seg2[i + 1] = seg[i] /\ i \in Nat /\ i > 1
      /\ \A k \in DOMAIN seg2 \ {1, 2} : \E i \in DOMAIN seg \ {1} : k = i + 1
  BY <1>1, ShiftedFacts
<1>7. seg2[2].base = seg[1].base /\ EndOf(seg2[2]) = EndOf(seg[1])
      /\ seg2 \in Seq(SegmentSet) /\ seg2[1].record = NULL
  BY DEF Shifted
<1>8. ASSUME NEW k \in DOMAIN seg2
      PROVE  /\ lo <= seg2[k].base /\ EndOf(seg2[k]) <= hi2
             /\ first(seg2, k) < stop(seg2, F, k)
             /\ k # 1 => stop(seg2, F, k) + 2 <= EndOf(seg2[k])
             /\ k # 1 => EndOf(seg2[k]) <= hi
  <2>1. CASE k = 1
    <3>1. lo <= hi
      BY <1>1, <1>3, <1>4, <1>5
    <3> QED  BY <1>1, <1>2, <1>3, <1>6, <2>1, <3>1
  <2>2. CASE k = 2
    <3>1. first(seg, 1) <= t
      BY <1>1, <1>3, <1>4, <1>5
    <3>2. c + SegmentRecord + 2 <= EndOf(seg[1])
      BY <1>1, <1>3
    <3>3. hi <= hi2
      <4>1. EndOf(seg2[1]) \in Nat /\ q <= F /\ q >= hi
        BY <1>1, <1>2
      <4> QED  BY <1>1, <1>2, <4>1
    <3>4. first(seg, 1) < c + SegmentRecord
      BY <1>1, <1>3, <1>4, <3>1
    <3> QED  BY <1>1, <1>3, <1>4, <1>6, <1>7, <2>2, <3>2, <3>3, <3>4, SMTT(40)
  <2>3. CASE k \notin {1, 2}
    <3>1. PICK i \in DOMAIN seg \ {1} : k = i + 1
      BY <1>6, <2>3
    <3>2. hi <= hi2
      <4>1. EndOf(seg2[1]) \in Nat /\ q <= F /\ q >= hi
        BY <1>1, <1>2
      <4> QED  BY <1>1, <1>2, <4>1
    <3>3. seg2[k] = seg[i] /\ stop(seg2, F, k) = stop(seg, E, i) /\ first(seg2, k) = first(seg, i)
      BY <1>6, <3>1
    <3>4. stop(seg, E, i) + 2 <= EndOf(seg[i])
      BY DEF Segs
    <3>5. EndOf(seg[i]) <= hi /\ EndOf(seg[i]) <= hi2 /\ lo <= seg[i].base
          /\ first(seg, i) < stop(seg, E, i)
      BY <1>1, <1>3, <1>4, <3>2
    <3> QED  BY <3>3, <3>4, <3>5
  <2> QED  BY <2>1, <2>2, <2>3
<1>9. ASSUME NEW k \in DOMAIN seg2, NEW l \in DOMAIN seg2, k < l
      PROVE  EndOf(seg2[l]) <= seg2[k].base
  <2>1. CASE k = 1
    <3>1. l # 1 /\ EndOf(seg2[l]) <= hi
      BY <1>8, <1>9, <2>1
    <3>2. EndOf(seg2[l]) \in Nat
      <4>1. CASE l = 2
        BY <1>3, <1>4, <1>7, <4>1
      <4>2. CASE l # 2
        <5>1. PICK i \in DOMAIN seg \ {1} : l = i + 1
          BY <1>6, <3>1, <4>2
        <5> QED  BY <1>4, <1>6, <5>1
      <4> QED  BY <4>1, <4>2
    <3> QED  BY <1>1, <1>2, <2>1, <3>1, <3>2
  <2>2. CASE k = 2
    <3>1. l \notin {1, 2}
      BY <1>9, <2>2
    <3>2. PICK i \in DOMAIN seg \ {1} : l = i + 1
      BY <1>6, <3>1
    <3> QED  BY <1>5, <1>6, <1>7, <2>2, <3>2
  <2>3. CASE k \notin {1, 2}
    <3>1. PICK i \in DOMAIN seg \ {1} : k = i + 1
      BY <1>6, <2>3
    <3>2. i \in Nat /\ i > 1 /\ k > 2 /\ l # 1 /\ l # 2
      BY <1>6, <1>9, <3>1
    <3>3. PICK j \in DOMAIN seg \ {1} : l = j + 1
      BY <1>6, <3>2
    <3>4. i < j
      <4>1. j \in Nat
        BY <1>6
      <4> QED  BY <1>9, <3>1, <3>2, <3>3, <4>1
    <3>5. EndOf(seg[j]) <= seg[i].base
      BY <3>4 DEF Segs
    <3> QED  BY <1>6, <3>1, <3>3, <3>5
  <2> QED  BY <2>1, <2>2, <2>3
<1>10. \A k \in DOMAIN seg2 : /\ lo <= seg2[k].base /\ EndOf(seg2[k]) <= hi2
                              /\ first(seg2, k) < stop(seg2, F, k)
  BY <1>8
<1>11. \A k \in DOMAIN seg2 \ {1} : stop(seg2, F, k) + 2 <= EndOf(seg2[k])
  BY <1>8
<1>12. \A k, l \in DOMAIN seg2 : k < l => EndOf(seg2[l]) <= seg2[k].base
  BY <1>9
<1> QED  BY <1>1, <1>2, <1>3, <1>6, <1>7, <1>10, <1>11, <1>12 DEF Segs

-------------------------------------------------------------------------------
(* and the chunks are a layout of them: the old ones below top, what is left *)
(* of top, the record, the new top.                                          *)
LEMMA LayoutAdded ==
  ASSUME NEW seg, NEW E, NEW lo, NEW hi, Segs(seg, E, lo, hi), NEW z, Layout(z, seg, E),
         NEW t \in DOMAIN z, t + z[t] = E,
         NEW c, NEW q, NEW s, NEW F, NEW seg2, Shifted(seg, seg2, c),
         NEW hi2, Placed(seg2, E, hi, hi2, t, c, q, s, F),
         NEW y, Rearranged(z, y, t, c, q, s)
  PROVE  /\ Layout(y, seg2, F) /\ q \notin DOMAIN z /\ (c = t \/ c \notin DOMAIN z)
         /\ \A a \in DOMAIN z : a <= t
<1>1. /\ E \in Nat /\ t \in Nat /\ c \in Nat /\ q \in Nat /\ s \in Nat /\ s > 0
      /\ F \in Nat /\ SegmentRecord = 6 /\ Even(t) /\ Even(c) /\ Even(q) /\ Even(SegmentRecord)
      /\ t <= c /\ c <= E /\ (c = t \/ t + 4 <= c) /\ q < F /\ t < q /\ c + 6 < q /\ F = q + s
  BY PlacedFacts
<1>2. /\ \A a \in DOMAIN z : a <= t /\ (a # t => a + z[a] <= t)
      /\ \A i \in DOMAIN seg \ {1} : stop(seg, E, i) + 2 <= t
      /\ seg[1].base <= t
  BY TopHighest
<1>3. \A i \in DOMAIN seg : stop(seg, E, i) \in Nat /\ seg[i].base \in Nat
  BY SegTyped
<1>4. \A a \in DOMAIN z : a \in Nat /\ Even(a) /\ z[a] \in Nat /\ z[a] > 0
  BY DEF Layout
<1>5. q \notin DOMAIN z /\ (c = t \/ c \notin DOMAIN z)
  BY <1>1, <1>2, <1>4
<1>6. /\ DOMAIN y = DOMAIN z \cup {c, q} /\ y[c] = 6 /\ y[q] = s
      /\ c # t => y[t] = c - t
      /\ \A a \in DOMAIN z : a # t => y[a] = z[a]
  BY <1>1 DEF Rearranged
<1>7. /\ 1 \in DOMAIN seg2 /\ 2 \in DOMAIN seg2
      /\ stop(seg2, F, 1) = F /\ stop(seg2, F, 2) = c + SegmentRecord
      /\ first(seg2, 2) = first(seg, 1)
      /\ \A i \in DOMAIN seg \ {1} : /\ i + 1 \in DOMAIN seg2
                                     /\ stop(seg2, F, i + 1) = stop(seg, E, i)
                                     /\ first(seg2, i + 1) = first(seg, i)
                                     /\ seg2[i + 1] = seg[i]
      /\ \A k \in DOMAIN seg2 \ {1, 2} : \E i \in DOMAIN seg \ {1} : k = i + 1
      /\ \A b : b \in Stops(seg2, F) <=>
                       \/ b = F
                       \/ b = c + SegmentRecord
                       \/ \E i \in DOMAIN seg \ {1} : b = stop(seg, E, i)
  <2>1. c \in Nat
    BY <1>1
  <2>2. /\ 1 \in DOMAIN seg2 /\ 2 \in DOMAIN seg2
        /\ \A i \in DOMAIN seg \ {1} : i + 1 \in DOMAIN seg2 \ {1, 2}
    BY <2>1, ShiftedFacts
  <2>3. /\ stop(seg2, F, 1) = F /\ stop(seg2, F, 2) = c + SegmentRecord
        /\ first(seg2, 2) = first(seg, 1)
        /\ \A i \in DOMAIN seg \ {1} : /\ stop(seg2, F, i + 1) = stop(seg, E, i)
                                       /\ first(seg2, i + 1) = first(seg, i)
                                       /\ seg2[i + 1] = seg[i]
    BY <2>1, ShiftedFacts
  <2>4. \A k \in DOMAIN seg2 \ {1, 2} : \E i \in DOMAIN seg \ {1} : k = i + 1
    BY DEF Shifted
  <2>5. \A b : b \in Stops(seg2, F) <=>
                       \/ b = F
                       \/ b = c + SegmentRecord
                       \/ \E i \in DOMAIN seg \ {1} : b = stop(seg, E, i)
    BY <2>1, ShiftedFacts
  <2> QED  BY <2>2, <2>3, <2>4, <2>5
<1>8. seg2[2].base = seg[1].base /\ first(seg2, 1) = q /\ seg2[1].base <= q
  <2>1. seg2[1].base \in Nat /\ q = align_as_chunk(seg2[1].base)
    BY DEF Placed
  <2>2. seg2[1].base <= q
    BY <2>1, FirstFacts
  <2> QED  BY <2>1, <2>2 DEF Shifted, first
<1>9. 1 \in DOMAIN seg /\ stop(seg, E, 1) = E
  BY DEF Segs, stop
(* A chunk of the new layout: an old one below top, what is left of top,   *)
(* the record, the new top.                                                *)
<1>10. ASSUME NEW a \in DOMAIN y
       PROVE  \/ a \in DOMAIN z /\ a # t /\ y[a] = z[a] /\ a + z[a] <= t
              \/ a = t /\ c # t /\ y[a] = c - t
              \/ a = c /\ y[a] = 6
              \/ a = q /\ y[a] = s
  BY <1>2, <1>5, <1>6
<1>11. \A b \in Stops(seg2, F) : b \in Nat /\ (b = F \/ b = c + 6 \/ b + 2 <= t)
  BY <1>1, <1>2, <1>3, <1>7
<1>12. \A a \in DOMAIN y : a \in Nat /\ Even(a) /\ y[a] \in Nat /\ y[a] > 0
  <2> SUFFICES ASSUME NEW a \in DOMAIN y
               PROVE  a \in Nat /\ Even(a) /\ y[a] \in Nat /\ y[a] > 0
    OBVIOUS
  <2>1. CASE a \in DOMAIN z /\ a # t /\ y[a] = z[a]
    BY <1>4, <2>1
  <2>2. CASE a = t /\ c # t /\ y[a] = c - t
    BY <1>1, <2>2
  <2>3. CASE a = c /\ y[a] = 6
    BY <1>1, <2>3
  <2>4. CASE a = q /\ y[a] = s
    BY <1>1, <2>4
  <2> QED  BY <1>10, <2>1, <2>2, <2>3, <2>4
<1>13. \A a \in DOMAIN y : a \notin Stops(seg2, F)
  <2> SUFFICES ASSUME NEW a \in DOMAIN y, a \in Stops(seg2, F) PROVE FALSE
    OBVIOUS
  <2>1. a = F \/ a = c + 6 \/ a + 2 <= t
    BY <1>11
  <2>2. CASE a \in DOMAIN z /\ a # t
    <3>1. a <= t /\ a \in Nat
      BY <1>2, <1>4, <2>2
    <3>2. PICK i \in DOMAIN seg \ {1} : a = stop(seg, E, i)
      BY <1>1, <1>7, <3>1
    <3> QED  BY <2>2, <3>2 DEF Layout, Stops
  <2>3. CASE a = t \/ a = c \/ a = q
    BY <1>1, <2>1, <2>3
  <2> QED  BY <1>10, <2>2, <2>3
<1>14. \A a \in DOMAIN y : a + y[a] \in DOMAIN y \cup Stops(seg2, F)
  <2> SUFFICES ASSUME NEW a \in DOMAIN y PROVE a + y[a] \in DOMAIN y \cup Stops(seg2, F)
    OBVIOUS
  <2>1. CASE a \in DOMAIN z /\ a # t /\ y[a] = z[a] /\ a + z[a] <= t
    <3>1. a + z[a] \in DOMAIN z \cup Stops(seg, E) /\ a + z[a] # E
      <4>1. a # t => a + z[a] # t + z[t]
        BY <2>1, LayoutEnds
      <4> QED  BY <2>1, <4>1 DEF Layout
    <3>2. CASE a + z[a] \in Stops(seg, E)
      <4>1. PICK i \in DOMAIN seg : a + z[a] = stop(seg, E, i)
        BY <3>2 DEF Stops
      <4>2. i # 1
        BY <1>9, <3>1, <4>1
      <4> QED  BY <1>7, <2>1, <4>1, <4>2
    <3> QED  BY <1>6, <2>1, <3>1, <3>2
  <2>2. CASE a = t /\ c # t /\ y[a] = c - t
    <3>1. a + y[a] = c
      BY <1>1, <2>2
    <3> QED  BY <1>6, <3>1
  <2>3. CASE a = c /\ y[a] = 6
    BY <1>1, <1>7, <2>3
  <2>4. CASE a = q /\ y[a] = s
    BY <1>1, <1>7, <2>4
  <2> QED  BY <1>10, <2>1, <2>2, <2>3, <2>4
<1>15. \A a \in DOMAIN y : \A b \in DOMAIN y \cup Stops(seg2, F) : b <= a \/ a + y[a] <= b
  <2> SUFFICES ASSUME NEW a \in DOMAIN y, NEW b \in DOMAIN y \cup Stops(seg2, F)
               PROVE  b <= a \/ a + y[a] <= b
    OBVIOUS
  <2>1. /\ b \in Nat
        /\ \/ b \in DOMAIN z /\ b <= t
           \/ b = t
           \/ b = c
           \/ b = q
           \/ b = F
           \/ b = c + 6
           \/ b \in Stops(seg, E) /\ b + 2 <= t
    <3>1. CASE b \in DOMAIN y
      BY <1>2, <1>6, <1>12, <3>1
    <3>2. CASE b \in Stops(seg2, F)
      <4>1. b = F \/ b = c + 6 \/ \E i \in DOMAIN seg \ {1} : b = stop(seg, E, i)
        BY <1>1, <1>7, <3>2
      <4> QED  BY <1>2, <1>11, <3>2, <4>1 DEF Stops
    <3> QED  BY <3>1, <3>2
  <2>2. CASE a \in DOMAIN z /\ a # t /\ y[a] = z[a] /\ a + z[a] <= t
    <3>1. a \in Nat /\ z[a] \in Nat
      BY <1>4, <2>2
    <3>2. CASE b \in DOMAIN z \cup Stops(seg, E)
      BY <2>2, <3>2 DEF Layout
    <3>3. CASE b = t \/ b = c \/ b = q \/ b = F \/ b = c + 6
      BY <1>1, <2>2, <3>1, <3>3
    <3> QED  BY <2>1, <3>2, <3>3
  <2>3. CASE a = t /\ c # t /\ y[a] = c - t
    BY <1>1, <2>1, <2>3
  <2>4. CASE a = c /\ y[a] = 6
    BY <1>1, <2>1, <2>4
  <2>5. CASE a = q /\ y[a] = s
    BY <1>1, <2>1, <2>5
  <2> QED  BY <1>10, <2>2, <2>3, <2>4, <2>5
<1>16. \A a \in DOMAIN y : \E i \in DOMAIN seg2 :
           seg2[i].base <= a /\ a + y[a] <= stop(seg2, F, i)
  <2> SUFFICES ASSUME NEW a \in DOMAIN y
               PROVE  \E i \in DOMAIN seg2 : seg2[i].base <= a /\ a + y[a] <= stop(seg2, F, i)
    OBVIOUS
  <2>1. CASE a \in DOMAIN z /\ a # t /\ y[a] = z[a] /\ a + z[a] <= t
    <3>1. PICK i \in DOMAIN seg : seg[i].base <= a /\ a + z[a] <= stop(seg, E, i)
      BY <2>1 DEF Layout
    <3>2. CASE i = 1
      <4>1. a + y[a] <= c + 6
        BY <1>1, <1>4, <2>1
      <4> QED  BY <1>1, <1>7, <1>8, <3>1, <3>2, <4>1
    <3>3. CASE i # 1
      BY <1>7, <2>1, <3>1, <3>3
    <3> QED  BY <3>2, <3>3
  <2>2. CASE a = t /\ c # t /\ y[a] = c - t
    <3>1. a + y[a] <= c + 6 /\ seg2[2].base <= a
      BY <1>1, <1>2, <1>8, <2>2
    <3> QED  BY <1>1, <1>7, <3>1
  <2>3. CASE a = c /\ y[a] = 6
    <3>1. a + y[a] <= c + 6 /\ seg2[2].base <= a
      BY <1>1, <1>2, <1>3, <1>8, <1>9, <2>3
    <3> QED  BY <1>1, <1>7, <3>1
  <2>4. CASE a = q /\ y[a] = s
    BY <1>1, <1>7, <1>8, <2>4
  <2> QED  BY <1>10, <2>1, <2>2, <2>3, <2>4
<1>17. \A i \in DOMAIN seg2 : first(seg2, i) \in DOMAIN y
  <2> SUFFICES ASSUME NEW k \in DOMAIN seg2 PROVE first(seg2, k) \in DOMAIN y
    OBVIOUS
  <2>1. \A i \in DOMAIN seg : first(seg, i) \in DOMAIN y
    BY <1>6 DEF Layout
  <2>2. CASE k = 1
    BY <1>6, <1>8, <2>2
  <2>3. CASE k = 2
    BY <1>7, <1>9, <2>1, <2>3
  <2>4. CASE k \notin {1, 2}
    BY <1>7, <2>1, <2>4
  <2> QED  BY <2>2, <2>3, <2>4
<1>18. \A b \in DOMAIN y : \/ \E i \in DOMAIN seg2 : b = first(seg2, i)
                           \/ \E a \in DOMAIN y : a + y[a] = b
  <2> SUFFICES ASSUME NEW b \in DOMAIN y
               PROVE  \/ \E i \in DOMAIN seg2 : b = first(seg2, i)
                      \/ \E a \in DOMAIN y : a + y[a] = b
    OBVIOUS
  <2>1. CASE b \in DOMAIN z
    <3>1. CASE \E i \in DOMAIN seg : b = first(seg, i)
      <4>1. PICK i \in DOMAIN seg : b = first(seg, i)
        BY <3>1
      <4>2. CASE i = 1
        BY <1>7, <4>1, <4>2
      <4>3. CASE i # 1
        BY <1>7, <4>1, <4>3
      <4> QED  BY <4>2, <4>3
    <3>2. CASE \E a \in DOMAIN z : a + z[a] = b
      <4>1. PICK a \in DOMAIN z : a + z[a] = b
        BY <3>2
      <4>2. a # t
        BY <1>2, <1>4, <2>1, <4>1
      <4> QED  BY <1>6, <4>1, <4>2
    <3> QED  BY <2>1, <3>1, <3>2 DEF Layout
  <2>2. CASE b = c /\ c # t
    <3>1. t + y[t] = b
      BY <1>1, <1>6, <2>2
    <3> QED  BY <1>6, <3>1
  <2>3. CASE b = q
    BY <1>7, <1>8, <2>3
  <2> QED  BY <1>6, <2>1, <2>2, <2>3
<1>19. \A a \in DOMAIN y : a + y[a] # F => Even(y[a]) /\ y[a] >= 4
  <2> SUFFICES ASSUME NEW a \in DOMAIN y, a + y[a] # F PROVE Even(y[a]) /\ y[a] >= 4
    OBVIOUS
  <2>1. CASE a \in DOMAIN z /\ a # t /\ y[a] = z[a] /\ a + z[a] <= t
    <3>1. a + z[a] # E
      <4>1. a + z[a] # t + z[t]
        BY <2>1, LayoutEnds
      <4> QED  BY <4>1
    <3> QED  BY <2>1, <3>1 DEF Layout
  <2>2. CASE a = t /\ c # t /\ y[a] = c - t
    <3>1. Even(c - t)
      <4>1. c \in Int /\ t \in Int /\ Even(t) /\ Even(c)
        BY <1>1
      <4> QED  BY <4>1, EvenSum
    <3> QED  BY <1>1, <2>2, <3>1
  <2>3. CASE a = c /\ y[a] = 6
    BY <1>1, <2>3
  <2>4. CASE a = q /\ y[a] = s
    BY <1>1, <2>4
  <2> QED  BY <1>10, <2>1, <2>2, <2>3, <2>4
<1>20. Layout(y, seg2, F)
  BY <1>12, <1>13, <1>14, <1>15, <1>16, <1>17, <1>18, <1>19 DEF Layout
<1> QED  BY <1>2, <1>5, <1>20

-------------------------------------------------------------------------------
(* The headers after a segment was added.                                  *)
AddedHeaders(h, g, t, c, q, s, F) ==
    /\ \A a \in Addr : a < t => g[a] = h[a]
    /\ g[t].pinuse
    /\ c # t => g[t] = FreeHeader(c - t) /\ ~g[c].pinuse /\ g[c].prev_foot = c - t
    /\ g[c].size = SegmentRecord /\ g[c].cinuse
    /\ g[c + SegmentRecord] = Fencepost
    /\ g[q] = FreeHeader(s) /\ g[F] = FootHeader

(* The headers agree with the new layout. *)
LEMMA TagsAdded ==
  ASSUME NEW seg, NEW E, NEW lo, NEW hi, Segs(seg, E, lo, hi), NEW z, Layout(z, seg, E),
         NEW t \in DOMAIN z, t + z[t] = E,
         NEW c, NEW q, NEW s, NEW F, NEW seg2, Shifted(seg, seg2, c),
         NEW hi2, Placed(seg2, E, hi, hi2, t, c, q, s, F),
         NEW y, Rearranged(z, y, t, c, q, s),
         NEW U, NEW h, Tags(h, z, seg, E, U, {}), t \notin U, h[t].pinuse, Apart(z, U),
         U \subseteq DOMAIN z,
         NEW g, AddedHeaders(h, g, t, c, q, s, F)
  PROVE  Tags(g, y, seg2, F, U \cup {c}, {})
<1>1. /\ E \in Nat /\ t \in Nat /\ c \in Nat /\ q \in Nat /\ s \in Nat /\ s > 0
      /\ F \in Nat /\ SegmentRecord = 6
      /\ t <= c /\ c <= E /\ (c = t \/ t + 4 <= c) /\ q < F /\ t < q /\ c + 6 < q /\ F = q + s
  BY PlacedFacts
<1>2. /\ \A a \in DOMAIN z : a <= t /\ (a # t => a + z[a] <= t)
      /\ \A i \in DOMAIN seg \ {1} : stop(seg, E, i) + 2 <= t
  BY TopHighest
<1>3. \A i \in DOMAIN seg : stop(seg, E, i) \in Nat /\ stop(seg, E, i) \in Addr
  BY SegTyped, StopsFacts
<1>4. \A a \in DOMAIN z : a \in Nat /\ a \in Addr /\ z[a] \in Nat /\ z[a] > 0 /\ a + z[a] \in Addr
  BY LayoutBounds
<1>5. q \notin DOMAIN z /\ (c = t \/ c \notin DOMAIN z)
  BY LayoutAdded
<1>6. /\ DOMAIN y = DOMAIN z \cup {c, q} /\ y[c] = 6 /\ y[q] = s
      /\ c # t => y[t] = c - t
      /\ \A a \in DOMAIN z : a # t => y[a] = z[a]
  BY <1>1 DEF Rearranged
<1>7. \A k \in DOMAIN seg2 \ {1, 2} : \E i \in DOMAIN seg \ {1} : k = i + 1
  BY DEF Shifted
<1>8. /\ stop(seg2, F, 2) = c + SegmentRecord
      /\ first(seg2, 2) = first(seg, 1)
      /\ \A i \in DOMAIN seg \ {1} : /\ stop(seg2, F, i + 1) = stop(seg, E, i)
                                     /\ first(seg2, i + 1) = first(seg, i)
  BY <1>1, ShiftedFacts
<1>9. /\ \A a \in Addr : a < t => g[a] = h[a]
      /\ g[t].pinuse
      /\ c # t => /\ g[t].size = c - t /\ ~g[t].cinuse
                  /\ ~g[c].pinuse /\ g[c].prev_foot = c - t
      /\ g[c].size = 6 /\ g[c].cinuse
      /\ g[c + 6].size = 1 /\ g[c + 6].cinuse /\ g[c + 6].pinuse
      /\ g[q].size = s /\ ~g[q].cinuse /\ g[q].pinuse /\ ~g[F].pinuse
  BY <1>1 DEF AddedHeaders, FreeHeader, FootHeader, Header, Fencepost
<1>10. ASSUME NEW a \in DOMAIN z, a # t
       PROVE  /\ g[a] = h[a]
              /\ g[a + z[a]].pinuse <=> h[a + z[a]].pinuse
              /\ a \notin U => g[a + z[a]] = h[a + z[a]]
  <2>1. a < t /\ a + z[a] <= t /\ a + z[a] \in Nat
    BY <1>1, <1>2, <1>4, <1>10
  <2>2. g[a] = h[a]
    BY <1>4, <1>9, <2>1
  <2>3. a + z[a] # t => g[a + z[a]] = h[a + z[a]]
    BY <1>1, <1>4, <1>9, <2>1
  <2>4. a \notin U => a + z[a] # t
    BY DEF Apart
  <2> QED  BY <1>9, <2>2, <2>3, <2>4
<1>11. ASSUME NEW a \in DOMAIN y
       PROVE  /\ g[a].size = y[a]
              /\ g[a].cinuse <=> a \in U \cup {c}
              /\ g[a + y[a]].pinuse <=> a \in U \cup {c}
              /\ a \notin U \cup {c} /\ a + y[a] # F => g[a + y[a]].prev_foot = y[a]
  <2>1. CASE a = q
    <3>1. q \notin U \cup {c}
      BY <1>1, <1>5
    <3>2. g[a].size = y[a] /\ ~g[a].cinuse
      BY <1>6, <1>9, <2>1
    <3>3. a + y[a] = F
      BY <1>1, <1>6, <2>1
    <3> QED  BY <1>9, <2>1, <3>1, <3>2, <3>3
  <2>2. CASE a = c
    <3>1. a + y[a] = c + 6
      BY <1>6, <2>2
    <3> QED  BY <1>6, <1>9, <2>2, <3>1
  <2>3. CASE a = t /\ a # c
    <3>1. a + y[a] = c /\ y[a] = c - t
      BY <1>1, <1>6, <2>3
    <3>2. a \notin U \cup {c}
      BY <2>3
    <3> QED  BY <1>9, <2>3, <3>1, <3>2
  <2>4. CASE a \notin {t, c, q}
    <3>1. a \in DOMAIN z \ {} /\ a # t /\ y[a] = z[a] /\ a # c
      BY <1>6, <2>4
    <3>2. a + z[a] # E
      <4>1. a + z[a] # t + z[t]
        BY <3>1, LayoutEnds
      <4> QED  BY <4>1
    <3>3. /\ h[a].size = z[a] /\ (h[a].cinuse <=> a \in U) /\ (h[a + z[a]].pinuse <=> a \in U)
          /\ a \notin U => h[a + z[a]].prev_foot = z[a]
      BY <3>1, <3>2 DEF Tags
    <3> QED  BY <1>10, <3>1, <3>3
  <2> QED  BY <2>1, <2>2, <2>3, <2>4
<1>12. \A i \in DOMAIN seg : g[first(seg, i)].pinuse
  <2> SUFFICES ASSUME NEW i \in DOMAIN seg PROVE g[first(seg, i)].pinuse
    OBVIOUS
  <2>1. h[first(seg, i)].pinuse /\ first(seg, i) \in DOMAIN z
    BY DEF Tags, Layout
  <2> QED  BY <1>9, <1>10, <2>1
<1>13. \A k \in DOMAIN seg2 : g[first(seg2, k)].pinuse
  <2> SUFFICES ASSUME NEW k \in DOMAIN seg2 PROVE g[first(seg2, k)].pinuse
    OBVIOUS
  <2>1. CASE k = 1
    <3>1. first(seg2, 1) = q
      BY DEF Placed, first
    <3> QED  BY <1>9, <2>1, <3>1
  <2>2. CASE k = 2
    <3>1. 1 \in DOMAIN seg
      BY DEF Segs
    <3> QED  BY <1>8, <1>12, <2>2, <3>1
  <2>3. CASE k \notin {1, 2}
    BY <1>7, <1>8, <1>12, <2>3
  <2> QED  BY <2>1, <2>2, <2>3
<1>14. \A k \in DOMAIN seg2 \ {1} : g[stop(seg2, F, k)].size = 1 /\ g[stop(seg2, F, k)].cinuse
  <2> SUFFICES ASSUME NEW k \in DOMAIN seg2 \ {1}
               PROVE  g[stop(seg2, F, k)].size = 1 /\ g[stop(seg2, F, k)].cinuse
    OBVIOUS
  <2>1. CASE k = 2
    BY <1>1, <1>8, <1>9, <2>1
  <2>2. CASE k # 2
    <3>1. PICK i \in DOMAIN seg \ {1} : k = i + 1
      BY <1>7, <2>2
    <3>2. stop(seg, E, i) < t /\ stop(seg, E, i) \in Addr
      BY <1>1, <1>2, <1>3
    <3>3. g[stop(seg, E, i)] = h[stop(seg, E, i)]
      BY <1>9, <3>2
    <3> QED  BY <1>8, <3>1, <3>3 DEF Tags
  <2> QED  BY <2>1, <2>2
<1> QED  BY <1>9, <1>11, <1>13, <1>14 DEF Tags

Headed(seg2, seg, b, size, c) ==
    seg2 = <<[base |-> b, size |-> size, record |-> NULL],
             [seg[1] EXCEPT !.record = c]>> \o Tail(seg)

(* The list that add_segment makes is such a shift. *)
LEMMA ShiftedSeq ==
  ASSUME NEW seg \in Seq(SegmentSet), 1 \in DOMAIN seg, NEW b \in Addr, NEW size \in size_t,
         NEW c \in Addr,
         NEW seg2, Headed(seg2, seg, b, size, c)
  PROVE  Shifted(seg, seg2, c) /\ seg2[1].base = b /\ EndOf(seg2[1]) = b + size
         /\ seg2[1].size = size /\ seg2[2].size = seg[1].size /\ Len(seg2) = Len(seg) + 1
<1> DEFINE u == [base |-> b, size |-> size, record |-> NULL]
           v == [seg[1] EXCEPT !.record = c]
           w == <<u, v>>
           x == Tail(seg)
<1>1. u \in SegmentSet /\ u.base = b /\ u.size = size /\ u.record = NULL
  <2>1. NULL \in Addr
    BY Small
  <2> QED  BY <2>1 DEF SegmentSet
<1>2. /\ seg[1] \in SegmentSet
      /\ v \in SegmentSet /\ v.base = seg[1].base /\ v.size = seg[1].size /\ v.record = c
  <2>1. seg[1] \in SegmentSet
    BY ElementOfSeq, LenProperties
  <2> QED  BY <2>1 DEF SegmentSet
<1> HIDE DEF u, v
<1>3. w \in Seq(SegmentSet) /\ Len(w) = 2 /\ w[1] = u /\ w[2] = v
  BY <1>1, <1>2
<1>4. seg # <<>> /\ Len(seg) \in Nat /\ Len(seg) >= 1 /\ DOMAIN seg = 1 .. Len(seg)
  OBVIOUS
<1>5. x \in Seq(SegmentSet) /\ Len(x) = Len(seg) - 1 /\ \A i \in 1 .. Len(x) : x[i] = seg[i + 1]
  BY <1>4
<1> HIDE DEF w, x
<1>6. seg2 = w \o x
  BY DEF Headed, w, x, u, v
<1>7. /\ seg2 \in Seq(SegmentSet) /\ Len(seg2) = 2 + Len(x) /\ DOMAIN seg2 = 1 .. Len(seg2)
      /\ \A i \in 1 .. 2 : seg2[i] = w[i]
      /\ \A i \in 3 .. Len(seg2) : seg2[i] = x[i - 2]
  <2>1. PICK r : r = w \o x
    OBVIOUS
  <2>2. /\ w \o x \in Seq(SegmentSet) /\ Len(w \o x) = Len(w) + Len(x)
        /\ \A i \in 1 .. Len(w) + Len(x) :
               (w \o x)[i] = IF i <= Len(w) THEN w[i] ELSE x[i - Len(w)]
    <3>1. w \in Seq(SegmentSet) /\ x \in Seq(SegmentSet)
      BY <1>3, <1>5
    <3> QED  BY <3>1, ConcatProperties
  <2>3. Len(r) = 2 + Len(x) /\ r \in Seq(SegmentSet)
    BY <1>3, <2>1, <2>2
  <2>4. Len(x) \in Nat
    BY <1>5
  <2>5. DOMAIN r = 1 .. Len(r)
    BY <2>3
  <2>6. \A i \in 1 .. 2 + Len(x) : r[i] = IF i <= 2 THEN w[i] ELSE x[i - 2]
    BY <1>3, <2>1, <2>2
  <2>7. \A i \in 1 .. 2 : r[i] = w[i]
    BY <2>4, <2>6
  <2>8. \A i \in 3 .. Len(r) : r[i] = x[i - 2]
    BY <2>3, <2>4, <2>6
  <2> QED  BY <1>6, <2>1, <2>3, <2>5, <2>7, <2>8
<1>8. \A i \in DOMAIN seg \ {1} : seg2[i + 1] = seg[i]
  <2> SUFFICES ASSUME NEW i \in DOMAIN seg \ {1} PROVE seg2[i + 1] = seg[i]
    OBVIOUS
  <2>1. i \in 2 .. Len(seg)
    BY <1>4
  <2>2. i + 1 \in 3 .. Len(seg2) /\ (i + 1) - 2 = i - 1 /\ i - 1 \in 1 .. Len(x) /\ (i - 1) + 1 = i
    BY <1>4, <1>5, <1>7, <2>1
  <2> QED  BY <1>5, <1>7, <2>2
<1>9. DOMAIN seg2 = {1, 2} \cup {i + 1 : i \in DOMAIN seg \ {1}}
  <2>1. DOMAIN seg2 = 1 .. Len(seg) + 1
    BY <1>4, <1>5, <1>7
  <2>2. {i + 1 : i \in DOMAIN seg \ {1}} = 3 .. Len(seg) + 1
    <3>1. \A j \in 3 .. Len(seg) + 1 : j - 1 \in DOMAIN seg \ {1} /\ j = (j - 1) + 1
      BY <1>4
    <3>2. \A i \in DOMAIN seg \ {1} : i + 1 \in 3 .. Len(seg) + 1
      BY <1>4
    <3> QED  BY <3>1, <3>2
  <2> QED  BY <1>4, <2>1, <2>2
<1>10. seg2[1] = u /\ seg2[2] = v
  BY <1>3, <1>7
<1>11. /\ seg2[1].base = b /\ seg2[1].size = size /\ seg2[1].record = NULL
       /\ seg2[2].base = seg[1].base /\ seg2[2].size = seg[1].size /\ seg2[2].record = c
  BY <1>1, <1>2, <1>10
<1>12. EndOf(seg2[1]) = b + size /\ EndOf(seg2[2]) = EndOf(seg[1])
  BY <1>11 DEF EndOf
<1>13. Len(seg2) = Len(seg) + 1
  BY <1>4, <1>5, <1>7
<1>14. seg2 \in Seq(SegmentSet)
  BY <1>7
<1>15. Shifted(seg, seg2, c)
  BY <1>8, <1>9, <1>11, <1>12, <1>14 DEF Shifted
<1> QED  BY <1>11, <1>12, <1>13, <1>15

-------------------------------------------------------------------------------
(* What adding a segment leaves alone, and the words that are the          *)
(* allocator's.                                                            *)
SameBut(m, n) ==
    /\ n.least_addr = m.least_addr
    /\ n.footprint = m.footprint /\ n.max_footprint = m.max_footprint
    /\ n.footprint_limit = m.footprint_limit /\ n.noncontiguous = m.noncontiguous
    /\ n.granularity = m.granularity
    /\ n.trim_threshold = m.trim_threshold /\ n.brk = m.brk /\ n.aborted = m.aborted

Extent(s) == s.base .. s.base + s.size - 1
Owned(seg) == UNION {Extent(seg[i]) : i \in DOMAIN seg}
RecordsOf(seg) == {seg[i].record : i \in DOMAIN seg \ {1}}

WithSegs(m, seg, h) == [m EXCEPT !.seg = seg, !.chunk = h]

(* Only the segments and the headers change. *)
LEMMA WithSegsFacts ==
  ASSUME NEW m \in State, NEW seg \in Seq(SegmentSet), NEW h \in [Addr -> HeaderSet]
  PROVE  /\ WithSegs(m, seg, h) \in State /\ WithSegs(m, seg, h).chunk = h
         /\ WithSegs(m, seg, h).seg = seg
         /\ SameBut(m, WithSegs(m, seg, h)) /\ SameBins(m, WithSegs(m, seg, h))
         /\ SameDv(m, WithSegs(m, seg, h)) /\ SameTop(m, WithSegs(m, seg, h))
BY DEF WithSegs, State, SameBut, SameBins, SameDv, SameTop

(* Where the record of the old segment goes.                               *)
LEMMA RecordPlace ==
  ASSUME NEW t \in Nat, NEW E \in Nat, Even(t), t < E,
         NEW a, a = align_as_chunk((E + TOP_FOOT_SIZE) - (SegmentRecord + 5)),
         NEW c, c = IF a < t + MIN_CHUNK_SIZE THEN t ELSE a
  PROVE  c \in Nat /\ Even(c) /\ t <= c /\ c <= E /\ (c = t \/ t + 4 <= c)
<1>1. TOP_FOOT_SIZE = 10 /\ SegmentRecord = 6 /\ MIN_CHUNK_SIZE = 4
  BY Small
<1>2. PICK b \in Nat : b = E - 1
  OBVIOUS
<1>3. a = align_as_chunk(b)
  <2>1. (E + TOP_FOOT_SIZE) - (SegmentRecord + 5) = b
    BY <1>1, <1>2
  <2> QED  BY <2>1
<1>4. a \in Nat /\ Even(a) /\ a <= b + 1
  BY <1>3, FirstFacts
<1> QED  BY <1>1, <1>2, <1>4

NewTop(q, s, b, size) == q = align_as_chunk(b) /\ s = size - TOP_FOOT_SIZE - align_offset(b)
TopAt(k, t, E) == k.top = t /\ k.top + k.topsize = E

(* The headers add_segment writes, with the record of the old segment at c.*)
AddedState(k, t, c, b, size, old_end) ==
    LET m0 == init_top(k, b, size - TOP_FOOT_SIZE)
        m1 == set_size_and_pinuse_of_inuse_chunk(m0, c, SegmentRecord)
    IN [m1 EXCEPT !.seg = <<[base |-> b, size |-> size, record |-> NULL],
                            [k.seg[1] EXCEPT !.record = c]>> \o Tail(k.seg),
                  !.chunk = [a \in Addr |->
                      IF a \in c + SegmentRecord .. old_end - 2
                      THEN Fencepost ELSE m1.chunk[a]]]

(* What is in memory then. *)
LEMMA AddedStateFacts ==
  ASSUME NEW k \in State, NEW t, NEW E, TopAt(k, t, E), E \in Addr,
         NEW b \in Addr, NEW size \in size_t, NEW c, NEW seg2, NEW hi, NEW hi2,
         NEW q, NEW s, NEW F, NewTop(q, s, b, size),
         1 \in DOMAIN k.seg, Headed(seg2, k.seg, b, size, c),
         Placed(seg2, E, hi, hi2, t, c, q, s, F),
         NEW n, n = AddedState(k, t, c, b, size, E + TOP_FOOT_SIZE)
  PROVE  /\ n \in State /\ SameBut(k, n) /\ SameBins(k, n) /\ SameDv(k, n)
         /\ n.top = q /\ n.topsize = s /\ n.seg = seg2 /\ Shifted(k.seg, seg2, c)
         /\ n.chunk[c] = UsedHeader(SegmentRecord) /\ n.chunk[c + SegmentRecord] = Fencepost
         /\ n.chunk[q] = FreeHeader(s) /\ n.chunk[F] = FootHeader
         /\ \A a \in Addr : a < t \/ (a = t /\ a # c) => n.chunk[a] = k.chunk[a]
<1>1. /\ E \in Nat /\ t \in Nat /\ c \in Nat /\ q \in Nat /\ s \in Nat /\ s > 0 /\ s \in size_t
      /\ F \in Nat /\ F \in Addr /\ q \in Addr /\ c \in Addr /\ c + 6 \in Addr /\ SegmentRecord = 6
      /\ t <= c /\ c <= E /\ (c = t \/ t + 4 <= c) /\ q < F /\ t < q /\ c + 6 < q /\ F = q + s
      /\ E + 10 <= q
  BY PlacedFacts
<1>2. TOP_FOOT_SIZE = 10 /\ SegmentRecord \in size_t
  <2>1. SizeRange \in Nat /\ SizeRange >= 64
    BY SizeFacts
  <2> QED  BY <2>1, Small
<1> DEFINE m0 == init_top(k, b, size - TOP_FOOT_SIZE)
           m1 == set_size_and_pinuse_of_inuse_chunk(m0, c, SegmentRecord)
           h == [a \in Addr |-> IF a \in c + SegmentRecord .. (E + TOP_FOOT_SIZE) - 2
                                THEN Fencepost ELSE m1.chunk[a]]
<1>3. /\ m0 \in State /\ SameSettings(k, m0) /\ SameBins(k, m0) /\ SameDv(k, m0)
      /\ m0.top = q /\ m0.topsize = s
      /\ m0.chunk[q] = FreeHeader(s) /\ m0.chunk[F] = FootHeader
      /\ \A a \in Addr \ {q, F, E} : m0.chunk[a] = k.chunk[a]
  <2>1. /\ q \in Addr /\ s \in size_t \ {0} /\ q + s \in Addr /\ k.top + k.topsize \in Addr
        /\ F = q + s
    BY <1>1 DEF TopAt
  <2>2. PICK w : w = size - TOP_FOOT_SIZE
    OBVIOUS
  <2>3. s = w - align_offset(b) /\ q = align_as_chunk(b) /\ m0 = init_top(k, b, w)
    BY <2>2 DEF NewTop
  <2>4. /\ m0 \in State /\ SameSettings(k, m0) /\ SameBins(k, m0) /\ SameDv(k, m0)
        /\ m0.top = q /\ m0.topsize = s
        /\ m0.chunk[q] = FreeHeader(s) /\ m0.chunk[q + s] = FootHeader
        /\ \A a \in Addr \ {q, q + s, k.top + k.topsize} : m0.chunk[a] = k.chunk[a]
    <3> HIDE DEF m0
    <3> QED  BY <2>1, <2>3, InitTopFacts
  <2>5. k.top + k.topsize = E
    BY DEF TopAt
  <2> QED  BY <2>1, <2>4, <2>5
<1> HIDE DEF m0
<1>4. /\ OnlyChunks(m0, m1) /\ m1.chunk \in [Addr -> HeaderSet]
      /\ m1.chunk[c] = UsedHeader(SegmentRecord)
      /\ \A a \in Addr \ {c} : m1.chunk[a] = m0.chunk[a]
  BY <1>1, <1>2, <1>3, SetSizeOfInuseFacts
<1> HIDE DEF m1
<1>5. /\ h \in [Addr -> HeaderSet]
      /\ \A a \in Addr : a < c + 6 \/ a > E + 8 => h[a] = m1.chunk[a]
      /\ h[c + 6] = Fencepost
  <2>1. \A a \in Addr : a \in Nat
    BY Small
  <2>2. h \in [Addr -> HeaderSet]
    BY <1>4, Small
  <2>3. \A a \in Addr : a < c + 6 \/ a > E + 8 => a \notin c + SegmentRecord .. (E + TOP_FOOT_SIZE) - 2
    BY <1>1, <1>2, <2>1
  <2>4. c + 6 \in c + SegmentRecord .. (E + TOP_FOOT_SIZE) - 2
    BY <1>1, <1>2
  <2> QED  BY <1>1, <2>2, <2>3, <2>4
<1> HIDE DEF h
<1>6. Shifted(k.seg, seg2, c)
  <2>1. k.seg \in Seq(SegmentSet)
    BY DEF State
  <2>2. PICK seg \in Seq(SegmentSet) : seg = k.seg
    BY <2>1
  <2>3. 1 \in DOMAIN seg /\ Headed(seg2, seg, b, size, c) /\ c \in Addr
    BY <1>1, <2>2
  <2>4. Shifted(seg, seg2, c)
    BY <2>3, ShiftedSeq
  <2> QED  BY <2>2, <2>4
<1>7. n = WithSegs(m1, seg2, h)
  BY DEF AddedState, WithSegs, Headed, m0, m1, h
<1>8. m1 \in State /\ seg2 \in Seq(SegmentSet)
  BY <1>4, <1>6 DEF OnlyChunks, Shifted
<1>9. /\ n \in State /\ n.chunk = h /\ n.seg = seg2 /\ SameBut(m1, n) /\ SameBins(m1, n)
      /\ SameDv(m1, n) /\ SameTop(m1, n)
  BY <1>5, <1>7, <1>8, WithSegsFacts
<1>10. SameBut(k, n)
  BY <1>3, <1>4, <1>9 DEF SameBut, SameSettings, OnlyChunks, SameSystem
<1>11. SameBins(k, n)
  BY <1>3, <1>4, <1>9 DEF SameBins, OnlyChunks
<1>12. SameDv(k, n)
  BY <1>3, <1>4, <1>9 DEF SameDv, OnlyChunks
<1>13. n.top = q /\ n.topsize = s
  BY <1>3, <1>4, <1>9 DEF SameTop, OnlyChunks
<1>14. h[c] = UsedHeader(SegmentRecord) /\ h[q] = FreeHeader(s) /\ h[F] = FootHeader
  <2>1. h[c] = m1.chunk[c] /\ h[q] = m1.chunk[q] /\ h[F] = m1.chunk[F]
    BY <1>1, <1>5
  <2>2. q \in Addr \ {c} /\ F \in Addr \ {c}
    BY <1>1
  <2> QED  BY <1>3, <1>4, <2>1, <2>2
<1>15. \A a \in Addr : a < t \/ (a = t /\ a # c) => h[a] = k.chunk[a]
  <2> SUFFICES ASSUME NEW a \in Addr, a < t \/ (a = t /\ a # c) PROVE h[a] = k.chunk[a]
    OBVIOUS
  <2>1. a \in Nat
    BY Small
  <2>2. h[a] = m1.chunk[a] /\ a \in Addr \ {c} /\ a \in Addr \ {q, F, E}
    <3>1. a < c + 6 /\ a # c /\ a # q /\ a # F /\ a # E
      BY <1>1, <2>1
    <3> QED  BY <1>5, <3>1
  <2> QED  BY <1>3, <1>4, <2>2
<1> QED  BY <1>1, <1>5, <1>6, <1>9, <1>10, <1>11, <1>12, <1>13, <1>14, <1>15

-------------------------------------------------------------------------------
(* The allocator owns the words of the new segment too. *)
LEMMA OwnedAdded ==
  ASSUME NEW seg, NEW E, NEW lo, NEW hi, Segs(seg, E, lo, hi), NEW c \in Nat,
         NEW seg2, Shifted(seg, seg2, c)
  PROVE  /\ Owned(seg2) = Owned(seg) \cup Extent(seg2[1])
         /\ RecordsOf(seg2) = RecordsOf(seg) \cup {c}
<1>1. /\ 1 \in DOMAIN seg2 /\ 2 \in DOMAIN seg2
      /\ \A i \in DOMAIN seg \ {1} : i + 1 \in DOMAIN seg2 \ {1, 2} /\ i \in Nat /\ i > 1
  BY ShiftedFacts
<1>2. /\ \A k \in DOMAIN seg2 \ {1, 2} : \E i \in DOMAIN seg \ {1} : k = i + 1
      /\ \A i \in DOMAIN seg \ {1} : seg2[i + 1] = seg[i]
      /\ seg2[2].record = c
  BY DEF Shifted
<1>3. Extent(seg2[2]) = Extent(seg[1])
  <2>1. \A x \in SegmentSet : Extent(x) = x.base .. EndOf(x) - 1
    <3>1. \A x \in SegmentSet : x.base \in Int /\ x.size \in Int
      BY Small DEF SegmentSet
    <3> QED  BY <3>1 DEF Extent, EndOf
  <2>2. seg2[2].base = seg[1].base /\ EndOf(seg2[2]) = EndOf(seg[1])
    BY DEF Shifted
  <2>3. seg2[2] \in SegmentSet /\ seg[1] \in SegmentSet
    <3>1. seg2 \in Seq(SegmentSet) /\ seg \in Seq(SegmentSet) /\ 1 \in DOMAIN seg
      BY DEF Shifted, Segs
    <3> QED  BY <1>1, <3>1, ElementOfSeq, LenProperties
  <2> QED  BY <2>1, <2>2, <2>3
<1>4. 1 \in DOMAIN seg
  BY DEF Segs
<1>5. Owned(seg2) = Owned(seg) \cup Extent(seg2[1])
  <2>1. ASSUME NEW k \in DOMAIN seg2
        PROVE  Extent(seg2[k]) \subseteq Owned(seg) \cup Extent(seg2[1])
    <3>1. CASE k = 2
      BY <1>3, <1>4, <3>1 DEF Owned
    <3>2. CASE k \notin {1, 2}
      <4>1. PICK i \in DOMAIN seg \ {1} : k = i + 1
        BY <1>2, <3>2
      <4> QED  BY <1>2, <4>1 DEF Owned
    <3> QED  BY <3>1, <3>2
  <2>2. ASSUME NEW i \in DOMAIN seg
        PROVE  Extent(seg[i]) \subseteq Owned(seg2)
    <3>1. CASE i = 1
      BY <1>1, <1>3, <3>1 DEF Owned
    <3>2. CASE i # 1
      BY <1>1, <1>2, <3>2 DEF Owned
    <3> QED  BY <3>1, <3>2
  <2>3. Extent(seg2[1]) \subseteq Owned(seg2)
    BY <1>1 DEF Owned
  <2>4. Owned(seg2) \subseteq Owned(seg) \cup Extent(seg2[1])
    BY <2>1 DEF Owned
  <2>5. Owned(seg) \subseteq Owned(seg2)
    BY <2>2 DEF Owned
  <2> QED  BY <2>3, <2>4, <2>5
<1>6. RecordsOf(seg2) = RecordsOf(seg) \cup {c}
  <2>1. ASSUME NEW k \in DOMAIN seg2 \ {1} PROVE seg2[k].record \in RecordsOf(seg) \cup {c}
    <3>1. CASE k = 2
      BY <1>2, <3>1
    <3>2. CASE k # 2
      <4>1. PICK i \in DOMAIN seg \ {1} : k = i + 1
        BY <1>2, <3>2
      <4> QED  BY <1>2, <4>1 DEF RecordsOf
    <3> QED  BY <3>1, <3>2
  <2>2. ASSUME NEW i \in DOMAIN seg \ {1} PROVE seg[i].record \in RecordsOf(seg2)
    <3>1. i + 1 \in DOMAIN seg2 \ {1} /\ seg2[i + 1].record = seg[i].record
      BY <1>1, <1>2
    <3> QED  BY <3>1 DEF RecordsOf
  <2>3. c \in RecordsOf(seg2)
    <3>1. 2 \in DOMAIN seg2 \ {1}
      BY <1>1
    <3> QED  BY <1>2, <3>1 DEF RecordsOf
  <2> QED  BY <2>1, <2>2, <2>3 DEF RecordsOf
<1> QED  BY <1>5, <1>6

(* The heap with another segment, whose record is at c.                    *)
Grown(m, z, U, n) ==
    \E c, y : /\ c \notin U /\ Heap(n, y, U \cup {c})
              /\ \A a \in U : y[a] = z[a]
              /\ RecordsOf(n.seg) = RecordsOf(m.seg) \cup {c}

(* Once the headers are written and the rest of the old top is to be put   *)
(* into a bin.                                                             *)
Rebuilt(m, j, seg2, t, c, q, s, L) ==
    /\ t = m.top /\ L = {t} \ {c}
    /\ j \in State /\ ~j.aborted /\ j.least_addr = m.least_addr /\ j.seg = seg2
    /\ SameBins(m, j) /\ SameDv(m, j) /\ j.top = q /\ j.topsize = s

Agree(y, z, U) == \A a \in U : y[a] = z[a]

(* Everything is a heap then, but for the rest of the old top. *)
LEMMA HoleAdded ==
  ASSUME NEW m, NEW z, NEW U, Heap(m, z, U), NEW E, NEW t, TopAt(m, t, E),
         NEW c, NEW q, NEW s, NEW F, NEW seg2, Shifted(m.seg, seg2, c),
         NEW j, NEW L, Rebuilt(m, j, seg2, t, c, q, s, L),
         Placed(seg2, E, m.brk, j.brk, t, c, q, s, F),
         NEW y, Rearranged(z, y, t, c, q, s),
         AddedHeaders(m.chunk, j.chunk, t, c, q, s, F)
  PROVE  /\ Hole(j, y, U \cup {c}, {}, L, F) /\ TopOK(j, y, U \cup {c}, L, F)
         /\ DvOK(j, y, U \cup {c}, L) /\ c \notin U /\ Agree(y, z, U)
<1>0. /\ t = m.top /\ L = {t} \ {c}
      /\ j \in State /\ ~j.aborted /\ j.least_addr = m.least_addr /\ j.seg = seg2
      /\ SameBins(m, j) /\ SameDv(m, j) /\ j.top = q /\ j.topsize = s
  BY DEF Rebuilt
<1>1. /\ Hole(m, z, U, {}, {}, E) /\ TopOK(m, z, U, {}, E) /\ DvOK(m, z, U, {})
  BY <1>0 DEF Heap, TopAt
<1>2. t \in DOMAIN z /\ t \notin U /\ t + z[t] = E
  BY <1>0, <1>1 DEF TopOK
<1>3. /\ m \in State /\ Segs(m.seg, E, m.least_addr, m.brk) /\ Layout(z, m.seg, E)
      /\ Tags(m.chunk, z, m.seg, E, U, {}) /\ Records(m.seg, z, U) /\ Apart(z, U \cup {})
      /\ Bins(m, z, U \cup {} \cup {m.top, m.dv}) /\ U \subseteq DOMAIN z
  BY <1>1 DEF Hole
<1>4. m.chunk[t].pinuse
  BY <1>0, <1>1, <1>2, HoleFreePinuse
<1>5. /\ E \in Nat /\ t \in Nat /\ c \in Nat /\ q \in Nat /\ s \in Nat /\ s > 0
      /\ F \in Nat /\ F \in Addr /\ q \in Addr /\ SegmentRecord = 6
      /\ t <= c /\ (c = t \/ t + 4 <= c) /\ q < F /\ t < q /\ c + 6 < q /\ F = q + s
  BY PlacedFacts
<1>6. /\ Layout(y, seg2, F) /\ q \notin DOMAIN z /\ (c = t \/ c \notin DOMAIN z)
      /\ \A a \in DOMAIN z : a <= t
  <2>1. Layout(y, seg2, F)
    <3>1. PICK seg : seg = m.seg
      OBVIOUS
    <3>2. PICK hi, lo : hi = m.brk /\ lo = m.least_addr
      OBVIOUS
    <3>3. PICK hi2 : hi2 = j.brk
      OBVIOUS
    <3>4. /\ Segs(seg, E, lo, hi) /\ Layout(z, seg, E) /\ t \in DOMAIN z /\ t + z[t] = E
          /\ Shifted(seg, seg2, c) /\ Placed(seg2, E, hi, hi2, t, c, q, s, F)
          /\ Rearranged(z, y, t, c, q, s)
      BY <1>2, <1>3, <3>1, <3>2, <3>3
    <3> QED  BY <3>4, LayoutAdded
  <2>2. q \notin DOMAIN z
    BY <1>2, <1>3, LayoutAdded
  <2>3. c = t \/ c \notin DOMAIN z
    BY <1>2, <1>3, LayoutAdded
  <2>4. \A a \in DOMAIN z : a <= t
    BY <1>2, <1>3, TopHighest
  <2> QED  BY <2>1, <2>2, <2>3, <2>4
<1>7. Segs(seg2, F, j.least_addr, j.brk)
  BY <1>0, <1>2, <1>3, SegsAdded
<1>8. Tags(j.chunk, y, seg2, F, U \cup {c}, {})
  <2>1. Apart(z, U)
    BY <1>3
  <2> QED  BY <1>2, <1>3, <1>4, <2>1, TagsAdded
<1>9. /\ DOMAIN y = DOMAIN z \cup {c, q} /\ y[c] = 6 /\ y[q] = s
      /\ c # t => y[t] = c - t
      /\ \A a \in DOMAIN z : a # t => y[a] = z[a]
  BY <1>5 DEF Rearranged
<1>10. c \notin U /\ \A a \in U : y[a] = z[a]
  BY <1>2, <1>3, <1>6, <1>9
<1>11. Records(seg2, y, U \cup {c})
  <2> SUFFICES ASSUME NEW k \in DOMAIN seg2 \ {1}
               PROVE  seg2[k].record \in U \cup {c} /\ y[seg2[k].record] = SegmentRecord
    BY DEF Records
  <2>1. CASE k = 2
    BY <1>5, <1>9, <2>1 DEF Shifted
  <2>2. CASE k # 2
    <3>1. PICK i \in DOMAIN m.seg \ {1} : k = i + 1
      BY <2>2 DEF Shifted
    <3>2. seg2[k] = m.seg[i]
      BY <3>1 DEF Shifted
    <3> QED  BY <1>3, <1>10, <3>2 DEF Records
  <2> QED  BY <2>1, <2>2
<1>12. Apart(y, (U \cup {c}) \cup {})
  <2>1. F \notin DOMAIN y
    <3>1. q \in DOMAIN y
      BY <1>9
    <3>2. F \in Stops(seg2, F)
      BY <1>6, <1>7, <3>1, StopsFacts
    <3> QED  BY <1>6, <3>2 DEF Layout
  <2> SUFFICES ASSUME NEW a \in DOMAIN y \ (U \cup {c})
               PROVE  a + y[a] \notin DOMAIN y \ (U \cup {c})
    BY DEF Apart
  <2>2. CASE a = q
    BY <1>5, <1>9, <2>1, <2>2
  <2>3. CASE a = t
    <3>1. a + y[a] = c
      BY <1>5, <1>9, <2>3
    <3> QED  BY <3>1
  <2>4. CASE a # q /\ a # t
    <3>1. a \in DOMAIN z \ U /\ y[a] = z[a]
      BY <1>9, <2>4
    <3>2. a + z[a] \notin DOMAIN z \ U
      BY <1>3, <3>1 DEF Apart
    <3>3. a + z[a] # q
      <4>1. a + z[a] <= t /\ a + z[a] \in Nat
        BY <1>2, <1>3, <2>4, <3>1, TopHighest, LayoutBounds
      <4> QED  BY <1>5, <4>1
    <3> QED  BY <1>9, <3>1, <3>2, <3>3
  <2> QED  BY <2>2, <2>3, <2>4
<1>13. j.dv = m.dv /\ j.dvsize = m.dvsize
  BY <1>0 DEF SameDv
<1>14. Bins(j, y, (U \cup {c}) \cup L \cup {j.top, j.dv})
  <2>1. PICK X : X = U \cup {} \cup {m.top, m.dv}
    OBVIOUS
  <2>2. PICK Y : Y = (U \cup {c}) \cup L \cup {j.top, j.dv}
    OBVIOUS
  <2>3. \A a : a \in Y <=> a \in X \/ a = c \/ a = q
    BY <1>0, <1>13, <2>1, <2>2
  <2>4. DOMAIN z \ X = DOMAIN y \ Y
    <3>1. \A a \in DOMAIN z : a \in X \/ (a # c /\ a # q)
      BY <1>0, <1>6, <2>1
    <3> QED  BY <1>9, <2>3, <3>1
  <2>5. \A a \in DOMAIN z \ X : y[a] = z[a]
    <3>1. t \in X
      BY <1>0, <2>1
    <3> QED  BY <1>9, <3>1
  <2>6. Bins(m, z, X)
    BY <1>3, <2>1
  <2>7. Bins(j, y, Y)
    BY <1>0, <2>4, <2>5, <2>6, BinsFrame
  <2> QED  BY <2>2, <2>7
<1>15. Hole(j, y, U \cup {c}, {}, L, F)
  <2>1. U \cup {c} \subseteq DOMAIN y /\ L \subseteq DOMAIN y /\ (U \cup {c}) \cap L = {}
    BY <1>0, <1>2, <1>3, <1>9
  <2> QED  BY <1>0, <1>6, <1>7, <1>8, <1>11, <1>12, <1>14, <2>1 DEF Hole
<1>16. TopOK(j, y, U \cup {c}, L, F)
  <2>1. q \notin U /\ q # c /\ q \notin L
    BY <1>0, <1>3, <1>5, <1>6
  <2> QED  BY <1>0, <1>5, <1>9, <2>1 DEF TopOK
<1>17. DvOK(j, y, U \cup {c}, L)
  <2>1. CASE m.dv = NULL
    <3>1. m.dvsize = 0
      BY <1>1, <2>1 DEF DvOK
    <3>2. j.dv = NULL /\ j.dvsize = 0
      BY <1>13, <2>1, <3>1
    <3> QED  BY <3>2 DEF DvOK
  <2>2. CASE m.dv # NULL
    <3>1. m.dv \in DOMAIN z /\ m.dv \notin U /\ m.dv # t /\ m.dvsize = z[m.dv]
      BY <1>0, <1>1, <2>2 DEF DvOK
    <3>2. m.dv # q /\ m.dv # c /\ m.dv \notin L
      BY <1>0, <1>6, <3>1
    <3> QED  BY <1>0, <1>9, <1>13, <2>2, <3>1, <3>2 DEF DvOK
  <2> QED  BY <2>1, <2>2
<1> QED  BY <1>10, <1>15, <1>16, <1>17 DEF Agree

-------------------------------------------------------------------------------
(* k is the state m when what follows its heap was obtained: neither the   *)
(* heap nor its segments have changed.                                     *)
SameHeap(m, k) ==
    /\ SameBins(m, k) /\ SameDv(m, k) /\ SameTop(m, k)
    /\ k.chunk = m.chunk /\ k.least_addr = m.least_addr /\ k.aborted = m.aborted

(* k is the state m when size words at b, above everything, were obtained. *)
NewSpace(m, k, b, size) ==
    /\ k \in State /\ SameHeap(m, k) /\ k.seg = m.seg
    /\ b \in Addr /\ size \in size_t
    /\ m.brk <= b /\ 12 <= size /\ b + size <= k.brk

(* add_segment, with the record of the old segment at c.                   *)
AddedAt(k, t, c, b, size, old_end) ==
    LET j == AddedState(k, t, c, b, size, old_end)
    IN IF c = t THEN j ELSE insert_chunk(set_free_with_pinuse(j, t, c - t, c), t, c - t)

(* A free chunk's header says so, and that the chunk before it is in use.  *)
LEMMA SetFreeHeader ==
  ASSUME NEW m \in State, NEW p \in Addr, NEW s \in size_t \ {0}, p + s \in Addr,
         NEW n, n = set_free_with_pinuse(m, p, s, p + s)
  PROVE  n.chunk[p] = FreeHeader(s)
<1> DEFINE h1 == [m.chunk EXCEPT ![p + s].pinuse = FALSE]
           m1 == [m EXCEPT !.chunk[p + s].pinuse = FALSE]
<1>1. m.chunk \in [Addr -> HeaderSet]
  BY DEF State
<1>2. h1 \in [Addr -> HeaderSet]
  BY <1>1 DEF HeaderSet
<1>3. m1 = WithChunks(m, h1)
  BY DEF WithChunks
<1>4. n = set_size_and_pinuse_of_free_chunk(m1, p, s)
  BY DEF set_free_with_pinuse
<1> HIDE DEF h1, m1
<1>5. m1 \in State
  BY <1>2, <1>3, WithChunksFacts
<1> QED  BY <1>4, <1>5, SetSizeOfFreeFacts

(* add_segment is that, with the place of the record worked out. *)
LEMMA AddSegmentIs ==
  ASSUME NEW k, NEW t, NEW old_end, NEW b, NEW size,
         t = k.top, old_end = EndOf(k.seg[segment_holding(k, k.top)]),
         NEW a, a = align_as_chunk(old_end - (SegmentRecord + 5)),
         NEW c, c = IF a < t + MIN_CHUNK_SIZE THEN t ELSE a
  PROVE  add_segment(k, b, size) = AddedAt(k, t, c, b, size, old_end)
BY DEF add_segment, AddedAt, AddedState, EndOf

Tops(n, q, s, seg) == n.top = q /\ n.topsize = s /\ n.seg = seg
IsAdded(n, k, t, c, b, size, E) == n = AddedAt(k, t, c, b, size, E + TOP_FOOT_SIZE)

(* The rest of the old top goes into its bin, and there is a heap again. *)
LEMMA HeapAdded ==
  ASSUME NEW m, NEW z, NEW U, Heap(m, z, U), NEW t, NEW E, TopAt(m, t, E),
         NEW k, NEW b, NEW size, NewSpace(m, k, b, size),
         NEW q, NEW s, NEW F, NEW c, NewTop(q, s, b, size), NEW seg2, Headed(seg2, m.seg, b, size, c),
         Placed(seg2, E, m.brk, k.brk, t, c, q, s, F),
         NEW n, IsAdded(n, k, t, c, b, size, E)
  PROVE  /\ SameBut(k, n) /\ Tops(n, q, s, seg2)
         /\ Shifted(m.seg, seg2, c)
         /\ Grown(m, z, U, n)
<1>0. k \in State /\ SameHeap(m, k) /\ k.seg = m.seg /\ b \in Addr /\ size \in size_t
  BY DEF NewSpace
<1>1. /\ Hole(m, z, U, {}, {}, E) /\ TopOK(m, z, U, {}, E)
  BY DEF Heap, TopAt
<1>2. t = m.top /\ t \in DOMAIN z \ (U \cup {}) /\ t \notin U /\ t + z[t] = E
  BY <1>1 DEF TopOK, TopAt
<1>3. m.chunk[t].pinuse /\ 1 \in DOMAIN m.seg
  <2>1. m.chunk[t].pinuse
    BY <1>1, <1>2, HoleFreePinuse
  <2>2. 1 \in DOMAIN m.seg
    BY <1>1 DEF Hole, Segs
  <2> QED  BY <2>1, <2>2
<1>4. TopAt(k, t, E)
  BY <1>0 DEF TopAt, SameHeap, SameTop
<1>5. /\ E \in Nat /\ t \in Nat /\ c \in Nat /\ q \in Nat /\ s \in Nat /\ s > 0
      /\ F \in Nat /\ F \in Addr /\ q \in Addr /\ SegmentRecord = 6 /\ c \in Addr
      /\ t <= c /\ (c = t \/ t + 4 <= c) /\ q < F /\ t < q /\ c + 6 < q /\ F = q + s /\ Even(c)
      /\ c <= E /\ Even(t)
  BY PlacedFacts
<1>6. E \in Addr /\ t \in Addr
  BY <1>1, <1>2, HoleChunk
<1> DEFINE j == AddedState(k, t, c, b, size, E + TOP_FOOT_SIZE)
<1>7. /\ j \in State /\ SameBut(k, j) /\ SameBins(k, j) /\ SameDv(k, j)
      /\ j.top = q /\ j.topsize = s /\ j.seg = seg2 /\ Shifted(m.seg, seg2, c)
      /\ j.chunk[c] = UsedHeader(SegmentRecord) /\ j.chunk[c + SegmentRecord] = Fencepost
      /\ j.chunk[q] = FreeHeader(s) /\ j.chunk[F] = FootHeader
      /\ \A a \in Addr : a < t \/ (a = t /\ a # c) => j.chunk[a] = m.chunk[a]
  <2> HIDE DEF j
  <2>1. PICK hi : hi = m.brk
    OBVIOUS
  <2>2. PICK hi2 : hi2 = k.brk
    OBVIOUS
  <2>3. PICK w : w = j
    OBVIOUS
  <2>4. /\ Placed(seg2, E, hi, hi2, t, c, q, s, F) /\ Headed(seg2, k.seg, b, size, c)
        /\ 1 \in DOMAIN k.seg /\ w = AddedState(k, t, c, b, size, E + TOP_FOOT_SIZE)
    BY <1>0, <1>3, <2>1, <2>2, <2>3 DEF j
  <2>5. /\ w \in State /\ SameBut(k, w) /\ SameBins(k, w) /\ SameDv(k, w)
        /\ w.top = q /\ w.topsize = s /\ w.seg = seg2 /\ Shifted(k.seg, seg2, c)
        /\ w.chunk[c] = UsedHeader(SegmentRecord) /\ w.chunk[c + SegmentRecord] = Fencepost
        /\ w.chunk[q] = FreeHeader(s) /\ w.chunk[F] = FootHeader
        /\ \A a \in Addr : a < t \/ (a = t /\ a # c) => w.chunk[a] = k.chunk[a]
    BY <1>0, <1>4, <1>6, <2>4, AddedStateFacts
  <2> QED  BY <1>0, <2>3, <2>5 DEF SameHeap
<1> HIDE DEF j
<1>8. ~m.aborted
  BY <1>1 DEF Hole
<1>9. /\ SameBins(m, j) /\ SameDv(m, j) /\ ~j.aborted /\ j.least_addr = m.least_addr
      /\ j.brk = k.brk
  BY <1>0, <1>7, <1>8 DEF SameHeap, SameBins, SameDv, SameBut
<1>10. PICK y : y = [a \in DOMAIN z \cup {c, q} |->
                        IF a = c THEN SegmentRecord ELSE IF a = q THEN s
                        ELSE IF a = t THEN c - t ELSE z[a]]
  OBVIOUS
<1>11. Rearranged(z, y, t, c, q, s)
  <2>1. /\ DOMAIN y = DOMAIN z \cup {c, q} /\ y[c] = SegmentRecord /\ y[q] = s
        /\ c # t => y[t] = c - t
    BY <1>2, <1>5, <1>10
  <2>2. \A a \in DOMAIN z : a # t => a # c /\ a # q
    <3> SUFFICES ASSUME NEW a \in DOMAIN z, a # t PROVE a # c /\ a # q
      OBVIOUS
    <3>1. Segs(m.seg, E, m.least_addr, m.brk) /\ Layout(z, m.seg, E)
      BY <1>1 DEF Hole
    <3>2. a <= t /\ a \in Nat
      BY <1>1, <1>2, <3>1, TopHighest, HoleChunk
    <3> QED  BY <1>5, <3>2
  <2>3. \A a \in DOMAIN z : a # t => y[a] = z[a]
    BY <1>10, <2>2
  <2> QED  BY <2>1, <2>3 DEF Rearranged
<1> HIDE <1>10
<1>12. CASE c = t
  <2>1. n = j
    BY <1>12 DEF IsAdded, AddedAt, j
  <2>2. AddedHeaders(m.chunk, j.chunk, t, c, q, s, F)
    <3>1. j.chunk[c].size = SegmentRecord /\ j.chunk[c].cinuse /\ j.chunk[t].pinuse
      BY <1>7, <1>12 DEF UsedHeader, Header
    <3> QED  BY <1>7, <1>12, <3>1 DEF AddedHeaders
  <2>3. PICK L : L = {t} \ {c}
    OBVIOUS
  <2>4. /\ Hole(j, y, U \cup {c}, {}, L, F) /\ TopOK(j, y, U \cup {c}, L, F)
        /\ DvOK(j, y, U \cup {c}, L) /\ c \notin U /\ Agree(y, z, U)
    <3>1. TopAt(m, t, E) /\ Placed(seg2, E, m.brk, j.brk, t, c, q, s, F)
      BY <1>9
    <3>2. Rebuilt(m, j, seg2, t, c, q, s, L)
      BY <1>2, <1>7, <1>9, <2>3 DEF Rebuilt
    <3>3. Shifted(m.seg, seg2, c)
      BY <1>7
    <3> QED  BY <1>11, <2>2, <3>1, <3>2, <3>3, HoleAdded
  <2>5. Heap(j, y, U \cup {c})
    <3>1. L = {}
      BY <1>12, <2>3
    <3> QED  BY <2>4, <3>1, HeapFromHole
  <2>6. RecordsOf(j.seg) = RecordsOf(m.seg) \cup {c}
    <3>1. Segs(m.seg, E, m.least_addr, m.brk)
      BY <1>1 DEF Hole
    <3> QED  BY <1>5, <1>7, <3>1, OwnedAdded
  <2>7. Grown(m, z, U, n)
    BY <2>1, <2>4, <2>5, <2>6 DEF Grown, Agree
  <2> QED  BY <1>7, <2>1, <2>7 DEF Tops
<1>13. CASE c # t
  <2> DEFINE i == set_free_with_pinuse(j, t, c - t, c)
  <2>1. n = insert_chunk(i, t, c - t)
    BY <1>13 DEF IsAdded, AddedAt, j
  <2>2. PICK d \in Nat : d = c - t
    BY <1>5
  <2>3. d \in size_t \ {0} /\ t + d = c /\ d # 0 /\ d >= 4
    <3>1. t + d = c /\ d >= 4
      BY <1>5, <1>13, <2>2
    <3>2. c \in 0 .. BrkLimit /\ BrkLimit \in Nat /\ MAX_SIZE_T \in Nat /\ BrkLimit <= MAX_SIZE_T
      BY <1>5, Small
    <3>3. d \in 0 .. MAX_SIZE_T
      BY <1>5, <2>2, <3>1, <3>2
    <3> QED  BY <3>1, <3>3, Small
  <2>4. i = set_free_with_pinuse(j, t, d, t + d)
    BY <2>2, <2>3
  <2> HIDE DEF i
  <2>5. OnlyChunks(j, i) /\ MarksFree(j.chunk, i.chunk, t, d)
    <3>1. t + d \in Addr
      BY <1>5, <2>3
    <3> QED  BY <1>6, <1>7, <2>3, <2>4, <3>1, SetFreeFacts
  <2>6. /\ \A a \in Addr \ {t, c} : i.chunk[a] = j.chunk[a]
        /\ i.chunk[t].size = d /\ ~i.chunk[t].cinuse /\ i.chunk[t].pinuse
        /\ i.chunk[c].size = SegmentRecord /\ i.chunk[c].cinuse
        /\ ~i.chunk[c].pinuse /\ i.chunk[c].prev_foot = d
    <3>1. j.chunk[c].size = SegmentRecord /\ j.chunk[c].cinuse
      BY <1>7 DEF UsedHeader, Header
    <3> QED  BY <2>3, <2>5, <3>1 DEF MarksFree
  <2>7. i.chunk[t] = FreeHeader(d)
    <3>1. t + d \in Addr
      BY <1>5, <2>3
    <3>2. j \in State
      BY <1>7
    <3> QED  BY <1>6, <2>3, <2>4, <3>1, <3>2, SetFreeHeader
  <2>8. AddedHeaders(m.chunk, i.chunk, t, c, q, s, F)
    <3>1. c + SegmentRecord \in Addr /\ c + SegmentRecord # c /\ c + SegmentRecord # t
          /\ q # c /\ q # t /\ F # c /\ F # t
      <4>1. c + SegmentRecord \in Addr
        BY PlacedFacts
      <4> QED  BY <1>5, <4>1
    <3>2. i.chunk[c + SegmentRecord] = Fencepost /\ i.chunk[q] = FreeHeader(s)
          /\ i.chunk[F] = FootHeader
      BY <1>5, <1>7, <2>6, <3>1
    <3>3. \A a \in Addr : a < t => i.chunk[a] = m.chunk[a]
      <4> SUFFICES ASSUME NEW a \in Addr, a < t PROVE i.chunk[a] = m.chunk[a]
        OBVIOUS
      <4>1. a \in Nat
        BY Small
      <4>2. a # t /\ a # c
        BY <1>5, <4>1
      <4> QED  BY <1>7, <2>6, <4>2
    <3> QED  BY <2>2, <2>6, <2>7, <3>2, <3>3 DEF AddedHeaders
  <2>9. PICK L : L = {t} \ {c}
    OBVIOUS
  <2>10. /\ i \in State /\ ~i.aborted /\ i.least_addr = m.least_addr /\ i.seg = seg2
         /\ SameBins(m, i) /\ SameDv(m, i) /\ i.top = q /\ i.topsize = s /\ i.brk = k.brk
         /\ SameBut(k, i)
    BY <1>7, <1>9, <2>5
       DEF OnlyChunks, SameSystem, SameBins, SameDv, SameTop, SameBut
  <2>11. /\ Hole(i, y, U \cup {c}, {}, L, F) /\ TopOK(i, y, U \cup {c}, L, F)
         /\ DvOK(i, y, U \cup {c}, L) /\ c \notin U /\ Agree(y, z, U)
    <3>1. TopAt(m, t, E) /\ Placed(seg2, E, m.brk, i.brk, t, c, q, s, F)
      BY <2>10
    <3>2. Rebuilt(m, i, seg2, t, c, q, s, L)
      BY <1>2, <2>9, <2>10 DEF Rebuilt
    <3>3. Shifted(m.seg, seg2, c)
      BY <1>7
    <3> QED  BY <1>11, <2>8, <3>1, <3>2, <3>3, HoleAdded
  <2>12. L = {t} /\ y[t] = d /\ t + d # F /\ t # i.top /\ t # i.dv
    <3>1. y[t] = d
      BY <1>11, <1>13, <2>2 DEF Rearranged
    <3>2. L = {t}
      BY <1>13, <2>9
    <3>3. t # i.dv
      <4>1. t # NULL
        BY <1>1, <1>2, HoleChunk
      <4> QED  BY <2>11, <3>2, <4>1 DEF DvOK
    <3> QED  BY <1>5, <2>3, <2>10, <3>1, <3>2, <3>3
  <2>13. OnlyBins(i, n) /\ Hole(n, y, U \cup {c}, {}, L \ {t}, F)
    <3>1. PICK V : V = U \cup {c}
      OBVIOUS
    <3>2. PICK H : H = {}
      OBVIOUS
    <3>3. Hole(i, y, V, H, L, F) /\ t \in L \ H /\ t \notin {i.top, i.dv} /\ t + y[t] # F
          /\ n = insert_chunk(i, t, y[t])
      BY <2>1, <2>2, <2>11, <2>12, <3>1, <3>2
    <3>4. OnlyBins(i, n) /\ Hole(n, y, V, H, L \ {t}, F)
      BY <3>3, HolePut
    <3> QED  BY <3>1, <3>2, <3>4
  <2>14. L \ {t} = {} /\ TopOK(n, y, U \cup {c}, {}, F) /\ DvOK(n, y, U \cup {c}, {})
    <3>1. SameTop(i, n) /\ SameDv(i, n)
      BY <2>13 DEF OnlyBins
    <3> QED  BY <2>11, <2>12, <3>1 DEF TopOK, DvOK, SameTop, SameDv
  <2>15. Heap(n, y, U \cup {c})
    BY <2>13, <2>14, HeapFromHole
  <2>16. n.seg = seg2 /\ n.top = q /\ n.topsize = s /\ SameBut(k, n)
    BY <2>10, <2>13 DEF OnlyBins, SameSystem, SameTop, SameBut
  <2>17. RecordsOf(n.seg) = RecordsOf(m.seg) \cup {c}
    <3>1. Segs(m.seg, E, m.least_addr, m.brk)
      BY <1>1 DEF Hole
    <3> QED  BY <1>5, <1>7, <2>16, <3>1, OwnedAdded
  <2>18. Grown(m, z, U, n)
    BY <2>11, <2>15, <2>17 DEF Grown, Agree
  <2> QED  BY <1>7, <2>16, <2>18 DEF Tops
<1> QED  BY <1>12, <1>13

-------------------------------------------------------------------------------
(* add_segment keeps the heap.                                             *)
LEMMA AddSegmentFacts ==
  ASSUME NEW m, NEW z, NEW U, Heap(m, z, U), NEW k, NEW b, NEW size, NewSpace(m, k, b, size),
         NEW n, n = add_segment(k, b, size)
  PROVE  /\ SameBut(k, n) /\ Grown(m, z, U, n) /\ n.topsize >= size - TOP_FOOT_SIZE - 1
         /\ Owned(n.seg) = Owned(m.seg) \cup (b .. b + size - 1)
<1>1. PICK E : TopAt(m, m.top, E) /\ E = m.top + m.topsize
  BY DEF TopAt
<1>2. /\ Hole(m, z, U, {}, {}, E) /\ TopOK(m, z, U, {}, E)
  BY <1>1 DEF Heap
<1>3. PICK t : t = m.top
  OBVIOUS
<1>4. t \in DOMAIN z /\ t \notin U /\ t + z[t] = E
  BY <1>2, <1>3 DEF TopOK
<1>5. /\ Segs(m.seg, E, m.least_addr, m.brk) /\ Layout(z, m.seg, E) /\ m \in State
  BY <1>2 DEF Hole
<1>6. /\ t \in Nat /\ t < E /\ m.seg[1].base <= t /\ Even(t) /\ E \in Addr /\ t \in Addr /\ E \in Nat
  <2>1. t \in Nat /\ t < E /\ m.seg[1].base <= t
    BY <1>4, <1>5, TopHighest
  <2>2. Even(t) /\ E \in Addr /\ t \in Addr /\ E \in Nat
    BY <1>2, <1>4, HoleChunk
  <2> QED  BY <2>1, <2>2
<1>7. /\ 1 \in DOMAIN m.seg /\ E + TOP_FOOT_SIZE = EndOf(m.seg[1]) /\ EndOf(m.seg[1]) <= m.brk
      /\ m.seg \in Seq(SegmentSet) /\ m.brk \in Addr
  BY <1>5 DEF Segs
<1>8. /\ k \in State /\ SameHeap(m, k) /\ k.seg = m.seg /\ b \in Addr /\ size \in size_t
      /\ m.brk <= b /\ 12 <= size /\ b + size <= k.brk
  BY DEF NewSpace
<1>9. k.top = t /\ TopAt(k, t, E)
  BY <1>1, <1>3, <1>8 DEF SameHeap, SameTop, TopAt
<1>10. segment_holding(k, k.top) = 1
  <2>1. t < EndOf(m.seg[1])
    BY <1>6, <1>7, Small
  <2>2. k.seg \in Seq(SegmentSet) /\ 1 \in DOMAIN k.seg /\ k.seg[1].base <= t /\ t < EndOf(k.seg[1])
    BY <1>6, <1>7, <1>8, <2>1
  <2>3. segment_holding(k, t) = 1
    BY <1>6, <2>2, HoldingTop
  <2> QED  BY <1>9, <2>3
<1>11. PICK a : a = align_as_chunk((E + TOP_FOOT_SIZE) - (SegmentRecord + 5))
  OBVIOUS
<1>12. PICK c : c = IF a < t + MIN_CHUNK_SIZE THEN t ELSE a
  OBVIOUS
<1>13. c \in Nat /\ Even(c) /\ t <= c /\ c <= E /\ (c = t \/ t + 4 <= c)
  BY <1>6, <1>11, <1>12, RecordPlace
<1>14. n = AddedAt(k, t, c, b, size, E + TOP_FOOT_SIZE)
  <2>1. EndOf(k.seg[segment_holding(k, k.top)]) = E + TOP_FOOT_SIZE
    BY <1>7, <1>8, <1>10
  <2>2. add_segment(k, b, size) = AddedAt(k, t, c, b, size, E + TOP_FOOT_SIZE)
    BY <1>9, <1>11, <1>12, <2>1, AddSegmentIs
  <2> QED  BY <2>2
<1>15. c \in Addr
  BY <1>6, <1>13, Small
<1>16. PICK seg2 : Headed(seg2, m.seg, b, size, c)
  BY DEF Headed
<1>17. Shifted(m.seg, seg2, c) /\ seg2[1].base = b /\ EndOf(seg2[1]) = b + size
       /\ seg2[1].size = size
  BY <1>7, <1>8, <1>15, <1>16, ShiftedSeq
<1>18. PICK q : q = align_as_chunk(b)
  OBVIOUS
<1>19. PICK s : s = size - TOP_FOOT_SIZE - align_offset(b)
  OBVIOUS
<1>20. NewTop(q, s, b, size)
  BY <1>18, <1>19 DEF NewTop
<1>21. /\ b \in Nat /\ size \in Nat /\ k.brk \in Addr
       /\ q = b + align_offset(b) /\ align_offset(b) \in 0 .. 1
  <2>1. b \in Nat /\ size \in Nat
    BY <1>8, Small
  <2>2. k.brk \in Addr
    BY <1>8 DEF State
  <2> QED  BY <1>18, <2>1, <2>2, Small DEF align_as_chunk, align_offset
<1>22. /\ s \in Nat \ {0} /\ q + s + TOP_FOOT_SIZE = b + size /\ s >= size - TOP_FOOT_SIZE - 1
  <2>1. TOP_FOOT_SIZE = 10
    BY Small
  <2> QED  BY <1>8, <1>19, <1>21, <2>1
<1>23. PICK F : F = q + s
  OBVIOUS
<1>24. Placed(seg2, E, m.brk, k.brk, t, c, q, s, F)
  <2>1. F + TOP_FOOT_SIZE = EndOf(seg2[1]) /\ EndOf(seg2[1]) <= k.brk
    BY <1>8, <1>17, <1>22, <1>23
  <2>2. m.brk <= seg2[1].base /\ seg2[1].base \in Nat /\ q = align_as_chunk(seg2[1].base)
    BY <1>8, <1>17, <1>18, <1>21
  <2>3. E + TOP_FOOT_SIZE <= m.brk
    BY <1>7
  <2> QED  BY <1>6, <1>7, <1>13, <1>21, <1>22, <1>23, <2>1, <2>2, <2>3 DEF Placed
<1>25. /\ SameBut(k, n) /\ n.topsize = s /\ n.seg = seg2 /\ Grown(m, z, U, n)
  <2>1. TopAt(m, t, E)
    BY <1>1, <1>3
  <2>3. PICK w : w = n
    OBVIOUS
  <2>4. IsAdded(w, k, t, c, b, size, E)
    BY <1>14, <2>3 DEF IsAdded
  <2>5. SameBut(k, w) /\ w.topsize = s /\ w.seg = seg2 /\ Grown(m, z, U, w)
    <3>1. SameBut(k, w)
      BY <1>16, <1>20, <1>24, <2>1, <2>4, HeapAdded
    <3>2. Tops(w, q, s, seg2)
      BY <1>16, <1>20, <1>24, <2>1, <2>4, HeapAdded
    <3>3. w.topsize = s /\ w.seg = seg2
      BY <3>2 DEF Tops
    <3>4. Grown(m, z, U, w)
      BY <1>16, <1>20, <1>24, <2>1, <2>4, HeapAdded
    <3> QED  BY <3>1, <3>3, <3>4
  <2> QED  BY <2>3, <2>5
<1>26. Owned(n.seg) = Owned(m.seg) \cup (b .. b + size - 1)
  <2>1. Owned(seg2) = Owned(m.seg) \cup Extent(seg2[1])
    BY <1>5, <1>13, <1>17, OwnedAdded
  <2>2. Extent(seg2[1]) = b .. b + size - 1
    BY <1>17 DEF Extent
  <2> QED  BY <1>25, <2>1, <2>2
<1> QED  BY <1>22, <1>25, <1>26

-------------------------------------------------------------------------------
(* The allocator between two calls of the program, which has the chunks of *)
(* B, and others have the words X below the break.                         *)
Keeps(m, n, W) == \A p \in W : n.chunk[p].size = m.chunk[p].size

HeapOf(m, B) ==
    \E z : Heap(m, z, B \cup RecordsOf(m.seg)) /\ B \cap RecordsOf(m.seg) = {}

Params(m) ==
    m.granularity = 0 \/ (PowerOf2(m.granularity) /\ m.granularity >= PageSize)

Accounts(m, X) ==
    /\ Owned(m.seg) \cup X = Brk0 .. m.brk - 1 /\ Owned(m.seg) \cap X = {}
    /\ m.footprint + Cardinality(X) = m.brk - Brk0 /\ Brk0 <= m.brk
    /\ m.footprint <= m.max_footprint

Blank(m) ==
    /\ m.topsize = 0 /\ m.dv = NULL /\ m.dvsize = 0 /\ m.seg = <<>>
    /\ m.smallmap = {} /\ \A s \in SmallSizes : m.smallbins[s] = <<>>
    /\ \A s \in LargeSizes : m.treebins[s] = <<>>
    /\ m.least_addr = 0

Sys(m, B, X) ==
    /\ m \in State /\ ~m.aborted /\ Params(m) /\ Accounts(m, X)
    /\ m.top = NULL => B = {} /\ Blank(m)
    /\ m.top # NULL => HeapOf(m, B) /\ m.granularity # 0

(* The footprint stays within the limit, unless it did not grow.           *)
Within(m, n) ==
    /\ n.footprint_limit = m.footprint_limit
    /\ \/ n.footprint <= m.footprint
       \/ n.footprint_limit = 0
       \/ n.footprint <= n.footprint_limit

(* A call takes m to n: the program then has the chunks of C, and those of *)
(* W are of the size they were.                                            *)
Goes(m, n, C, W, X) == Sys(n, C, X) /\ Keeps(m, n, W) /\ Within(m, n)

(* Two calls that stay within the limit do so together. *)
LEMMA WithinTrans ==
  ASSUME NEW m \in State, NEW n \in State, NEW k \in State, Within(m, n), Within(n, k)
  PROVE  Within(m, k)
<1>1. /\ m.footprint \in Nat /\ n.footprint \in Nat /\ k.footprint \in Nat
      /\ k.footprint_limit \in Nat
  BY Small DEF State
<1> QED  BY <1>1 DEF Within

(* One step after another is a step. *)
LEMMA GoesTrans ==
  ASSUME NEW m \in State, NEW n, NEW k, NEW B, NEW C, NEW V, NEW W, NEW X,
         Goes(m, n, B, V, X), Goes(n, k, C, W, X), W \subseteq V
  PROVE  Goes(m, k, C, W, X)
<1>1. n \in State /\ k \in State
  BY DEF Goes, Sys
<1>2. Within(m, k)
  BY <1>1, WithinTrans DEF Goes
<1> QED  BY <1>2 DEF Goes, Keeps

(* The size of every chunk is in its header. *)
LEMMA HeapSizes ==
  ASSUME NEW m, NEW z, NEW U, Heap(m, z, U)
  PROVE  /\ \A a \in DOMAIN z : m.chunk[a].size = z[a]
         /\ U \subseteq DOMAIN z /\ m \in State /\ ~m.aborted
         /\ m.top \in DOMAIN z /\ m.top # NULL /\ m.top \notin U
<1>1. PICK E : Hole(m, z, U, {}, {}, E) /\ TopOK(m, z, U, {}, E)
  BY DEF Heap
<1>2. Tags(m.chunk, z, m.seg, E, U, {}) /\ U \subseteq DOMAIN z /\ m \in State /\ ~m.aborted
  BY <1>1 DEF Hole
<1>3. m.top \in DOMAIN z /\ m.top \notin U
  BY <1>1 DEF TopOK
<1>4. m.top # NULL
  BY <1>1, <1>3, HoleChunk
<1> QED  BY <1>2, <1>3, <1>4 DEF Tags

(* Chunks with the same size in both layouts have kept their headers' size. *)
LEMMA KeepsFrom ==
  ASSUME NEW m, NEW z, NEW U, Heap(m, z, U), NEW n, NEW y, NEW V, Heap(n, y, V),
         NEW W, W \subseteq U, W \subseteq V, Agree(y, z, W)
  PROVE  Keeps(m, n, W)
<1>1. \A a \in DOMAIN z : m.chunk[a].size = z[a]
  BY HeapSizes
<1>2. \A a \in DOMAIN y : n.chunk[a].size = y[a]
  BY HeapSizes
<1>3. U \subseteq DOMAIN z /\ V \subseteq DOMAIN y
  BY HeapSizes
<1> QED  BY <1>1, <1>2, <1>3 DEF Keeps, Agree

(* An allocator that has a top has a heap, with the records of its own. *)
LEMMA SysHeap ==
  ASSUME NEW m, NEW B, NEW X, Sys(m, B, X), m.top # NULL
  PROVE  \E z, R : /\ R = RecordsOf(m.seg) /\ B \cap R = {} /\ Heap(m, z, B \cup R)
                   /\ Work(m, z, B \cup R, {}, {}, m.top + m.topsize)
                   /\ \A p \in B : NoRecord(m, p)
<1>1. PICK z : Heap(m, z, B \cup RecordsOf(m.seg)) /\ B \cap RecordsOf(m.seg) = {}
  BY DEF Sys, HeapOf
<1>2. Work(m, z, B \cup RecordsOf(m.seg), {}, {}, m.top + m.topsize)
  BY <1>1, HeapWork
<1>3. \A p \in B : NoRecord(m, p)
  BY <1>1 DEF NoRecord, RecordsOf
<1> QED  BY <1>1, <1>2, <1>3

(* What changes nothing but the heap keeps the accounts.                   *)
LEMMA AccountsSame ==
  ASSUME NEW m, NEW n, NEW X, Accounts(m, X), n.seg = m.seg, n.brk = m.brk,
         n.footprint = m.footprint, n.max_footprint = m.max_footprint
  PROVE  Accounts(n, X)
BY DEF Accounts

(* What is a heap again is an allocator again. *)
LEMMA SysSettles ==
  ASSUME NEW m, NEW B, NEW X, Sys(m, B, X), m.top # NULL,
         NEW n, SameSystem(m, n), NEW y, NEW C, Heap(n, y, C \cup RecordsOf(m.seg)),
         C \cap RecordsOf(m.seg) = {}
  PROVE  Sys(n, C, X) /\ Within(m, n) /\ n.top # NULL
<1>1. n \in State /\ ~n.aborted /\ n.top # NULL
  BY HeapSizes
<1>2. n.seg = m.seg /\ n.granularity = m.granularity
  BY DEF SameSystem
<1>3. HeapOf(n, C)
  BY <1>2 DEF HeapOf
<1>4. Accounts(n, X)
  <2>1. Accounts(m, X)
    BY DEF Sys
  <2> QED  BY <2>1, AccountsSame DEF SameSystem
<1>5. Params(n) /\ n.granularity # 0
  BY <1>2 DEF Sys, Params
<1>6. Within(m, n)
  <2>1. m.footprint \in Nat
    BY Small DEF Sys, State
  <2> QED  BY <2>1 DEF Within, SameSystem
<1> QED  BY <1>1, <1>3, <1>4, <1>5, <1>6 DEF Sys

(* The operations on the heap, as steps of the allocator.                  *)
LEMMA GoesSettles ==
  ASSUME NEW m, NEW B, NEW X, Sys(m, B, X), m.top # NULL, NEW R, R = RecordsOf(m.seg),
         NEW z, Heap(m, z, B \cup R), NEW n, NEW C, NEW W, W \subseteq B \cap C, C \cap R = {},
         Settles(m, z, n, C \cup R, W)
  PROVE  Goes(m, n, C, W, X) /\ n.top # NULL
<1>1. PICK y : Heap(n, y, C \cup R) /\ Agree(y, z, W)
  BY DEF Settles, Agree
<1>2. Sys(n, C, X) /\ Within(m, n) /\ n.top # NULL
  BY <1>1, SysSettles DEF Settles
<1>3. Keeps(m, n, W)
  <2>1. W \subseteq B \cup R /\ W \subseteq C \cup R
    OBVIOUS
  <2> QED  BY <1>1, <2>1, KeepsFrom
<1> QED  BY <1>2, <1>3 DEF Goes

(* The same with the size of a chunk. *)
LEMMA GoesSettlesAt ==
  ASSUME NEW m, NEW B, NEW X, Sys(m, B, X), m.top # NULL, NEW R, R = RecordsOf(m.seg),
         NEW z, Heap(m, z, B \cup R), NEW n, NEW C, NEW W, W \subseteq B \cap C, C \cap R = {},
         NEW Z, W \subseteq Z, NEW p, NEW S, SettlesAt(m, z, n, C \cup R, Z, p, S)
  PROVE  Goes(m, n, C, W, X) /\ n.top # NULL /\ n.chunk[p].size \in S
<1>1. PICK y : Heap(n, y, C \cup R) /\ Agree(y, z, W) /\ p \in C \cup R /\ y[p] \in S
  BY DEF SettlesAt, Agree
<1>2. Sys(n, C, X) /\ Within(m, n) /\ n.top # NULL
  BY <1>1, SysSettles DEF SettlesAt
<1>3. Keeps(m, n, W)
  <2>1. W \subseteq B \cup R /\ W \subseteq C \cup R
    OBVIOUS
  <2> QED  BY <1>1, <2>1, KeepsFrom
<1>4. n.chunk[p].size \in S
  <2>1. C \cup R \subseteq DOMAIN y /\ \A a \in DOMAIN y : n.chunk[a].size = y[a]
    BY <1>1, HeapSizes
  <2> QED  BY <1>1, <2>1
<1> QED  BY <1>2, <1>3, <1>4 DEF Goes

-------------------------------------------------------------------------------
(* Multiples of the unit in which memory is asked for.                     *)
LEMMA ProductMonotone ==
  ASSUME NEW a \in Nat, NEW b \in Nat, NEW c \in Nat, NEW d \in Nat, a <= c, b <= d
  PROVE  a * b <= c * d /\ a * b \in Nat
<1>1. a * b <= c * b
  BY SMT
<1>2. c * b <= c * d
  BY SMT
<1> QED  BY <1>1, <1>2

(* A power of 2 is at most half of what size_t can count. *)
LEMMA PowersHalf ==
  ASSUME NEW u \in Nat, PowerOf2(u)
  PROVE  u >= 1 /\ 2 * u <= SizeRange
<1>1. PICK k \in 0 .. SizeWidth - 1 : u = 2^k
  BY DEF PowerOf2
<1>2. SizeWidth \in Nat /\ SizeWidth >= 6 /\ k \in Nat /\ SizeWidth - 1 \in 0 .. SizeWidth
      /\ k \in 0 .. SizeWidth
  BY SizeFacts
<1>3. 2^k <= 2^(SizeWidth - 1)
  BY <1>1, <1>2, SizeFacts
<1>4. 2^((SizeWidth - 1) + 1) = 2 * 2^(SizeWidth - 1)
  BY <1>2, PowerAssumption
<1>5. (SizeWidth - 1) + 1 = SizeWidth
  BY <1>2
<1>6. SizeRange = 2 * 2^(SizeWidth - 1) /\ 2^(SizeWidth - 1) \in Nat /\ 2^k \in Nat \ {0}
  BY <1>2, <1>4, <1>5, SizeFacts DEF SizeRange
<1> QED  BY <1>1, <1>3, <1>6

IsUnits(a, S, u) == \E k \in Nat : a = u * k /\ a \in Nat /\ S <= a /\ a < S + u

(* align_up rounds up to the next multiple, unless it wraps. *)
LEMMA AlignUpUnits ==
  ASSUME NEW S \in Nat, NEW u \in Nat, u >= 1, (S + u) - 1 < SizeRange
  PROVE  IsUnits(align_up(S, u), S, u)
<1>1. SizeRange \in Nat /\ SizeRange >= 64
  BY SizeFacts
<1>2. PICK T \in Nat : T = (S + u) - 1
  OBVIOUS
<1>3. T % SizeRange = T
  BY <1>1, <1>2
<1>4. align_up(S, u) = T - (T % u)
  <2>1. S + u - 1 = T
    BY <1>2
  <2> QED  BY <1>3, <2>1 DEF align_up
<1>5. PICK k : k = T \div u
  OBVIOUS
<1>6. k \in Nat /\ T = (u * k) + (T % u) /\ T % u \in 0 .. u - 1
  <2>1. T \div u \in Nat
    BY <1>2
  <2>2. T = (u * (T \div u)) + (T % u) /\ T % u \in 0 .. u - 1
    BY <1>2
  <2> QED  BY <1>5, <2>1, <2>2
<1>7. u * k \in Nat
  BY <1>6, ProductMonotone
<1>8. align_up(S, u) = u * k
  BY <1>4, <1>6, <1>7
<1>9. align_up(S, u) \in Nat /\ S <= align_up(S, u) /\ align_up(S, u) < S + u
  <2>1. PICK x \in Nat : x = u * k
    BY <1>7
  <2>2. PICK y \in 0 .. u - 1 : y = T % u
    BY <1>6
  <2>3. T = x + y /\ align_up(S, u) = x
    BY <1>6, <1>8, <2>1, <2>2
  <2> QED  BY <1>2, <2>3
<1> QED  BY <1>6, <1>8, <1>9 DEF IsUnits

(* More rounds up to no less. *)
LEMMA UnitsMonotone ==
  ASSUME NEW u \in Nat, u >= 1, NEW S \in Nat, NEW T \in Nat, S <= T, NEW a, NEW b,
         IsUnits(a, S, u), IsUnits(b, T, u)
  PROVE  a <= b
<1>1. PICK k \in Nat : a = u * k /\ a \in Nat /\ S <= a /\ a < S + u
  BY DEF IsUnits
<1>2. PICK l \in Nat : b = u * l /\ b \in Nat /\ T <= b /\ b < T + u
  BY DEF IsUnits
<1>3. CASE k <= l
  BY <1>1, <1>2, <1>3, ProductMonotone
<1>4. CASE k >= l + 1
  <2>1. u * (l + 1) <= u * k
    BY <1>4, ProductMonotone
  <2>2. u * (l + 1) = u * l + u
    OBVIOUS
  <2> QED  BY <1>1, <1>2, <2>1, <2>2
<1> QED  BY <1>3, <1>4

(* What is missing, rounded up, comes to the whole, rounded up. *)
LEMMA UnitsAdd ==
  ASSUME NEW u \in Nat, u >= 1, NEW S \in Nat, NEW T \in Nat, NEW a, NEW b,
         IsUnits(a, S, u), a < T, IsUnits(b, T - a, u)
  PROVE  IsUnits(a + b, T, u)
<1>1. PICK k \in Nat : a = u * k /\ a \in Nat
  BY DEF IsUnits
<1>2. PICK l \in Nat : b = u * l /\ b \in Nat /\ T - a <= b /\ b < T - a + u
  BY DEF IsUnits
<1>3. a + b = u * (k + l) /\ k + l \in Nat
  <2>1. u * (k + l) = u * k + u * l
    OBVIOUS
  <2> QED  BY <1>1, <1>2, <2>1
<1>4. a + b \in Nat /\ T <= a + b /\ a + b < T + u
  BY <1>1, <1>2
<1> QED  BY <1>3, <1>4 DEF IsUnits

(* Rounding up adds less than a unit. *)
LEMMA UnitsFacts ==
  ASSUME NEW a, NEW S, NEW u, IsUnits(a, S, u)
  PROVE  a \in Nat /\ S <= a /\ a < S + u
BY DEF IsUnits

(* What is asked of the system is either too much for size_t, and then not *)
(* asked, or enough.                                                       *)
LEMMA RequestWhole ==
  ASSUME NEW u \in Nat, PowerOf2(u), NEW nb \in Nat, nb <= MAX_SIZE_T,
         NEW a, a = align_up(nb + SYS_ALLOC_PADDING, u), a > nb
  PROVE  IsUnits(a, nb + 12, u) /\ ((nb + 12) + u) - 1 < SizeRange
<1>1. u >= 1 /\ 2 * u <= SizeRange /\ SizeRange \in Nat /\ SizeRange >= 64
  BY PowersHalf, SizeFacts
<1>2. SYS_ALLOC_PADDING = 12 /\ MAX_SIZE_T = SizeRange - 1
  BY Small
<1>3. PICK T \in Nat : T = ((nb + 12) + u) - 1
  BY <1>1
<1>4. nb + SYS_ALLOC_PADDING + u - 1 = T
  BY <1>1, <1>2, <1>3
<1>5. CASE T < SizeRange
  BY <1>1, <1>2, <1>3, <1>5, AlignUpUnits
<1>6. CASE T >= SizeRange
  <2>1. T - SizeRange \in 0 .. SizeRange - 1
    BY <1>1, <1>2, <1>3, <1>6
  <2>2. T % SizeRange = T - SizeRange
    BY <1>1, <2>1
  <2>3. a = (T - SizeRange) - ((T - SizeRange) % u)
    BY <1>1, <1>4, <2>2 DEF align_up
  <2>4. (T - SizeRange) % u \in 0 .. u - 1
    BY <1>1, <2>1
  <2>5. a <= T - SizeRange
    BY <2>1, <2>3, <2>4, <1>1
  <2>6. T - SizeRange <= nb
    BY <1>1, <1>2, <1>3
  <2> QED  BY <1>1, <2>1, <2>3, <2>4, <2>5, <2>6
<1> QED  BY <1>1, <1>3, <1>5, <1>6

(* A page is a power of 2 and small. *)
LEMMA PageFacts ==
  /\ PageSize \in Nat /\ PageSize >= 2 /\ PowerOf2(PageSize) /\ 2 * PageSize <= SizeRange
<1>1. PageSize \in Nat /\ PageSize >= 2
  BY SizeAssumption
<1>2. PICK k \in 1 .. SizeWidth - 1 : PageSize = 2^k
  BY SizeAssumption
<1>3. PowerOf2(PageSize)
  <2>1. k \in 0 .. SizeWidth - 1
    BY <1>2, SizeFacts
  <2> QED  BY <1>2, <2>1 DEF PowerOf2
<1> QED  BY <1>1, <1>3, PowersHalf

(* page_align does not go below. *)
LEMMA PageAlignFacts ==
  ASSUME NEW b \in Addr
  PROVE  page_align(b) \in Nat /\ b <= page_align(b)
<1>1. b \in Nat /\ b <= BrkLimit /\ BrkLimit \in Nat /\ BrkLimit < HALF_MAX_SIZE_T
      /\ HALF_MAX_SIZE_T \in Nat /\ 2 * HALF_MAX_SIZE_T <= MAX_SIZE_T /\ MAX_SIZE_T = SizeRange - 1
      /\ SizeRange \in Nat
  BY Small, SizeFacts
<1>2. (b + PageSize) - 1 < SizeRange
  BY <1>1, PageFacts
<1>3. IsUnits(page_align(b), b, PageSize)
  BY <1>1, <1>2, PageFacts, AlignUpUnits DEF page_align
<1> QED  BY <1>3, UnitsFacts

-------------------------------------------------------------------------------
(* The break may move, and sbrk be given up.                               *)
OnlyBrk(m, k) ==
    /\ k \in State /\ SameHeap(m, k) /\ k.seg = m.seg
    /\ k.footprint = m.footprint /\ k.max_footprint = m.max_footprint
    /\ k.footprint_limit = m.footprint_limit /\ k.granularity = m.granularity
    /\ k.trim_threshold = m.trim_threshold

(* sbrk moves the break, *)
LEMMA MoreFacts ==
  ASSUME NEW m \in State, NEW n \in Int, m.brk + n \in Addr, NEW k, k = MORECORE(m, n)
  PROVE  OnlyBrk(m, k) /\ k.brk = m.brk + n
BY DEF State, MORECORE, OnlyBrk, SameHeap, SameBins, SameDv, SameTop

(* giving it up does not. *)
LEMMA GiveUpFacts ==
  ASSUME NEW m \in State, NEW k, k = [m EXCEPT !.noncontiguous = TRUE]
  PROVE  OnlyBrk(m, k) /\ k.brk = m.brk
BY DEF State, OnlyBrk, SameHeap, SameBins, SameDv, SameTop

(* Nothing may have happened, *)
LEMMA OnlyBrkSelf ==
  ASSUME NEW m \in State
  PROVE  OnlyBrk(m, m)
BY DEF OnlyBrk, SameHeap, SameBins, SameDv, SameTop

(* or one thing after another. *)
LEMMA OnlyBrkTrans ==
  ASSUME NEW m, NEW k, NEW n, OnlyBrk(m, k), OnlyBrk(k, n)
  PROVE  OnlyBrk(m, n)
BY DEF OnlyBrk, SameHeap, SameBins, SameDv, SameTop

(* Nothing was obtained, or words at the old break, and no more of them    *)
(* than a unless the limit allows it.                                      *)
NoSpace(m, o) == OnlyBrk(m, o.m) /\ o.m.brk = m.brk /\ o.tbase = NULL
SomeSpace(m, o, a) ==
    /\ OnlyBrk(m, o.m) /\ o.tbase = m.brk /\ o.tsize \in Nat /\ 12 <= o.tsize
    /\ o.m.brk = m.brk + o.tsize
    /\ o.tsize <= a \/ WithinLimit(m, o.tsize)
Obtains(m, o, a) == NoSpace(m, o) \/ SomeSpace(m, o, a)

(* Nothing is obtained when the break is where it was, *)
LEMMA NothingObtained ==
  ASSUME NEW m, NEW k, OnlyBrk(m, k), k.brk = m.brk, NEW n, NEW o, o = Obtained(k, NULL, n), NEW a
  PROVE  Obtains(m, o, a)
BY DEF Obtains, NoSpace, Obtained

(* and the words behind it when it has moved. *)
LEMMA SomethingObtained ==
  ASSUME NEW m, NEW k, OnlyBrk(m, k), NEW t \in Nat, 12 <= t, k.brk = m.brk + t, NEW a,
         t <= a \/ WithinLimit(m, t), NEW b, b = m.brk, NEW o, o = Obtained(k, b, t)
  PROVE  Obtains(m, o, a)
BY DEF Obtains, SomeSpace, Obtained

(* The break moves only within memory. *)
LEMMA MoveBreak ==
  ASSUME NEW m \in State, NEW t \in Nat, CanMove(m, t)
  PROVE  m.brk + t \in Addr /\ m.brk \in Nat
BY Small, SMTT(40) DEF State, CanMove

(* The first call of sbrk. *)
LEMMA FirstMorecoreFacts ==
  ASSUME NEW m \in State, NEW nb \in Nat, NEW u, NEW a, IsUnits(a, nb + 12, u),
         NEW o, o = first_morecore(m, nb, a)
  PROVE  Obtains(m, o, a)
<1>1. m.brk \in Addr
  BY DEF State
<1>2. page_align(m.brk) \in Nat /\ m.brk <= page_align(m.brk) /\ m.brk \in Nat
  BY <1>1, PageAlignFacts, Small
<1>3. a \in Nat /\ nb + 12 <= a
  BY UnitsFacts
<1> DEFINE ssize == a + (page_align(m.brk) - m.brk)
<1>4. ssize \in Nat /\ 12 <= ssize
  BY <1>2, <1>3
<1>5. PICK t \in Nat : t = ssize
  BY <1>4
<1>6. CASE t > nb /\ t < HALF_MAX_SIZE_T /\ WithinLimit(m, t) /\ CanMove(m, t)
  <2>1. o = Obtained(MORECORE(m, t), m.brk, t)
    BY <1>5, <1>6 DEF first_morecore
  <2>2. OnlyBrk(m, MORECORE(m, t)) /\ MORECORE(m, t).brk = m.brk + t
    BY <1>6, MoveBreak, MoreFacts
  <2> QED  BY <1>4, <1>5, <1>6, <2>1, <2>2, SomethingObtained
<1>7. CASE ~(t > nb /\ t < HALF_MAX_SIZE_T /\ WithinLimit(m, t) /\ CanMove(m, t))
  <2>1. o = Obtained([m EXCEPT !.noncontiguous = TRUE], NULL, 0)
    BY <1>5, <1>7 DEF first_morecore
  <2> QED  BY <2>1, GiveUpFacts, NothingObtained
<1> QED  BY <1>6, <1>7

(* A call that gave too little, and the one that makes up for it. *)
LEMMA ExtendPartialFacts ==
  ASSUME NEW m \in State, NEW nb \in Nat, NEW u \in Nat, u >= 1, m.granularity = u,
         ((nb + 12) + u) - 1 < SizeRange, NEW a, IsUnits(a, nb + 12, u),
         NEW s, NEW S \in Nat, IsUnits(s, S, u), 12 <= S, S <= nb + 12, CanMove(m, s),
         NEW k, k = MORECORE(m, s),
         NEW o, o = extend_partial(k, nb, m.brk, s)
  PROVE  Obtains(m, o, a)
<1>1. s \in Nat /\ S <= s /\ s <= a /\ a \in Nat /\ nb + 12 <= a
  BY UnitsFacts, UnitsMonotone
<1>2. OnlyBrk(m, k) /\ k.brk = m.brk + s /\ m.brk \in Nat
  BY <1>1, MoveBreak, MoreFacts
<1>3. k \in State /\ k.granularity = u
  BY <1>2 DEF OnlyBrk
<1>4. SYS_ALLOC_PADDING = 12
  BY Small
<1>5. PICK e : e = granularity_align(k, nb + SYS_ALLOC_PADDING - s)
  OBVIOUS
<1>6. CASE ~(s < nb + SYS_ALLOC_PADDING /\ e < HALF_MAX_SIZE_T)
  <2>1. o = Obtained(k, m.brk, s)
    BY <1>5, <1>6 DEF extend_partial
  <2> QED  BY <1>1, <1>2, <2>1, SomethingObtained
<1>7. CASE s < nb + SYS_ALLOC_PADDING
  <2>1. nb + SYS_ALLOC_PADDING - s = (nb + 12) - s
    BY <1>1, <1>4
  <2>2. (nb + 12) - s \in Nat /\ (((nb + 12) - s) + u) - 1 < SizeRange
    <3>1. SizeRange \in Nat
      BY SizeFacts
    <3> QED  BY <1>1, <1>4, <1>7, <3>1
  <2>3. IsUnits(e, (nb + 12) - s, u)
    BY <1>3, <1>5, <2>1, <2>2, AlignUpUnits DEF granularity_align
  <2>4. IsUnits(s + e, nb + 12, u)
    BY <1>4, <1>7, <2>3, UnitsAdd
  <2>5. s + e <= a /\ e \in Nat
    BY <2>3, <2>4, UnitsMonotone, UnitsFacts
  <2>6. CASE e < HALF_MAX_SIZE_T /\ CanMove(k, e)
    <3>1. o = Obtained(MORECORE(k, e), m.brk, s + e)
      BY <1>5, <1>7, <2>6 DEF extend_partial
    <3>2. OnlyBrk(k, MORECORE(k, e)) /\ MORECORE(k, e).brk = k.brk + e
      BY <1>3, <2>5, <2>6, MoveBreak, MoreFacts
    <3>3. OnlyBrk(m, MORECORE(k, e)) /\ MORECORE(k, e).brk = m.brk + (s + e)
      BY <1>1, <1>2, <2>5, <3>2, OnlyBrkTrans
    <3>4. s + e \in Nat /\ 12 <= s + e
      BY <1>1, <2>5
    <3> QED  BY <2>5, <3>1, <3>3, <3>4, SomethingObtained
  <2>7. CASE e < HALF_MAX_SIZE_T /\ ~CanMove(k, e)
    <3>1. o = Obtained([MORECORE(k, -s) EXCEPT !.noncontiguous = TRUE], NULL, 0)
      BY <1>5, <1>7, <2>7 DEF extend_partial
    <3>2. PICK j : j = MORECORE(k, -s)
      OBVIOUS
    <3>3. OnlyBrk(k, j) /\ j.brk = m.brk
      <4>1. -s \in Int /\ k.brk + (-s) = m.brk /\ m.brk \in Addr
        BY <1>1, <1>2 DEF State
      <4> QED  BY <1>3, <3>2, <4>1, MoreFacts
    <3>4. PICK i : i = [j EXCEPT !.noncontiguous = TRUE]
      OBVIOUS
    <3>5. OnlyBrk(j, i) /\ i.brk = j.brk
      BY <3>3, <3>4, GiveUpFacts DEF OnlyBrk
    <3>6. OnlyBrk(m, i) /\ i.brk = m.brk
      BY <1>2, <3>3, <3>5, OnlyBrkTrans
    <3> QED  BY <3>1, <3>2, <3>4, <3>6, NothingObtained
  <2> QED  BY <1>6, <1>7, <2>6, <2>7
<1> QED  BY <1>6, <1>7

(* The calls behind a top. *)
LEMMA NextMorecoreFacts ==
  ASSUME NEW m \in State, NEW nb \in Nat, NEW u \in Nat, u >= 1, m.granularity = u,
         ((nb + 12) + u) - 1 < SizeRange, NEW a, IsUnits(a, nb + 12, u), m.topsize <= nb,
         NEW o, o = next_morecore(m, nb)
  PROVE  Obtains(m, o, a)
<1>1. m.topsize \in Nat
  BY Small DEF State
<1>2. PICK s : s = granularity_align(m, nb - m.topsize + SYS_ALLOC_PADDING)
  OBVIOUS
<1>3. PICK S \in Nat : S = (nb - m.topsize) + 12
  BY <1>1
<1>4. 12 <= S /\ S <= nb + 12 /\ (S + u) - 1 < SizeRange
  <2>1. SizeRange \in Nat
    BY SizeFacts
  <2> QED  BY <1>1, <1>3, <2>1
<1>5. IsUnits(s, S, u)
  <2>1. nb - m.topsize + SYS_ALLOC_PADDING = S
    BY <1>1, <1>3, Small
  <2> QED  BY <1>2, <1>4, <2>1, AlignUpUnits DEF granularity_align
<1>6. s \in Nat /\ S <= s /\ s <= a
  BY <1>4, <1>5, UnitsFacts, UnitsMonotone
<1>7. CASE ~(s < HALF_MAX_SIZE_T /\ CanMove(m, s))
  <2>1. o = Obtained([m EXCEPT !.noncontiguous = TRUE], NULL, 0)
    BY <1>2, <1>7 DEF next_morecore
  <2> QED  BY <2>1, GiveUpFacts, NothingObtained
<1>8. CASE s < HALF_MAX_SIZE_T /\ CanMove(m, s)
  <2>1. \/ o = Obtained(MORECORE(m, s), m.brk, s)
        \/ o = extend_partial(MORECORE(m, s), nb, m.brk, s)
    BY <1>2, <1>8 DEF next_morecore
  <2>2. CASE o = Obtained(MORECORE(m, s), m.brk, s)
    <3>1. OnlyBrk(m, MORECORE(m, s)) /\ MORECORE(m, s).brk = m.brk + s
      BY <1>6, <1>8, MoveBreak, MoreFacts
    <3>2. 12 <= s
      BY <1>4, <1>6
    <3> QED  BY <1>6, <2>2, <3>1, <3>2, SomethingObtained
  <2>3. CASE o = extend_partial(MORECORE(m, s), nb, m.brk, s)
    BY <1>4, <1>5, <1>8, <2>3, ExtendPartialFacts
  <2> QED  BY <2>1, <2>2, <2>3
<1> QED  BY <1>7, <1>8

(* Without sbrk being contiguous. *)
LEMMA NoncontiguousFacts ==
  ASSUME NEW m \in State, NEW nb \in Nat, NEW u, NEW a, IsUnits(a, nb + 12, u),
         NEW o, o = noncontiguous_morecore(m, nb, a)
  PROVE  Obtains(m, o, a)
<1>1. a \in Nat /\ nb + 12 <= a
  BY UnitsFacts
<1>2. CASE ~(a < HALF_MAX_SIZE_T /\ CanMove(m, a))
  <2>1. o = Obtained(m, NULL, 0)
    BY <1>2 DEF noncontiguous_morecore
  <2> QED  BY <2>1, OnlyBrkSelf, NothingObtained
<1>3. CASE a < HALF_MAX_SIZE_T /\ CanMove(m, a)
  <2>1. a > nb + TOP_FOOT_SIZE
    BY <1>1, Small
  <2>2. o = Obtained(MORECORE(m, a), m.brk, a)
    BY <1>3, <2>1 DEF noncontiguous_morecore
  <2>3. OnlyBrk(m, MORECORE(m, a)) /\ MORECORE(m, a).brk = m.brk + a
    BY <1>1, <1>3, MoveBreak, MoreFacts
  <2>4. 12 <= a /\ a <= a
    BY <1>1
  <2> QED  BY <1>1, <2>2, <2>3, <2>4, SomethingObtained
<1> QED  BY <1>2, <1>3

(* sys_alloc's three ways to obtain memory.                                *)
LEMMA ObtainFacts ==
  ASSUME NEW m \in State, NEW nb \in Nat, NEW u \in Nat, u >= 1, m.granularity = u,
         ((nb + 12) + u) - 1 < SizeRange, NEW a, IsUnits(a, nb + 12, u), m.topsize <= nb,
         m.brk # NULL,
         NEW o, o = obtain(m, nb, a)
  PROVE  Obtains(m, o, a)
<1>1. PICK c : c = contiguous_morecore(m, nb, a)
  OBVIOUS
<1>2. Obtains(m, c, a)
  <2>1. CASE m.noncontiguous
    <3>1. c = Obtained(m, NULL, 0)
      BY <1>1, <2>1 DEF contiguous_morecore
    <3> QED  BY <3>1, OnlyBrkSelf, NothingObtained
  <2>2. CASE ~m.noncontiguous /\ is_initialized(m)
    <3>1. c = next_morecore(m, nb)
      BY <1>1, <2>2 DEF contiguous_morecore
    <3> QED  BY <3>1, NextMorecoreFacts
  <2>3. CASE ~m.noncontiguous /\ ~is_initialized(m)
    <3>1. c = first_morecore(m, nb, a)
      BY <1>1, <2>3 DEF contiguous_morecore
    <3> QED  BY <3>1, FirstMorecoreFacts
  <2> QED  BY <2>1, <2>2, <2>3
<1>3. o = IF c.tbase # NULL THEN c ELSE noncontiguous_morecore(c.m, nb, a)
  BY <1>1 DEF obtain, try_noncontiguous
<1>4. CASE c.tbase # NULL
  BY <1>2, <1>3, <1>4
<1>5. CASE c.tbase = NULL
  <2>1. NoSpace(m, c)
    BY <1>2, <1>5 DEF Obtains, SomeSpace
  <2>2. PICK k : k = c.m
    OBVIOUS
  <2>3. OnlyBrk(m, k) /\ k.brk = m.brk /\ k \in State
    BY <2>1, <2>2 DEF NoSpace, OnlyBrk
  <2>4. o = noncontiguous_morecore(k, nb, a)
    BY <1>3, <1>5, <2>2
  <2>5. Obtains(k, o, a)
    BY <2>3, <2>4, NoncontiguousFacts
  <2>6. CASE NoSpace(k, o)
    BY <2>3, <2>6, OnlyBrkTrans DEF NoSpace, Obtains
  <2>7. CASE SomeSpace(k, o, a)
    <3>1. OnlyBrk(m, o.m)
      BY <2>3, <2>7, OnlyBrkTrans DEF SomeSpace
    <3>2. WithinLimit(k, o.tsize) => WithinLimit(m, o.tsize)
      BY <2>3 DEF WithinLimit, OnlyBrk
    <3> QED  BY <2>3, <2>7, <3>1, <3>2 DEF SomeSpace, Obtains
  <2> QED  BY <2>5, <2>6, <2>7 DEF Obtains
<1> QED  BY <1>4, <1>5

-------------------------------------------------------------------------------
(* The accounts when words behind the break were added.                    *)
LEMMA OthersFinite ==
  ASSUME NEW m \in State, NEW X, Accounts(m, X)
  PROVE  IsFiniteSet(X) /\ Cardinality(X) \in Nat /\ m.brk \in Nat /\ m.footprint \in Nat
         /\ Brk0 \in Nat
<1>1. m.brk \in Nat /\ Brk0 \in Nat /\ m.footprint \in Nat
  BY Small DEF State
<1>2. Brk0 \in Int /\ m.brk - 1 \in Int
  BY <1>1
<1>3. IsFiniteSet(Brk0 .. m.brk - 1)
  BY <1>2, FS_Interval
<1>4. X \subseteq Brk0 .. m.brk - 1
  BY DEF Accounts
<1>5. IsFiniteSet(X)
  BY <1>3, <1>4, FS_Subset
<1> QED  BY <1>1, <1>5, FS_CardinalityType

(* They still balance. *)
LEMMA AccountsGrow ==
  ASSUME NEW m \in State, NEW X, Accounts(m, X), NEW n, NEW t \in Nat, n.brk = m.brk + t,
         Owned(n.seg) = Owned(m.seg) \cup (m.brk .. m.brk + t - 1),
         n.footprint = m.footprint + t, n.footprint <= n.max_footprint
  PROVE  Accounts(n, X)
<1>1. /\ Cardinality(X) \in Nat /\ m.brk \in Nat /\ m.footprint \in Nat /\ Brk0 \in Nat
  BY OthersFinite
<1>2. /\ Owned(m.seg) \cup X = Brk0 .. m.brk - 1 /\ Owned(m.seg) \cap X = {}
      /\ m.footprint + Cardinality(X) = m.brk - Brk0 /\ Brk0 <= m.brk
  BY DEF Accounts
<1>3. PICK I : I = m.brk .. m.brk + t - 1
  OBVIOUS
<1>4. \A x \in I : x \notin Brk0 .. m.brk - 1
  BY <1>1, <1>3
<1>5. (Brk0 .. m.brk - 1) \cup I = Brk0 .. (m.brk + t) - 1
  BY <1>1, <1>2, <1>3
<1>6. Owned(n.seg) \cup X = Brk0 .. n.brk - 1
  BY <1>2, <1>3, <1>5
<1>7. Owned(n.seg) \cap X = {}
  <2>1. X \cap I = {}
    BY <1>2, <1>4
  <2> QED  BY <1>2, <1>3, <2>1
<1>8. n.footprint + Cardinality(X) = n.brk - Brk0 /\ Brk0 <= n.brk
  BY <1>1, <1>2
<1> QED  BY <1>6, <1>7, <1>8 DEF Accounts

(* k is m after t words at the break were obtained and paid for.           *)
Paid(m, k, t) ==
    /\ k \in State /\ SameHeap(m, k) /\ k.seg = m.seg
    /\ k.brk = m.brk + t /\ k.footprint = m.footprint + t /\ k.footprint <= k.max_footprint
    /\ k.footprint_limit = m.footprint_limit /\ k.granularity = m.granularity
    /\ k.trim_threshold = m.trim_threshold

Charged(m, n) ==
    [m EXCEPT !.footprint = n, !.max_footprint = IF n > @ THEN n ELSE @]

(* The footprint is charged. *)
LEMMA ChargedFacts ==
  ASSUME NEW m \in State, NEW X, Accounts(m, X), NEW j, OnlyBrk(m, j), NEW t \in Nat,
         j.brk = m.brk + t, NEW k, k = Charged(j, j.footprint + t)
  PROVE  Paid(m, k, t)
<1>1. /\ Cardinality(X) \in Nat /\ m.brk \in Nat /\ m.footprint \in Nat /\ Brk0 \in Nat
  BY OthersFinite
<1>2. j \in State /\ j.footprint = m.footprint /\ j.max_footprint \in size_t /\ j.brk \in Addr
  BY DEF OnlyBrk, State
<1>3. j.max_footprint \in Nat /\ j.brk <= BrkLimit /\ BrkLimit <= MAX_SIZE_T /\ size_t = 0 .. MAX_SIZE_T
      /\ BrkLimit \in Nat /\ MAX_SIZE_T \in Nat
  BY <1>2, Small
<1>4. PICK f \in Nat : f = j.footprint + t
  BY <1>1, <1>2
<1>5. f \in size_t /\ f = m.footprint + t
  <2>1. m.footprint <= m.brk - Brk0
    BY <1>1 DEF Accounts
  <2> QED  BY <1>1, <1>2, <1>3, <1>4, <2>1
<1>6. PICK x : x = IF f > j.max_footprint THEN f ELSE j.max_footprint
  OBVIOUS
<1>7. x \in size_t /\ f <= x
  BY <1>2, <1>3, <1>5, <1>6
<1>8. k = [j EXCEPT !.footprint = f, !.max_footprint = x]
  BY <1>4, <1>6 DEF Charged
<1>9. k \in State /\ k.footprint = f /\ k.max_footprint = x /\ k.brk = j.brk
      /\ SameHeap(j, k) /\ k.seg = j.seg /\ k.footprint_limit = j.footprint_limit
      /\ k.granularity = j.granularity /\ k.trim_threshold = j.trim_threshold
  BY <1>2, <1>5, <1>7, <1>8 DEF State, SameHeap, SameBins, SameDv, SameTop
<1>10. SameHeap(m, k)
  BY <1>9 DEF OnlyBrk, SameHeap, SameBins, SameDv, SameTop
<1> QED  BY <1>5, <1>7, <1>9, <1>10 DEF Paid, OnlyBrk

-------------------------------------------------------------------------------
(* The first segment.                                                      *)
FirstSegment(k, b, t) ==
    /\ k.seg = <<[base |-> b, size |-> t, record |-> NULL]>>
    /\ k.least_addr = b

(* It owns what was obtained and has no record. *)
LEMMA FirstSegmentFacts ==
  ASSUME NEW b \in Addr, NEW t \in size_t, NEW k, FirstSegment(k, b, t), NEW seg, seg = k.seg
  PROVE  /\ seg \in Seq(SegmentSet) /\ DOMAIN seg = {1}
         /\ seg[1].base = b /\ seg[1].size = t /\ seg[1].record = NULL /\ EndOf(seg[1]) = b + t
         /\ RecordsOf(seg) = {} /\ Owned(seg) = b .. b + t - 1
<1>1. PICK r : r = [base |-> b, size |-> t, record |-> NULL]
  OBVIOUS
<1>2. r \in SegmentSet /\ r.base = b /\ r.size = t /\ r.record = NULL
  BY <1>1, Small DEF SegmentSet
<1>3. seg = <<r>>
  BY <1>1 DEF FirstSegment
<1>4. seg \in Seq(SegmentSet) /\ DOMAIN seg = {1} /\ seg[1] = r
  BY <1>2, <1>3
<1>5. RecordsOf(seg) = {}
  BY <1>4 DEF RecordsOf
<1>6. Owned(seg) = Extent(r)
  BY <1>4 DEF Owned
<1> QED  BY <1>2, <1>4, <1>5, <1>6 DEF EndOf, Extent

NoBins(m) ==
    /\ m.smallmap = {} /\ \A s \in SmallSizes : m.smallbins[s] = <<>>
    /\ \A s \in LargeSizes : m.treebins[s] = <<>>

(* Empty bins hold the chunks that are in no bin. *)
LEMMA EmptyBins ==
  ASSUME NEW m, NoBins(m), NEW z, NEW X, DOMAIN z \subseteq X
  PROVE  Bins(m, z, X)
<1>1. \A s : Lists(<<>>, z, X, s)
  <2> SUFFICES ASSUME NEW s PROVE Lists(<<>>, z, X, s)
    OBVIOUS
  <2>1. Once(<<>>)
    BY DEF Once
  <2>2. Range(<<>>) = {}
    BY DEF Range
  <2> QED  BY <2>1, <2>2 DEF Lists
<1> QED  BY <1>1 DEF NoBins, Bins

(* Its only chunk is top. *)
LEMMA BlankInstalled ==
  ASSUME NEW k \in State, ~k.aborted, k.top = NULL, k.topsize = 0, k.dv = NULL, k.dvsize = 0,
         NoBins(k), NEW b \in Addr \ {0}, NEW t \in size_t, 12 <= t, b + t <= k.brk,
         FirstSegment(k, b, t), NEW n, n = init_top(k, b, t - TOP_FOOT_SIZE)
  PROVE  SameSettings(k, n) /\ \E z : Heap(n, z, {})
<1>1. /\ b \in Nat /\ b > 0 /\ t \in Nat /\ k.brk \in Addr /\ TOP_FOOT_SIZE = 10
      /\ align_offset(b) \in 0 .. 1 /\ BrkLimit \in Nat /\ k.brk \in 0 .. BrkLimit
  BY Small DEF State, align_offset
<1>2. PICK q : q = align_as_chunk(b)
  OBVIOUS
<1>3. PICK s : s = (t - TOP_FOOT_SIZE) - align_offset(b)
  OBVIOUS
<1>4. q = b + align_offset(b) /\ q \in Nat /\ Even(q) /\ b <= q
  BY <1>1, <1>2, FirstFacts DEF align_as_chunk
<1>5. s \in Nat /\ s > 0 /\ q + s + 10 = b + t
  BY <1>1, <1>3, <1>4
<1>6. PICK F : F = q + s
  OBVIOUS
<1>7. F \in Addr /\ q \in Addr /\ s \in size_t \ {0} /\ F \in Nat /\ q < F /\ q # 0
  <2>1. F \in 0 .. BrkLimit /\ q \in 0 .. BrkLimit
    BY <1>1, <1>4, <1>5, <1>6
  <2>2. s \in size_t
    BY <1>1, <1>3, <1>5, Small
  <2>3. F \in Nat /\ q < F /\ q # 0 /\ s # 0
    BY <1>1, <1>4, <1>5, <1>6
  <2>4. F \in Addr /\ q \in Addr
    BY <2>1, Small
  <2> QED  BY <2>2, <2>3, <2>4
<1>8. /\ n \in State /\ SameSettings(k, n) /\ SameBins(k, n) /\ SameDv(k, n)
      /\ n.top = q /\ n.topsize = s
      /\ n.chunk[q] = FreeHeader(s) /\ n.chunk[F] = FootHeader
  <2>1. k.top + k.topsize \in Addr
    BY Small
  <2> QED  BY <1>2, <1>3, <1>6, <1>7, <2>1, InitTopFacts
<1>9. PICK seg : seg = n.seg
  OBVIOUS
<1>10. /\ seg \in Seq(SegmentSet) /\ DOMAIN seg = {1}
       /\ seg[1].base = b /\ seg[1].record = NULL /\ EndOf(seg[1]) = b + t
       /\ n.least_addr = b /\ n.brk = k.brk /\ ~n.aborted
  <2>1. seg = k.seg
    BY <1>8, <1>9 DEF SameSettings
  <2>2. n.least_addr = b
    BY <1>8 DEF SameSettings, FirstSegment
  <2> QED  BY <1>8, <2>1, <2>2, FirstSegmentFacts DEF SameSettings
<1>11. first(seg, 1) = q /\ stop(seg, F, 1) = F /\ Stops(seg, F) = {F}
  BY <1>2, <1>10 DEF first, stop, Stops
<1>12. Segs(seg, F, b, n.brk)
  BY <1>1, <1>5, <1>6, <1>7, <1>10, <1>11 DEF Segs
<1>13. PICK z : z = [a \in {q} |-> s]
  OBVIOUS
<1>14. DOMAIN z = {q} /\ z[q] = s
  BY <1>13
<1>15. Layout(z, seg, F)
  BY <1>4, <1>5, <1>6, <1>7, <1>10, <1>11, <1>14 DEF Layout
<1>16. Tags(n.chunk, z, seg, F, {}, {})
  <2>1. /\ n.chunk[q].size = s /\ ~n.chunk[q].cinuse /\ n.chunk[q].pinuse
        /\ ~n.chunk[F].pinuse
    BY <1>8 DEF FreeHeader, FootHeader, Header
  <2> QED  BY <1>6, <1>10, <1>11, <1>14, <2>1 DEF Tags
<1>17. Records(seg, z, {}) /\ Apart(z, {} \cup {})
  <2>1. q + s # q
    BY <1>4, <1>5
  <2> QED  BY <1>10, <1>14, <2>1 DEF Records, Apart
<1>18. Bins(n, z, {} \cup {} \cup {n.top, n.dv})
  <2>1. NoBins(n)
    BY <1>8 DEF NoBins, SameBins
  <2>2. DOMAIN z \subseteq {} \cup {} \cup {n.top, n.dv}
    BY <1>8, <1>14
  <2> QED  BY <2>1, <2>2, EmptyBins
<1>19. Hole(n, z, {}, {}, {}, F)
  BY <1>8, <1>9, <1>10, <1>12, <1>15, <1>16, <1>17, <1>18 DEF Hole
<1>20. TopOK(n, z, {}, {}, F) /\ DvOK(n, z, {}, {})
  <2>1. n.dv = NULL /\ n.dvsize = 0
    BY <1>8 DEF SameDv
  <2> QED  BY <1>6, <1>8, <1>14, <2>1 DEF TopOK, DvOK
<1>21. Heap(n, z, {})
  BY <1>19, <1>20, HeapFromHole
<1> QED  BY <1>8, <1>21

-------------------------------------------------------------------------------
(* What install has to do: the new words become part of the heap.          *)
Installed(m, B, X, n, t) ==
    /\ Sys(n, B, X) /\ Keeps(m, n, B) /\ n.top # NULL
    /\ n.footprint = m.footprint + t /\ n.footprint_limit = m.footprint_limit

(* What is a heap again with the words in it is installed. *)
LEMMA InstalledFrom ==
  ASSUME NEW m, NEW B, NEW X, Sys(m, B, X), m.granularity # 0, NEW t \in Nat, NEW k, Paid(m, k, t),
         NEW n, NEW z, NEW R, R = RecordsOf(n.seg), B \cap R = {}, Heap(n, z, B \cup R),
         Owned(n.seg) = Owned(m.seg) \cup (m.brk .. m.brk + t - 1),
         n.footprint = k.footprint, n.max_footprint = k.max_footprint,
         n.footprint_limit = k.footprint_limit, n.granularity = k.granularity, n.brk = k.brk,
         Keeps(m, n, B)
  PROVE  Installed(m, B, X, n, t)
<1>1. n \in State /\ ~n.aborted /\ n.top # NULL
  BY HeapSizes
<1>2. HeapOf(n, B)
  BY DEF HeapOf
<1>3. Accounts(n, X)
  <2>1. m \in State /\ Accounts(m, X)
    BY DEF Sys
  <2>2. n.brk = m.brk + t /\ n.footprint = m.footprint + t /\ n.footprint <= n.max_footprint
    BY DEF Paid
  <2> QED  BY <2>1, <2>2, AccountsGrow
<1>4. Params(n) /\ n.granularity # 0
  <2>1. n.granularity = m.granularity
    BY DEF Paid
  <2> QED  BY <2>1 DEF Sys, Params
<1>5. Sys(n, B, X)
  BY <1>1, <1>2, <1>3, <1>4 DEF Sys
<1> QED  BY <1>1, <1>5 DEF Installed, Paid

(* The first segment,                                                      *)
LEMMA InstallFirst ==
  ASSUME NEW m, NEW B, NEW X, Sys(m, B, X), m.granularity # 0, m.top = NULL,
         NEW t \in Nat, 12 <= t, NEW k, Paid(m, k, t),
         NEW b, b = m.brk,
         NEW n, n = init_top([[k EXCEPT !.least_addr = b]
                                EXCEPT !.seg = <<[base |-> b, size |-> t, record |-> NULL]>>],
                             b, t - TOP_FOOT_SIZE)
  PROVE  Installed(m, B, X, n, t)
<1>1. B = {} /\ Blank(m) /\ m \in State /\ Accounts(m, X) /\ ~m.aborted
  BY DEF Sys
<1>2. /\ k \in State /\ SameHeap(m, k) /\ k.brk = m.brk + t
  BY DEF Paid
<1>3. b \in Addr \ {0} /\ t \in size_t /\ b + t <= k.brk /\ b \in Nat
  <2>1. b \in Nat /\ Brk0 <= b /\ Brk0 \in Nat
    BY <1>1, OthersFinite DEF Accounts
  <2>2. k.brk \in Addr /\ m.brk \in Addr
    BY <1>1, <1>2 DEF State
  <2>3. k.brk <= BrkLimit /\ BrkLimit <= MAX_SIZE_T /\ BrkLimit \in Nat /\ MAX_SIZE_T \in Nat
        /\ k.brk \in Nat
    BY <2>2, Small
  <2>4. t \in 0 .. MAX_SIZE_T /\ b > 0
    BY <1>2, <2>1, <2>3, Small, SMTT(40)
  <2>5. b + t <= k.brk
    BY <1>2, <2>1, <2>3
  <2> QED  BY <2>1, <2>2, <2>4, <2>5, Small
<1>4. PICK seg1 : seg1 = <<[base |-> b, size |-> t, record |-> NULL]>>
  OBVIOUS
<1>5. seg1 \in Seq(SegmentSet)
  <2>1. [base |-> b, size |-> t, record |-> NULL] \in SegmentSet
    BY <1>3, Small DEF SegmentSet
  <2> QED  BY <1>4, <2>1
<1>6. PICK j : j = [[k EXCEPT !.least_addr = b] EXCEPT !.seg = seg1]
  OBVIOUS
<1>7. /\ j \in State /\ j.seg = seg1 /\ j.least_addr = b /\ j.brk = k.brk /\ j.aborted = k.aborted
      /\ j.footprint = k.footprint /\ j.max_footprint = k.max_footprint
      /\ j.footprint_limit = k.footprint_limit /\ j.granularity = k.granularity
      /\ SameBins(k, j) /\ SameDv(k, j) /\ SameTop(k, j)
  BY <1>2, <1>3, <1>5, <1>6 DEF State, SameBins, SameDv, SameTop
<1>8. FirstSegment(j, b, t)
  BY <1>4, <1>7 DEF FirstSegment
<1>9. /\ ~j.aborted /\ j.top = NULL /\ j.topsize = 0 /\ j.dv = NULL /\ j.dvsize = 0
  BY <1>1, <1>2, <1>7 DEF Blank, SameHeap, SameDv, SameTop
<1>10. NoBins(j)
  <2>1. SameBins(m, k)
    BY <1>2 DEF SameHeap
  <2> QED  BY <1>1, <1>7, <2>1 DEF Blank, NoBins, SameBins
<1>11. n = init_top(j, b, t - TOP_FOOT_SIZE)
  BY <1>4, <1>6
<1>12. SameSettings(j, n) /\ \E z : Heap(n, z, {})
  <2>1. b + t <= j.brk
    BY <1>3, <1>7
  <2> QED  BY <1>3, <1>7, <1>8, <1>9, <1>10, <1>11, <2>1, BlankInstalled
<1>13. PICK z : Heap(n, z, {})
  BY <1>12
<1>14. n.seg = seg1 /\ RecordsOf(n.seg) = {} /\ Owned(n.seg) = b .. b + t - 1
  <2>1. n.seg = seg1
    BY <1>7, <1>12 DEF SameSettings
  <2>2. DOMAIN seg1 = {1} /\ seg1[1] = [base |-> b, size |-> t, record |-> NULL]
    BY <1>4
  <2>3. RecordsOf(seg1) = {}
    BY <2>2 DEF RecordsOf
  <2>4. Owned(seg1) = b .. b + t - 1
    <3>1. Owned(seg1) = Extent(seg1[1])
      BY <2>2 DEF Owned
    <3>2. Extent(seg1[1]) = b .. b + t - 1
      BY <1>3, <2>2 DEF Extent, EndOf
    <3> QED  BY <3>1, <3>2
  <2> QED  BY <2>1, <2>3, <2>4
<1>15. Owned(m.seg) = {}
  BY <1>1 DEF Blank, Owned
<1>16. Keeps(m, n, B)
  BY <1>1 DEF Keeps
<1>17. PICK R : R = RecordsOf(n.seg)
  OBVIOUS
<1>18. B \cap R = {} /\ Heap(n, z, B \cup R)
  <2>1. B \cup R = {}
    BY <1>1, <1>14, <1>17
  <2> QED  BY <1>1, <1>13, <2>1
<1>19. Owned(n.seg) = Owned(m.seg) \cup (m.brk .. m.brk + t - 1)
  BY <1>14, <1>15
<1>20. /\ n.footprint = k.footprint /\ n.max_footprint = k.max_footprint
       /\ n.footprint_limit = k.footprint_limit /\ n.granularity = k.granularity /\ n.brk = k.brk
  BY <1>7, <1>12 DEF SameSettings
<1> QED  BY <1>16, <1>17, <1>18, <1>19, <1>20, InstalledFrom

(* a segment of its own,                                                   *)
LEMMA InstallAdded ==
  ASSUME NEW m, NEW B, NEW X, Sys(m, B, X), m.top # NULL,
         NEW t \in Nat, 12 <= t, NEW k, Paid(m, k, t),
         NEW n, n = add_segment(k, m.brk, t)
  PROVE  Installed(m, B, X, n, t)
<1>1. PICK z, R : /\ R = RecordsOf(m.seg) /\ B \cap R = {} /\ Heap(m, z, B \cup R)
  BY SysHeap
<1>2. m \in State /\ Accounts(m, X) /\ m.granularity # 0
  BY DEF Sys
<1>3. NewSpace(m, k, m.brk, t)
  <2>1. k \in State /\ SameHeap(m, k) /\ k.seg = m.seg /\ k.brk = m.brk + t
    BY DEF Paid
  <2>2. m.brk \in Addr /\ k.brk \in Addr
    BY <1>2, <2>1 DEF State
  <2>3. m.brk \in Nat /\ k.brk <= BrkLimit /\ BrkLimit <= MAX_SIZE_T /\ BrkLimit \in Nat
        /\ MAX_SIZE_T \in Nat /\ k.brk \in Nat
    BY <2>2, Small
  <2>4. t \in size_t
    <3>1. t \in 0 .. MAX_SIZE_T
      BY <2>1, <2>3
    <3> QED  BY <3>1, Small
  <2>5. m.brk <= m.brk /\ m.brk + t <= k.brk
    BY <2>1, <2>3
  <2> QED  BY <2>1, <2>2, <2>4, <2>5 DEF NewSpace
<1>4. /\ SameBut(k, n) /\ Grown(m, z, B \cup R, n)
      /\ Owned(n.seg) = Owned(m.seg) \cup (m.brk .. m.brk + t - 1)
  <2>1. PICK b : b = m.brk
    OBVIOUS
  <2>2. PICK U : U = B \cup R
    OBVIOUS
  <2>3. PICK w : w = n
    OBVIOUS
  <2>4. Heap(m, z, U) /\ NewSpace(m, k, b, t) /\ w = add_segment(k, b, t)
    BY <1>1, <1>3, <2>1, <2>2, <2>3
  <2>5. SameBut(k, w)
    BY <2>4, AddSegmentFacts
  <2>6. Grown(m, z, U, w)
    BY <2>4, AddSegmentFacts
  <2>7. Owned(w.seg) = Owned(m.seg) \cup (b .. b + t - 1)
    BY <2>4, AddSegmentFacts
  <2> QED  BY <2>1, <2>2, <2>3, <2>5, <2>6, <2>7
<1>5. PICK c, y : /\ c \notin B \cup R /\ Heap(n, y, B \cup R \cup {c})
                  /\ Agree(y, z, B \cup R)
                  /\ RecordsOf(n.seg) = R \cup {c}
  BY <1>1, <1>4 DEF Grown, Agree
<1>6. PICK Q : Q = RecordsOf(n.seg)
  OBVIOUS
<1>7. B \cap Q = {} /\ Heap(n, y, B \cup Q)
  <2>1. B \cup Q = B \cup R \cup {c}
    BY <1>5, <1>6
  <2> QED  BY <1>1, <1>5, <1>6, <2>1
<1>8. Keeps(m, n, B)
  <2>1. Agree(y, z, B)
    BY <1>5 DEF Agree
  <2>2. B \subseteq B \cup R /\ B \subseteq B \cup Q
    OBVIOUS
  <2> QED  BY <1>1, <1>7, <2>1, <2>2, KeepsFrom
<1>9. /\ n.footprint = k.footprint /\ n.max_footprint = k.max_footprint
      /\ n.footprint_limit = k.footprint_limit /\ n.granularity = k.granularity /\ n.brk = k.brk
  BY <1>4 DEF SameBut
<1> QED  BY <1>2, <1>4, <1>6, <1>7, <1>8, <1>9, InstalledFrom

(* The segments when the first has another size.                           *)
LEMMA SegmentGrows ==
  ASSUME NEW seg \in Seq(SegmentSet), 1 \in DOMAIN seg, NEW t \in Nat, EndOf(seg[1]) + t \in Addr,
         NEW seg2, seg2 = [seg EXCEPT ![1].size = @ + t]
  PROVE  /\ seg2 \in Seq(SegmentSet) /\ Resegmented(seg, seg2)
         /\ EndOf(seg2[1]) = EndOf(seg[1]) + t /\ RecordsOf(seg2) = RecordsOf(seg)
         /\ Owned(seg2) = Owned(seg) \cup (EndOf(seg[1]) .. EndOf(seg[1]) + t - 1)
<1>1. PICK r : r = seg[1]
  OBVIOUS
<1>2. r \in SegmentSet
  BY <1>1
<1>3. PICK q : q = [r EXCEPT !.size = @ + t]
  OBVIOUS
<1>4. r.base \in Nat /\ r.size \in Nat /\ r.base + r.size + t <= MAX_SIZE_T
  BY <1>1, <1>2, Small DEF SegmentSet, EndOf
<1>5. r.size + t \in size_t
  <2>1. r.size + t \in Nat /\ r.size + t <= MAX_SIZE_T /\ MAX_SIZE_T \in Nat
    <3>1. MAX_SIZE_T \in Nat
      BY Small
    <3> QED  BY <1>4, <3>1
  <2> QED  BY <2>1, Small
<1>6. q \in SegmentSet /\ q.base = r.base /\ q.size = r.size + t /\ q.record = r.record
  BY <1>2, <1>3, <1>5 DEF SegmentSet
<1>7. seg2 = [seg EXCEPT ![1] = q]
  BY <1>1, <1>3
<1>8. seg2 \in Seq(SegmentSet) /\ DOMAIN seg2 = DOMAIN seg /\ seg2[1] = q
      /\ \A i \in DOMAIN seg \ {1} : seg2[i] = seg[i]
  BY <1>6, <1>7
<1> HIDE DEF EndOf
<1>9. EndOf(q) = EndOf(r) + t
  BY <1>4, <1>6 DEF EndOf
<1>10. Extent(q) = Extent(r) \cup (EndOf(r) .. EndOf(r) + t - 1)
  BY <1>4, <1>6 DEF EndOf, Extent
<1>11. Owned(seg2) = Extent(q) \cup UNION {Extent(seg[i]) : i \in DOMAIN seg \ {1}}
  BY <1>8 DEF Owned
<1>12. Owned(seg) = Extent(r) \cup UNION {Extent(seg[i]) : i \in DOMAIN seg \ {1}}
  BY <1>1 DEF Owned
<1>13. Resegmented(seg, seg2)
  BY <1>1, <1>6, <1>8 DEF Resegmented
<1>14. RecordsOf(seg2) = RecordsOf(seg)
  BY <1>8 DEF RecordsOf
<1> QED  BY <1>1, <1>8, <1>9, <1>10, <1>11, <1>12, <1>13, <1>14

(* Where top is. *)
LEMMA HeapTop ==
  ASSUME NEW m, NEW z, NEW U, Heap(m, z, U)
  PROVE  /\ m.seg \in Seq(SegmentSet) /\ 1 \in DOMAIN m.seg
         /\ m.top + m.topsize + TOP_FOOT_SIZE = EndOf(m.seg[1])
         /\ m.top \in DOMAIN z /\ m.top \notin U /\ m.topsize = z[m.top] /\ m.topsize \in Nat \ {0}
         /\ m.top \in Nat /\ m.top # NULL /\ EndOf(m.seg[1]) <= m.brk
         /\ m.seg[1].base <= m.top
<1>1. PICK E : E = m.top + m.topsize
  OBVIOUS
<1>2. Hole(m, z, U, {}, {}, E) /\ TopOK(m, z, U, {}, E)
  BY <1>1 DEF Heap
<1>3. /\ Segs(m.seg, E, m.least_addr, m.brk) /\ Layout(z, m.seg, E)
      /\ m.top \in DOMAIN z /\ m.top \notin U /\ m.topsize = z[m.top] /\ m.top + z[m.top] = E
  BY <1>2 DEF Hole, TopOK
<1>4. m.top \in Nat /\ z[m.top] \in Nat \ {0}
  BY <1>3 DEF Layout
<1>5. /\ m.seg \in Seq(SegmentSet) /\ 1 \in DOMAIN m.seg /\ E + TOP_FOOT_SIZE = EndOf(m.seg[1])
      /\ EndOf(m.seg[1]) <= m.brk
  BY <1>3 DEF Segs
<1>6. m.seg[1].base <= m.top
  BY <1>3, TopHighest
<1>7. m.top # NULL
  BY <1>2, HeapSizes
<1> QED  BY <1>1, <1>3, <1>4, <1>5, <1>6, <1>7

(* more of the segment that holds top.                                     *)
LEMMA InstallExtended ==
  ASSUME NEW m, NEW B, NEW X, Sys(m, B, X), m.top # NULL,
         NEW t \in Nat, 12 <= t, NEW k, Paid(m, k, t), m.brk = EndOf(m.seg[1]),
         NEW n, n = init_top([k EXCEPT !.seg[1].size = @ + t], k.top, k.topsize + t)
  PROVE  Installed(m, B, X, n, t)
<1>1. PICK z, R : R = RecordsOf(m.seg) /\ B \cap R = {} /\ Heap(m, z, B \cup R)
  BY SysHeap
<1>2. m \in State /\ Accounts(m, X) /\ m.granularity # 0 /\ ~m.aborted
  BY DEF Sys
<1>3. k \in State /\ SameHeap(m, k) /\ k.seg = m.seg /\ k.brk = m.brk + t
  BY DEF Paid
<1>4. PICK seg, b : seg = m.seg /\ b = m.brk
  OBVIOUS
<1>5. /\ seg \in Seq(SegmentSet) /\ 1 \in DOMAIN seg
      /\ m.top + m.topsize + TOP_FOOT_SIZE = EndOf(seg[1])
      /\ m.top \in DOMAIN z /\ m.topsize = z[m.top] /\ m.topsize \in Nat \ {0} /\ m.top \in Nat
  BY <1>1, <1>4, HeapTop
<1>6. EndOf(seg[1]) + t \in Addr
  BY <1>3, <1>4 DEF State
<1>7. PICK seg2 : seg2 = [seg EXCEPT ![1].size = @ + t]
  OBVIOUS
<1>8. /\ seg2 \in Seq(SegmentSet) /\ Resegmented(seg, seg2)
      /\ EndOf(seg2[1]) = EndOf(seg[1]) + t /\ RecordsOf(seg2) = RecordsOf(seg)
      /\ Owned(seg2) = Owned(seg) \cup (b .. b + t - 1)
  <2>1. EndOf(seg[1]) = b /\ b \in Addr
    BY <1>2, <1>4 DEF State
  <2>2. /\ seg2 \in Seq(SegmentSet) /\ Resegmented(seg, seg2)
        /\ EndOf(seg2[1]) = EndOf(seg[1]) + t /\ RecordsOf(seg2) = RecordsOf(seg)
    BY <1>5, <1>6, <1>7, SegmentGrows
  <2>3. Owned(seg2) = Owned(seg) \cup (EndOf(seg[1]) .. EndOf(seg[1]) + t - 1)
    BY <1>5, <1>6, <1>7, SegmentGrows
  <2> QED  BY <2>1, <2>2, <2>3
<1>9. PICK j : j = [k EXCEPT !.seg = seg2]
  OBVIOUS
<1>10. /\ j \in State /\ j.seg = seg2 /\ j.least_addr = k.least_addr /\ j.brk = k.brk
       /\ j.aborted = k.aborted /\ j.chunk = k.chunk
       /\ j.footprint = k.footprint /\ j.max_footprint = k.max_footprint
       /\ j.footprint_limit = k.footprint_limit /\ j.granularity = k.granularity
       /\ SameBins(k, j) /\ SameDv(k, j) /\ SameTop(k, j)
  BY <1>3, <1>8, <1>9 DEF State, SameBins, SameDv, SameTop
<1>11. j = [k EXCEPT !.seg[1].size = @ + t]
  BY <1>3, <1>4, <1>7, <1>9 DEF State
<1>12. PICK s : s = m.topsize + t
  OBVIOUS
<1>13. n = init_top(j, j.top, s)
  BY <1>3, <1>10, <1>11, <1>12 DEF SameHeap, SameTop
<1>14. PICK y : y = [a \in DOMAIN z |-> IF a = m.top THEN s ELSE z[a]]
  OBVIOUS
<1>15. TopSize(z, y, m.top, s)
  BY <1>5, <1>14 DEF TopSize
<1>16. SameSettings(j, n) /\ Heap(n, y, B \cup R) /\ n.top = m.top
  <2>1. /\ SameBins(m, j) /\ SameDv(m, j) /\ SameTop(m, j) /\ j.chunk = m.chunk
        /\ ~j.aborted /\ j.least_addr = m.least_addr
    BY <1>2, <1>3, <1>10 DEF SameHeap, SameBins, SameDv, SameTop
  <2>2. Resegmented(m.seg, j.seg)
    BY <1>4, <1>8, <1>10
  <2>3. m.top + s + TOP_FOOT_SIZE = EndOf(j.seg[1])
    <3>1. TOP_FOOT_SIZE = 10
      BY Small
    <3> QED  BY <1>5, <1>8, <1>10, <1>12, <3>1
  <2>4. EndOf(j.seg[1]) <= j.brk
    <3>1. EndOf(j.seg[1]) = j.brk
      BY <1>3, <1>4, <1>8, <1>10
    <3>2. j.brk \in Nat
      <4>1. j.brk \in Addr
        BY <1>10 DEF State
      <4> QED  BY <4>1, Small
    <3> QED  BY <3>1, <3>2
  <2>5. s \in Nat \ {0}
    BY <1>5, <1>12
  <2> QED  BY <1>1, <1>10, <1>13, <1>15, <2>1, <2>2, <2>3, <2>4, <2>5, MoveTop
<1>17. n.seg = seg2 /\ RecordsOf(n.seg) = R
  BY <1>1, <1>4, <1>8, <1>10, <1>16 DEF SameSettings
<1>18. Keeps(m, n, B)
  <2>1. m.top \notin B \cup R
    BY <1>1, HeapTop
  <2>2. B \subseteq DOMAIN z
    BY <1>1, HeapSizes
  <2>3. Agree(y, z, B)
    BY <1>15, <2>1, <2>2 DEF Agree, TopSize
  <2>4. B \subseteq B \cup R
    OBVIOUS
  <2> QED  BY <1>1, <1>16, <2>3, <2>4, KeepsFrom
<1>19. Owned(n.seg) = Owned(m.seg) \cup (m.brk .. m.brk + t - 1)
  BY <1>4, <1>8, <1>17
<1>20. /\ n.footprint = k.footprint /\ n.max_footprint = k.max_footprint
       /\ n.footprint_limit = k.footprint_limit /\ n.granularity = k.granularity /\ n.brk = k.brk
  BY <1>10, <1>16 DEF SameSettings
<1> QED  BY <1>1, <1>2, <1>16, <1>17, <1>18, <1>19, <1>20, InstalledFrom

(* Where the new words go.                                                 *)
Continues(m, b) == SelectInSeq(m.seg, LAMBDA s : s.base + s.size = b)

(* Words that continue the first segment begin at its end. *)
LEMMA ContinuesTop ==
  ASSUME NEW m, NEW b, m.seg \in Seq(SegmentSet), Continues(m, b) = 1
  PROVE  EndOf(m.seg[1]) = b
<1> DEFINE I == {i \in 1 .. Len(m.seg) : m.seg[i].base + m.seg[i].size = b}
<1>1. Continues(m, b) = IF I # {} THEN Min(I) ELSE 0
  BY DEF Continues, SelectInSeq
<1>2. I \in SUBSET Nat
  OBVIOUS
<1>3. I # {} /\ Min(I) = 1
  BY <1>1
<1>4. 1 \in I
  <2> HIDE DEF I
  <2> QED  BY <1>2, <1>3, MinFacts
<1> QED  BY <1>4 DEF EndOf

Lowest(m, b) == [m EXCEPT !.least_addr = IF @ = 0 \/ b < @ THEN b ELSE @]

InstallCharged(k, b, t) ==
    IF ~is_initialized(k) THEN
        init_top([Lowest(k, b) EXCEPT
                     !.seg = <<[base |-> b, size |-> t, record |-> NULL]>>],
                 b, t - TOP_FOOT_SIZE)
    ELSE IF Continues(k, b) # 0 /\ Continues(k, b) = segment_holding(k, k.top) THEN
        init_top([k EXCEPT !.seg[Continues(k, b)].size = @ + t], k.top, k.topsize + t)
    ELSE add_segment(Lowest(k, b), b, t)

(* install pays and then places. *)
LEMMA InstallIs ==
  ASSUME NEW o
  PROVE  install(o) = InstallCharged(Charged(o.m, o.m.footprint + o.tsize), o.tbase, o.tsize)
BY DEF install, InstallCharged, Charged, Continues, Lowest

(* Every place is one of the three. *)
LEMMA InstallChargedFacts ==
  ASSUME NEW m, NEW B, NEW X, Sys(m, B, X), m.granularity # 0,
         NEW t \in Nat, 12 <= t, NEW k, Paid(m, k, t), NEW b, b = m.brk,
         NEW n, n = InstallCharged(k, b, t)
  PROVE  Installed(m, B, X, n, t)
<1>1. k \in State /\ SameHeap(m, k) /\ k.seg = m.seg
  BY DEF Paid
<1>2. k.top = m.top /\ k.topsize = m.topsize /\ k.least_addr = m.least_addr
  BY <1>1 DEF SameHeap, SameTop
<1>3. CASE m.top = NULL
  <2>1. k.least_addr = 0
    BY <1>2, <1>3 DEF Sys, Blank
  <2>2. Lowest(k, b) = [k EXCEPT !.least_addr = b]
    BY <2>1 DEF Lowest
  <2>3. n = init_top([Lowest(k, b) EXCEPT !.seg = <<[base |-> b, size |-> t, record |-> NULL]>>],
                     b, t - TOP_FOOT_SIZE)
    BY <1>2, <1>3 DEF InstallCharged, is_initialized
  <2>4. n = init_top([[k EXCEPT !.least_addr = b]
                         EXCEPT !.seg = <<[base |-> b, size |-> t, record |-> NULL]>>],
                     b, t - TOP_FOOT_SIZE)
    BY <2>2, <2>3
  <2> QED  BY <1>3, <2>4, InstallFirst
<1>4. CASE m.top # NULL
  <2>1. PICK z, R : R = RecordsOf(m.seg) /\ B \cap R = {} /\ Heap(m, z, B \cup R)
    BY <1>4, SysHeap
  <2>2. /\ m.seg \in Seq(SegmentSet) /\ 1 \in DOMAIN m.seg
        /\ m.top + m.topsize + TOP_FOOT_SIZE = EndOf(m.seg[1])
        /\ m.topsize \in Nat \ {0} /\ m.top \in Nat /\ m.seg[1].base <= m.top
        /\ EndOf(m.seg[1]) <= m.brk
    BY <2>1, HeapTop
  <2>3. segment_holding(k, k.top) = 1
    <3>1. TOP_FOOT_SIZE = 10
      BY Small
    <3>2. m.top < EndOf(m.seg[1])
      <4>1. PICK e : e = EndOf(m.seg[1])
        OBVIOUS
      <4>2. m.top + m.topsize + 10 = e
        BY <2>2, <3>1, <4>1
      <4> QED  BY <2>2, <4>1, <4>2
    <3> QED  BY <1>1, <1>2, <2>2, <3>2, HoldingTop
  <2>4. n = IF Continues(k, b) # 0 /\ Continues(k, b) = segment_holding(k, k.top)
            THEN init_top([k EXCEPT !.seg[Continues(k, b)].size = @ + t], k.top, k.topsize + t)
            ELSE add_segment(Lowest(k, b), b, t)
    BY <1>2, <1>4 DEF InstallCharged, is_initialized
  <2>5. CASE Continues(k, b) = 1
    <3>1. EndOf(m.seg[1]) = b
      BY <1>1, <2>2, <2>5, ContinuesTop
    <3>2. n = init_top([k EXCEPT !.seg[1].size = @ + t], k.top, k.topsize + t)
      BY <2>3, <2>4, <2>5
    <3>3. m.brk = EndOf(m.seg[1])
      BY <3>1
    <3> QED  BY <1>4, <3>2, <3>3, InstallExtended
  <2>6. CASE Continues(k, b) # 1
    <3>1. n = add_segment(Lowest(k, b), b, t)
      BY <2>3, <2>4, <2>6
    <3>2. m.least_addr # 0 /\ m.least_addr <= m.seg[1].base /\ m.least_addr \in Nat
      <4>1. Segs(m.seg, m.top + m.topsize, m.least_addr, m.brk)
        BY <2>1 DEF Heap, Hole
      <4> QED  BY <2>2, <4>1, Small DEF Segs
    <3>3. ~(b < m.least_addr)
      <4>1. m.seg[1].base \in Nat /\ b \in Nat
        <5>1. m.seg[1] \in SegmentSet /\ m.brk \in Addr
          BY <2>1, <2>2, HeapSizes DEF State
        <5>2. m.seg[1].base \in Addr
          BY <5>1 DEF SegmentSet
        <5> QED  BY <5>1, <5>2, Small
      <4>2. m.top <= m.brk
        <5>1. TOP_FOOT_SIZE = 10
          BY Small
        <5> QED  BY <2>2, <4>1, <5>1
      <4> QED  BY <2>2, <3>2, <4>1, <4>2
    <3>4. Lowest(k, b) = [k EXCEPT !.least_addr = @]
      BY <1>2, <3>2, <3>3 DEF Lowest
    <3>5. Lowest(k, b) = k
      BY <1>1, <3>4 DEF State
    <3>6. n = add_segment(k, m.brk, t)
      BY <3>1, <3>5
    <3> QED  BY <1>4, <3>6, InstallAdded
  <2> QED  BY <2>5, <2>6
<1> QED  BY <1>3, <1>4

(* install, of what was obtained. *)
LEMMA InstallFacts ==
  ASSUME NEW m, NEW B, NEW X, Sys(m, B, X), m.granularity # 0, NEW o, NEW a, SomeSpace(m, o, a),
         NEW n, n = install(o)
  PROVE  Installed(m, B, X, n, o.tsize) /\ (o.tsize <= a \/ WithinLimit(m, o.tsize))
<1>1. PICK j, t, b : j = o.m /\ t = o.tsize /\ b = o.tbase
  OBVIOUS
<1>2. /\ OnlyBrk(m, j) /\ b = m.brk /\ t \in Nat /\ 12 <= t /\ j.brk = m.brk + t
      /\ t <= a \/ WithinLimit(m, t)
  BY <1>1 DEF SomeSpace
<1>3. m \in State /\ Accounts(m, X)
  BY DEF Sys
<1>4. PICK k : k = Charged(j, j.footprint + t)
  OBVIOUS
<1>5. Paid(m, k, t)
  BY <1>2, <1>3, <1>4, ChargedFacts
<1>6. n = InstallCharged(k, b, t)
  BY <1>1, <1>4, InstallIs
<1>7. Installed(m, B, X, n, t)
  BY <1>2, <1>5, <1>6, InstallChargedFacts
<1> QED  BY <1>1, <1>2, <1>7

(* What a call that allocates makes of it: nothing, or a chunk for nb more.*)
Refuses(m, B, X, r) == r.mem = NULL /\ Goes(m, r.m, B, B, X)
GivesAt(m, B, X, r, nb, v) ==
    /\ v \in Nat /\ v \notin B /\ r.mem = chunk2mem(v)
    /\ Goes(m, r.m, B \cup {v}, B, X) /\ r.m.chunk[v].size \in nb .. nb + 3
    /\ r.m.chunk[v].pinuse
Gives(m, B, X, r, nb) == Refuses(m, B, X, r) \/ \E v : GivesAt(m, B, X, r, nb, v)

(* Nothing may happen. *)
LEMMA GoesSelf ==
  ASSUME NEW m, NEW B, NEW X, Sys(m, B, X), NEW W
  PROVE  Goes(m, m, B, W, X)
<1>1. m.footprint \in Nat
  <2>1. m.footprint \in size_t
    BY DEF Sys, State
  <2> QED  BY <2>1, Small
<1> QED  BY <1>1 DEF Goes, Keeps, Within

(* What malloc finds without the system, *)
LEMMA GotGives ==
  ASSUME NEW m, NEW B, NEW X, Sys(m, B, X), m.top # NULL, NEW R, R = RecordsOf(m.seg),
         B \cap R = {}, NEW z, Heap(m, z, B \cup R), NEW r, NEW nb, Got(m, z, B \cup R, r, nb)
  PROVE  Gives(m, B, X, r, nb)
<1>1. PICK v : /\ v \in Nat /\ v \notin B \cup R /\ r.mem = chunk2mem(v)
               /\ Takes(m, z, r.m, (B \cup R) \cup {v}, B \cup R, v, nb .. nb + 3)
  BY DEF Got
<1>2. PICK n, C, Z, S : n = r.m /\ C = B \cup {v} /\ Z = B \cup R /\ S = nb .. nb + 3
  OBVIOUS
<1>3. SettlesAt(m, z, n, C \cup R, Z, v, S)
  <2>1. C \cup R = (B \cup R) \cup {v}
    BY <1>2
  <2> QED  BY <1>1, <1>2, <2>1 DEF Takes
<1>4. B \subseteq B \cap C /\ C \cap R = {} /\ B \subseteq Z
  BY <1>1, <1>2
<1>5. Goes(m, n, C, B, X) /\ n.chunk[v].size \in S
  BY <1>3, <1>4, GoesSettlesAt
<1>6. GivesAt(m, B, X, r, nb, v)
  BY <1>1, <1>2, <1>5 DEF GivesAt, Takes
<1> QED  BY <1>6 DEF Gives

(* what it gives after another step, *)
LEMMA GivesAfter ==
  ASSUME NEW m \in State, NEW n, NEW B, NEW X, Goes(m, n, B, B, X), NEW r, NEW nb,
         Gives(n, B, X, r, nb)
  PROVE  Gives(m, B, X, r, nb)
<1>1. PICK k : k = r.m
  OBVIOUS
<1>2. CASE Refuses(n, B, X, r)
  <2>1. Goes(n, k, B, B, X)
    BY <1>1, <1>2 DEF Refuses
  <2>2. Goes(m, k, B, B, X)
    BY <2>1, GoesTrans
  <2> QED  BY <1>1, <1>2, <2>2 DEF Refuses, Gives
<1>3. CASE \E v : GivesAt(n, B, X, r, nb, v)
  <2>1. PICK v : GivesAt(n, B, X, r, nb, v)
    BY <1>3
  <2>2. PICK C : C = B \cup {v}
    OBVIOUS
  <2>3. Goes(n, k, C, B, X)
    BY <1>1, <2>1, <2>2 DEF GivesAt
  <2>4. Goes(m, k, C, B, X)
    BY <2>3, GoesTrans
  <2>5. GivesAt(m, B, X, r, nb, v)
    BY <1>1, <2>1, <2>2, <2>4 DEF GivesAt
  <2> QED  BY <2>5 DEF Gives
<1> QED  BY <1>2, <1>3 DEF Gives

(* and what it does not give. *)
LEMMA FailureGives ==
  ASSUME NEW m, NEW n, NEW B, NEW X, Goes(m, n, B, B, X), NEW nb
  PROVE  Gives(m, B, X, Failure(n), nb)
BY DEF Gives, Refuses, Failure, Result

(* The parameters are set before they are used.                            *)
LEMMA EnsureFacts ==
  ASSUME NEW m, NEW B, NEW X, Sys(m, B, X), NEW n, n = ensure_initialization(m), NEW W
  PROVE  /\ Goes(m, n, B, W, X) /\ n.granularity # 0 /\ n.footprint = m.footprint
         /\ SameTop(m, n) /\ n.brk = m.brk /\ n.footprint_limit = m.footprint_limit
<1>1. CASE m.granularity # 0
  <2>1. n = m
    BY <1>1 DEF ensure_initialization
  <2> QED  BY <1>1, <2>1, GoesSelf DEF SameTop
<1>2. CASE m.granularity = 0
  <2>1. n = [m EXCEPT !.granularity = PageSize, !.trim_threshold = DEFAULT_TRIM_THRESHOLD]
    BY <1>2 DEF ensure_initialization
  <2>2. m \in State /\ ~m.aborted /\ Accounts(m, X) /\ m.top = NULL /\ B = {} /\ Blank(m)
    BY <1>2 DEF Sys
  <2>3. PageSize \in size_t /\ DEFAULT_TRIM_THRESHOLD \in size_t /\ PageSize # 0 /\ PageSize >= PageSize
    <3>1. PageSize \in 0 .. MAX_SIZE_T
      <4>1. SizeRange \in Nat
        BY SizeFacts
      <4> QED  BY <4>1, PageFacts, Small
    <3> QED  BY <3>1, Small, PageFacts, BreakAssumption
  <2>4. /\ n \in State /\ n.granularity = PageSize /\ SameHeap(m, n) /\ n.seg = m.seg /\ n.brk = m.brk
        /\ n.footprint = m.footprint /\ n.max_footprint = m.max_footprint
        /\ n.footprint_limit = m.footprint_limit
    BY <2>1, <2>2, <2>3 DEF State, SameHeap, SameBins, SameDv, SameTop
  <2>5. Accounts(n, X)
    BY <2>2, <2>4, AccountsSame
  <2>6. Blank(n) /\ n.top = NULL /\ SameTop(m, n) /\ ~n.aborted
    BY <2>2, <2>4 DEF Blank, SameHeap, SameBins, SameDv, SameTop
  <2>7. Params(n)
    BY <2>3, <2>4, PageFacts DEF Params
  <2>8. Sys(n, B, X)
    BY <2>2, <2>4, <2>5, <2>6, <2>7 DEF Sys
  <2>9. Keeps(m, n, W)
    BY <2>4 DEF Keeps, SameHeap
  <2>10. Within(m, n)
    <3>1. m.footprint \in size_t
      BY <2>2 DEF State
    <3>2. m.footprint \in Nat
      BY <3>1, Small
    <3> QED  BY <2>4, <3>2 DEF Within
  <2> QED  BY <2>3, <2>4, <2>6, <2>8, <2>9, <2>10 DEF Goes
<1> QED  BY <1>1, <1>2

(* align_up is a size, even when it wraps. *)
LEMMA AlignUpBounded ==
  ASSUME NEW S \in Nat, NEW u \in Nat
  PROVE  align_up(S, u) \in size_t
<1>1. CASE u = 0
  BY <1>1, Small DEF align_up
<1>2. CASE u # 0
  <2>1. PICK T : T = (S + u - 1) % SizeRange
    OBVIOUS
  <2>2. SizeRange \in Nat /\ SizeRange >= 64
    BY SizeFacts
  <2>3. T \in 0 .. SizeRange - 1
    BY <1>2, <2>1, <2>2
  <2>4. T % u \in 0 .. u - 1 /\ T % u <= T
    BY <1>2, <2>2, <2>3
  <2>5. T - (T % u) \in 0 .. MAX_SIZE_T
    BY <2>2, <2>3, <2>4, Small
  <2>6. align_up(S, u) = T - (T % u)
    BY <1>2, <2>1 DEF align_up
  <2> QED  BY <2>5, <2>6, Small
<1> QED  BY <1>1, <1>2

(* What is within the limit stays so when it is less.                      *)
LEMMA WithinLimitFacts ==
  ASSUME NEW m \in State, NEW a \in size_t, WithinLimit(m, a), NEW t \in Nat, t <= a
  PROVE  m.footprint_limit = 0 \/ m.footprint + t <= m.footprint_limit
<1>1. PICK f, l : f = m.footprint /\ l = m.footprint_limit
  OBVIOUS
<1>2. f \in size_t /\ l \in size_t
  BY <1>1 DEF State
<1>3. f \in Nat /\ l \in Nat /\ f <= MAX_SIZE_T /\ a \in Nat /\ a <= MAX_SIZE_T
  BY <1>2, Small
<1>4. SizeRange \in Nat /\ MAX_SIZE_T = SizeRange - 1
  BY SizeFacts, Small
<1>5. CASE l # 0
  <2>1. PICK g : g = (f + a) % SizeRange
    OBVIOUS
  <2>2. g > f /\ g <= l
    BY <1>1, <1>5, <2>1 DEF WithinLimit
  <2>3. f + a < SizeRange => g = f + a
    BY <1>3, <1>4, <2>1
  <2>4. f + a >= SizeRange => g = (f + a) - SizeRange
    BY <1>3, <1>4, <2>1
  <2>5. f + a < SizeRange
    BY <1>3, <1>4, <2>2, <2>4
  <2>6. f + t <= l
    BY <1>3, <2>2, <2>3, <2>5
  <2> QED  BY <1>1, <2>6
<1> QED  BY <1>1, <1>5

(* Installed memory is cut, if it is enough.                               *)
LEMMA SplitNewTopGives ==
  ASSUME NEW m, NEW B, NEW X, Sys(m, B, X), m.top # NULL, NEW nb \in Nat, Even(nb), 4 <= nb,
         NEW r, r = split_new_top(m, nb)
  PROVE  Gives(m, B, X, r, nb)
<1>1. CASE nb < m.topsize
  <2>1. PICK z, R : /\ R = RecordsOf(m.seg) /\ B \cap R = {} /\ Heap(m, z, B \cup R)
                    /\ Work(m, z, B \cup R, {}, {}, m.top + m.topsize)
    BY SysHeap
  <2>2. PICK U, E : U = B \cup R /\ E = m.top + m.topsize
    OBVIOUS
  <2>3. r = split_top(m, nb)
    BY <1>1 DEF split_new_top
  <2>4. Work(m, z, U, {}, {}, E)
    BY <2>1, <2>2
  <2>5. Got(m, z, U, r, nb)
    BY <1>1, <2>3, <2>4, SplitTopFacts
  <2>6. Got(m, z, B \cup R, r, nb)
    BY <2>2, <2>5
  <2> QED  BY <2>1, <2>6, GotGives
<1>2. CASE ~(nb < m.topsize)
  <2>1. r = Failure(m)
    BY <1>2 DEF split_new_top
  <2>2. Goes(m, m, B, B, X)
    BY GoesSelf
  <2> QED  BY <2>1, <2>2, FailureGives
<1> QED  BY <1>1, <1>2

(* What was installed within the limit is a step. *)
LEMMA InstalledGoes ==
  ASSUME NEW m \in State, NEW B, NEW X, NEW n, NEW t \in Nat, Installed(m, B, X, n, t),
         m.footprint_limit = 0 \/ m.footprint + t <= m.footprint_limit
  PROVE  Goes(m, n, B, B, X) /\ n.top # NULL
BY DEF Installed, Goes, Within

(* What looks like a heap is one: the break may be higher.                 *)
LEMMA HeapAlike ==
  ASSUME NEW m, NEW z, NEW U, Heap(m, z, U), NEW n \in State, SameHeap(m, n), n.seg = m.seg,
         m.brk <= n.brk
  PROVE  Heap(n, z, U)
<1>1. PICK E : E = m.top + m.topsize
  OBVIOUS
<1>2. Hole(m, z, U, {}, {}, E) /\ TopOK(m, z, U, {}, E) /\ DvOK(m, z, U, {})
  BY <1>1 DEF Heap
<1>3. n.top + n.topsize = E
  BY <1>1 DEF SameHeap, SameTop
<1>4. n.smallmap = m.smallmap /\ n.smallbins = m.smallbins /\ n.treebins = m.treebins
      /\ n.top = m.top /\ n.dv = m.dv /\ n.chunk = m.chunk /\ n.least_addr = m.least_addr
      /\ n.aborted = m.aborted
  BY DEF SameHeap, SameBins, SameDv, SameTop
<1>5. Hole(n, z, U, {}, {}, E)
  <2>1. Bins(n, z, U \cup {} \cup {n.top, n.dv})
    BY <1>2, <1>4 DEF Hole, Bins
  <2>2. PICK seg, hi, hi2, lo : seg = m.seg /\ hi = m.brk /\ hi2 = n.brk /\ lo = m.least_addr
    OBVIOUS
  <2>3. Segs(seg, E, lo, hi)
    BY <1>2, <2>2 DEF Hole
  <2>4. hi \in Addr /\ hi2 \in Addr /\ hi <= hi2
    BY <1>2, <2>2 DEF Hole, State
  <2>5. \A i \in DOMAIN seg : EndOf(seg[i]) <= hi2
    <3> SUFFICES ASSUME NEW i \in DOMAIN seg PROVE EndOf(seg[i]) <= hi2
      OBVIOUS
    <3>1. EndOf(seg[i]) <= hi /\ seg[i] \in SegmentSet
      BY <2>3 DEF Segs
    <3>2. seg[i].base \in Nat /\ seg[i].size \in Nat
      BY <3>1, Small DEF SegmentSet
    <3>3. EndOf(seg[i]) \in Nat
      BY <3>2 DEF EndOf
    <3>4. hi \in Nat /\ hi2 \in Nat
      BY <2>4, Small
    <3> QED  BY <2>4, <3>1, <3>3, <3>4
  <2>6. Segs(seg, E, lo, hi2)
    BY <2>3, <2>4, <2>5 DEF Segs
  <2>7. Segs(n.seg, E, n.least_addr, n.brk)
    BY <1>4, <2>2, <2>6
  <2>8. Layout(z, n.seg, E) /\ Records(n.seg, z, U) /\ Tags(n.chunk, z, n.seg, E, U, {})
    BY <1>2, <1>4 DEF Hole
  <2> QED  BY <1>2, <1>4, <2>1, <2>7, <2>8 DEF Hole
<1>6. TopOK(n, z, U, {}, E) /\ DvOK(n, z, U, {})
  BY <1>2 DEF SameHeap, SameTop, SameDv, TopOK, DvOK
<1> QED  BY <1>3, <1>5, <1>6 DEF Heap

(* A break that has not moved is a step too. *)
LEMMA OnlyBrkGoes ==
  ASSUME NEW m, NEW B, NEW X, Sys(m, B, X), NEW n, OnlyBrk(m, n), n.brk = m.brk, NEW W
  PROVE  Goes(m, n, B, W, X)
<1>1. /\ n \in State /\ SameHeap(m, n) /\ n.seg = m.seg
      /\ n.footprint = m.footprint /\ n.max_footprint = m.max_footprint
      /\ n.footprint_limit = m.footprint_limit /\ n.granularity = m.granularity
  BY DEF OnlyBrk
<1>2. m \in State /\ Accounts(m, X) /\ Params(m) /\ ~m.aborted
  BY DEF Sys
<1>3. Accounts(n, X)
  BY <1>1, <1>2, AccountsSame
<1>4. ~n.aborted /\ n.top = m.top /\ Params(n)
  BY <1>1, <1>2 DEF Params, SameHeap, SameTop
<1>5. n.top = NULL => B = {} /\ Blank(n)
  BY <1>1, <1>4 DEF Sys, Blank, SameHeap, SameBins, SameDv, SameTop
<1>6. ASSUME n.top # NULL PROVE HeapOf(n, B) /\ n.granularity # 0
  <2>1. m.top # NULL
    BY <1>4, <1>6
  <2>2. PICK z : Heap(m, z, B \cup RecordsOf(m.seg)) /\ B \cap RecordsOf(m.seg) = {}
    BY <2>1 DEF Sys, HeapOf
  <2>3. PICK U : U = B \cup RecordsOf(m.seg)
    OBVIOUS
  <2>4. Heap(m, z, U)
    BY <2>2, <2>3
  <2>5. Heap(n, z, U)
    <3>1. m.brk <= n.brk
      <4>1. m.brk \in Addr
        BY <1>2 DEF State
      <4>2. m.brk \in Nat
        BY <4>1, Small
      <4> QED  BY <4>2
    <3> QED  BY <1>1, <2>4, <3>1, HeapAlike
  <2>6. n.granularity # 0
    BY <1>1, <2>1 DEF Sys
  <2> QED  BY <1>1, <2>2, <2>3, <2>5, <2>6 DEF HeapOf
<1>7. Sys(n, B, X)
  BY <1>1, <1>3, <1>4, <1>5, <1>6 DEF Sys
<1>8. Keeps(m, n, W)
  BY <1>1 DEF Keeps, SameHeap
<1>9. Within(m, n)
  <2>1. m.footprint \in size_t
    BY <1>2 DEF State
  <2>2. m.footprint \in Nat
    BY <2>1, Small
  <2> QED  BY <1>1, <2>2 DEF Within
<1> QED  BY <1>7, <1>8, <1>9 DEF Goes

(* What was obtained is installed and cut.                                 *)
LEMMA SplitObtainedGives ==
  ASSUME NEW m, NEW B, NEW X, Sys(m, B, X), m.granularity # 0, NEW nb \in Nat, Even(nb), 4 <= nb,
         NEW a \in size_t, WithinLimit(m, a), NEW o, Obtains(m, o, a),
         NEW r, r = split_obtained(o, nb)
  PROVE  Gives(m, B, X, r, nb)
<1>1. m \in State
  BY DEF Sys
<1>2. CASE NoSpace(m, o)
  <2>1. PICK k : k = o.m
    OBVIOUS
  <2>2. OnlyBrk(m, k) /\ k.brk = m.brk /\ o.tbase = NULL
    BY <1>2, <2>1 DEF NoSpace
  <2>3. Goes(m, k, B, B, X)
    BY <2>2, OnlyBrkGoes
  <2>4. r = Failure(k)
    BY <2>1, <2>2 DEF split_obtained
  <2> QED  BY <2>3, <2>4, FailureGives
<1>3. CASE SomeSpace(m, o, a)
  <2>1. PICK n : n = install(o)
    OBVIOUS
  <2>2. PICK t : t = o.tsize
    OBVIOUS
  <2>3. Installed(m, B, X, n, t) /\ (t <= a \/ WithinLimit(m, t))
    BY <1>3, <2>1, <2>2, InstallFacts
  <2>4. t \in Nat /\ t \in size_t
    <3>1. t \in Nat /\ o.m \in State /\ o.m.brk = m.brk + t
      BY <1>3, <2>2 DEF SomeSpace, OnlyBrk
    <3>2. o.m.brk \in Addr /\ m.brk \in Addr
      BY <1>1, <3>1 DEF State
    <3>3. m.brk \in Nat /\ m.brk + t <= BrkLimit /\ BrkLimit \in Nat /\ BrkLimit <= MAX_SIZE_T
          /\ MAX_SIZE_T \in Nat
      BY <3>1, <3>2, Small
    <3>4. t \in 0 .. MAX_SIZE_T
      BY <3>1, <3>3
    <3> QED  BY <3>1, <3>4, Small
  <2>5. m.footprint_limit = 0 \/ m.footprint + t <= m.footprint_limit
    <3>1. CASE t <= a
      BY <1>1, <2>4, <3>1, WithinLimitFacts
    <3>2. CASE WithinLimit(m, t)
      <4>1. t <= t
        BY <2>4
      <4> QED  BY <1>1, <2>4, <3>2, <4>1, WithinLimitFacts
    <3> QED  BY <2>3, <3>1, <3>2
  <2>6. Goes(m, n, B, B, X) /\ n.top # NULL
    BY <1>1, <2>3, <2>4, <2>5, InstalledGoes
  <2>7. r = split_new_top(n, nb)
    <3>1. o.tbase # NULL
      <4>1. o.tbase = m.brk
        BY <1>3 DEF SomeSpace
      <4>2. Accounts(m, X)
        BY DEF Sys
      <4>3. Brk0 \in Nat \ {0} /\ Brk0 <= m.brk
        BY <4>2, Small DEF Accounts
      <4>4. m.brk \in Nat
        BY <1>1, <4>2, OthersFinite
      <4>5. m.brk # 0
        BY <4>3, <4>4
      <4> QED  BY <4>1, <4>5, Small
    <3> QED  BY <2>1, <3>1 DEF split_obtained
  <2>8. Gives(n, B, X, r, nb)
    <3>1. Sys(n, B, X)
      BY <2>6 DEF Goes
    <3> QED  BY <2>6, <2>7, <3>1, SplitNewTopGives
  <2> QED  BY <1>1, <2>6, <2>8, GivesAfter
<1> QED  BY <1>2, <1>3 DEF Obtains

ChunkSize(nb) == nb \in Nat /\ ((Even(nb) /\ 4 <= nb /\ nb <= MAX_SIZE_T) \/ nb = MAX_SIZE_T)

(* sys_alloc, when what is there does not do.                              *)
LEMMA SysAllocGives ==
  ASSUME NEW m0, NEW B, NEW X, Sys(m0, B, X), NEW nb, ChunkSize(nb), m0.topsize <= nb,
         NEW r, r = sys_alloc(m0, nb)
  PROVE  Gives(m0, B, X, r, nb)
<1>1. PICK m : m = ensure_initialization(m0)
  OBVIOUS
<1>2. Goes(m0, m, B, B, X) /\ m.granularity # 0 /\ m.topsize = m0.topsize
  BY <1>1, EnsureFacts DEF SameTop
<1>3. m0 \in State
  BY DEF Sys
<1>4. Sys(m, B, X) /\ m \in State /\ Accounts(m, X)
  BY <1>2 DEF Goes, Sys
<1>5. PICK u : u = m.granularity
  OBVIOUS
<1>6. u \in Nat /\ PowerOf2(u) /\ u >= 1
  <2>1. Params(m) /\ u \in size_t
    BY <1>4, <1>5 DEF Sys, State
  <2>2. PowerOf2(u)
    BY <1>2, <1>5, <2>1 DEF Params
  <2>3. u \in Nat
    BY <2>1, Small
  <2> QED  BY <2>2, <2>3, PowersHalf
<1>7. nb \in Nat /\ nb <= MAX_SIZE_T /\ MAX_SIZE_T \in Nat
  BY Small DEF ChunkSize
<1>8. PICK a : a = align_up(nb + SYS_ALLOC_PADDING, u)
  OBVIOUS
<1>9. a \in size_t
  <2>1. nb + SYS_ALLOC_PADDING \in Nat
    <3>1. SYS_ALLOC_PADDING = 12
      BY Small
    <3> QED  BY <1>7, <3>1
  <2> QED  BY <1>6, <1>8, <2>1, AlignUpBounded
<1>10. r = IF a <= nb \/ ~WithinLimit(m, a) THEN Failure(m)
           ELSE split_obtained(obtain(m, nb, a), nb)
  BY <1>1, <1>5, <1>8 DEF sys_alloc, granularity_align
<1>11. CASE a <= nb \/ ~WithinLimit(m, a)
  <2>1. r = Failure(m)
    BY <1>10, <1>11
  <2> QED  BY <1>2, <2>1, FailureGives
<1>12. CASE ~(a <= nb) /\ WithinLimit(m, a)
  <2>1. PICK o : o = obtain(m, nb, a)
    OBVIOUS
  <2>2. a \in Nat /\ a <= MAX_SIZE_T /\ a > nb
    BY <1>7, <1>9, <1>12, Small
  <2>3. IsUnits(a, nb + 12, u) /\ ((nb + 12) + u) - 1 < SizeRange
    BY <1>6, <1>7, <1>8, <2>2, RequestWhole
  <2>4. Even(nb) /\ 4 <= nb
    <3>1. nb # MAX_SIZE_T
      BY <1>7, <2>2
    <3> QED  BY <3>1 DEF ChunkSize
  <2>5. m.brk # NULL
    <3>1. Brk0 \in Nat \ {0} /\ Brk0 <= m.brk /\ m.brk \in Nat
      BY <1>4, Small, OthersFinite DEF Accounts
    <3>2. m.brk # 0
      BY <3>1
    <3> QED  BY <3>2, Small
  <2>6. Obtains(m, o, a)
    BY <1>2, <1>4, <1>5, <1>6, <1>7, <2>1, <2>3, <2>5, ObtainFacts
  <2>7. r = split_obtained(o, nb)
    BY <1>10, <1>12, <2>1
  <2>8. Gives(m, B, X, r, nb)
    BY <1>2, <1>4, <1>7, <1>9, <1>12, <2>4, <2>6, <2>7, SplitObtainedGives
  <2> QED  BY <1>2, <1>3, <2>8, GivesAfter
<1> QED  BY <1>11, <1>12
===============================================================================
