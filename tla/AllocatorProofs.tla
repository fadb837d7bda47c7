--------------------------- MODULE AllocatorProofs ----------------------------
(***************************************************************************)
(* Theorems about the allocator (Allocator), for every value of the        *)
(* constants: the program's blocks are chunks of a well-formed heap (Inv)  *)
(* after every call, and from this every property that is checked.         *)
(***************************************************************************)
EXTENDS HeapProofs, Allocator

(* The chunk for a request that passed the check against MAX_REQUEST.      *)
LEMMA RequestFacts ==
  ASSUME NEW req \in Nat, req < MAX_REQUEST, NEW s, s = request2size(req)
  PROVE  /\ s \in Nat /\ Even(s) /\ 4 <= s /\ req + 1 <= s /\ s <= MAX_SIZE_T
         /\ s <= req + 4
         /\ req <= MAX_SMALL_REQUEST => is_small(s)
<1>1. /\ SizeRange \in Nat /\ SizeRange >= 64 /\ MAX_SIZE_T = SizeRange - 1
      /\ MAX_REQUEST = SizeRange - 16
  BY SizeFacts, Small
<1>2. MIN_LARGE_SIZE \in Nat /\ MIN_LARGE_SIZE >= 8 /\ MAX_SMALL_REQUEST = MIN_LARGE_SIZE - 3
  BY LargeFacts
<1>3. req < SizeRange - 16
  BY <1>1
<1>4. CASE req < 3
  <2>1. s = 4
    BY <1>4, Small DEF request2size
  <2> QED  BY <1>1, <1>2, <1>4, <2>1 DEF is_small, Even
<1>5. CASE req >= 3
  <2>1. s = align_up(req + 1, 2)
    BY <1>5, Small DEF request2size, pad_request
  <2>2. (req + 1 + 2 - 1) % SizeRange = req + 2
    BY <1>1, <1>3
  <2>3. s = (req + 2) - ((req + 2) % 2)
    BY <2>1, <2>2 DEF align_up
  <2>4. s \in Nat /\ s % 2 = 0 /\ req + 1 <= s /\ s <= req + 2
    BY <2>3
  <2>5. req <= MAX_SMALL_REQUEST => s < MIN_LARGE_SIZE
    BY <1>2, <2>4
  <2> QED  BY <1>1, <1>3, <1>5, <2>4, <2>5 DEF is_small, Even
<1> QED  BY <1>4, <1>5

(* The chunk for a request that passed the check against MAX_REQUEST is    *)
(* aligned, at least minimal, and holds the request and its own head: the  *)
(* padding never wraps (request2size, malloc.c).                           *)
THEOREM ChunkHoldsRequest ==
  \A req \in 0 .. MAX_REQUEST - 1 :
     /\ request2size(req) >= req + CHUNK_OVERHEAD
     /\ request2size(req) % MALLOC_ALIGNMENT = 0
     /\ request2size(req) \in MIN_CHUNK_SIZE .. MAX_SIZE_T
<1> SUFFICES ASSUME NEW req \in 0 .. MAX_REQUEST - 1
             PROVE  /\ request2size(req) >= req + CHUNK_OVERHEAD
                    /\ request2size(req) % MALLOC_ALIGNMENT = 0
                    /\ request2size(req) \in MIN_CHUNK_SIZE .. MAX_SIZE_T
  OBVIOUS
<1> DEFINE s == request2size(req)
<1>1. req \in Nat /\ req < MAX_REQUEST
  BY Small, SizeFacts
<1>2. s \in Nat /\ Even(s) /\ 4 <= s /\ req + 1 <= s /\ s <= MAX_SIZE_T
  BY <1>1, RequestFacts
<1>3. CHUNK_OVERHEAD = 1 /\ MALLOC_ALIGNMENT = 2 /\ MIN_CHUNK_SIZE = 4 /\ MAX_SIZE_T \in Nat
  BY Small
<1> HIDE DEF s
<1> QED  BY <1>2, <1>3 DEF Even, s

(* The size malloc looks for: that of the request, or one that nothing has. *)
LEMMA ChunkSizeForFacts ==
  ASSUME NEW bytes \in size_t, NEW nb, nb = chunk_size_for(bytes)
  PROVE  /\ ChunkSize(nb)
         /\ bytes <= MAX_SMALL_REQUEST => is_small(nb) /\ Even(nb) /\ 4 <= nb
         /\ bytes < MAX_REQUEST => nb = request2size(bytes) /\ bytes + 1 <= nb
         /\ bytes >= MAX_REQUEST => nb = MAX_SIZE_T
<1>1. bytes \in Nat
  BY Small
<1>2. /\ SizeRange \in Nat /\ SizeRange >= 64 /\ MAX_SIZE_T = SizeRange - 1
      /\ MAX_REQUEST = SizeRange - 16 /\ MAX_SIZE_T \in Nat
  BY SizeFacts, Small
<1>3. MIN_LARGE_SIZE \in Nat /\ MIN_LARGE_SIZE >= 8 /\ MAX_SMALL_REQUEST = MIN_LARGE_SIZE - 3
      /\ MIN_LARGE_SIZE * 2 <= SizeRange
  BY LargeFacts
<1>4. MAX_SMALL_REQUEST < MAX_REQUEST
  BY <1>2, <1>3
<1>5. CASE bytes < MAX_REQUEST
  <2>1. nb = request2size(bytes)
    <3>1. CASE bytes <= MAX_SMALL_REQUEST
      BY <3>1 DEF chunk_size_for
    <3>2. CASE ~(bytes <= MAX_SMALL_REQUEST)
      <4>1. nb = pad_request(bytes)
        <5>1. ~(bytes >= MAX_REQUEST)
          BY <1>1, <1>2, <1>5
        <5> QED  BY <3>2, <5>1 DEF chunk_size_for
      <4>2. ~(bytes < 3)
        BY <1>1, <1>3, <3>2
      <4>3. MIN_CHUNK_SIZE - CHUNK_OVERHEAD = 3
        BY Small
      <4> QED  BY <4>1, <4>2, <4>3 DEF request2size
    <3> QED  BY <3>1, <3>2
  <2>2. /\ nb \in Nat /\ Even(nb) /\ 4 <= nb /\ bytes + 1 <= nb /\ nb <= MAX_SIZE_T
        /\ bytes <= MAX_SMALL_REQUEST => is_small(nb)
    BY <1>1, <1>5, <2>1, RequestFacts
  <2> QED  BY <1>1, <1>2, <1>5, <2>1, <2>2 DEF ChunkSize
<1>6. CASE bytes >= MAX_REQUEST
  <2>1. ~(bytes <= MAX_SMALL_REQUEST)
    BY <1>1, <1>2, <1>3, <1>4, <1>6
  <2>2. nb = MAX_SIZE_T
    BY <1>6, <2>1 DEF chunk_size_for
  <2> QED  BY <1>1, <1>2, <1>6, <2>1, <2>2 DEF ChunkSize
<1> QED  BY <1>1, <1>2, <1>5, <1>6

(* An allocator that has nothing yet has nothing in its bins.              *)
LEMMA BlankBinned ==
  ASSUME NEW m \in State, Blank(m), NEW nb \in Nat, 0 < nb, NEW small
  PROVE  malloc_binned(m, nb, small) = Failure(m)
<1>1. m.smallmap = {} /\ m.dvsize = 0 /\ TreeSizes(m) = {}
  BY DEF Blank, TreeSizes
<1>2. ~(nb <= m.dvsize)
  BY <1>1
<1>3. tmalloc_large(m, nb) = Failure(m)
  BY <1>1 DEF tmalloc_large
<1>4. CASE small
  <2>1. {nb, nb + 1} \cap m.smallmap = {}
    BY <1>1
  <2>2. ~(\E i \in m.smallmap : i > nb)
    BY <1>1
  <2>3. malloc_binned(m, nb, small) =
          IF {nb, nb + 1} \cap m.smallmap # {} THEN malloc_exact(m, nb)
          ELSE IF nb <= m.dvsize THEN Failure(m)
          ELSE IF \E i \in m.smallmap : i > nb THEN malloc_small_bin(m, nb)
          ELSE IF TreeSizes(m) # {} THEN tmalloc_small(m, nb)
          ELSE Failure(m)
    BY <1>4 DEF malloc_binned
  <2> QED  BY <1>1, <2>1, <2>2, <2>3
<1>5. CASE ~small
  BY <1>3, <1>5 DEF malloc_binned
<1> QED  BY <1>4, <1>5

(* top and dv are no larger than memory.                                   *)
LEMMA FreeSizesBounded ==
  ASSUME NEW m, NEW z, NEW U, NEW E, Work(m, z, U, {}, {}, E)
  PROVE  m.dvsize <= BrkLimit /\ m.topsize <= BrkLimit
<1>1. Hole(m, z, U, {}, {}, E) /\ TopOK(m, z, U, {}, E) /\ DvOK(m, z, U, {})
  BY DEF Work
<1>2. m.topsize <= BrkLimit
  BY <1>1, HoleChunk DEF TopOK
<1>3. m.dvsize <= BrkLimit
  <2>1. CASE m.dv = NULL
    BY <1>1, <2>1, Small DEF DvOK
  <2>2. CASE m.dv # NULL
    BY <1>1, <2>2, HoleChunk DEF DvOK
  <2> QED  BY <2>1, <2>2
<1> QED  BY <1>2, <1>3

(* malloc keeps the heap, and what it gives is a chunk of its own.         *)
LEMMA MallocGives ==
  ASSUME NEW m, NEW B, NEW X, Sys(m, B, X), NEW bytes \in size_t,
         NEW nb, nb = chunk_size_for(bytes), NEW r, r = dlmalloc(m, bytes)
  PROVE  Gives(m, B, X, r, nb)
<1>1. m \in State
  BY DEF Sys
<1>2. ChunkSize(nb) /\ (bytes <= MAX_SMALL_REQUEST => is_small(nb) /\ Even(nb) /\ 4 <= nb)
  BY ChunkSizeForFacts
<1>3. nb \in Nat /\ nb > 0 /\ MAX_SIZE_T \in Nat /\ BrkLimit \in Nat /\ 2 * BrkLimit < MAX_SIZE_T
  BY <1>2, SizeFacts, Small DEF ChunkSize
<1>4. PICK small : small = (bytes <= MAX_SMALL_REQUEST)
  OBVIOUS
<1>5. PICK q : q = malloc_binned(m, nb, small)
  OBVIOUS
<1>6. r = OrElse(q, malloc_unbinned(m, nb))
  BY <1>4, <1>5 DEF dlmalloc
<1>7. m.topsize \in Nat /\ m.dvsize \in Nat
  <2>1. m.topsize \in size_t /\ m.dvsize \in size_t
    BY <1>1 DEF State
  <2> QED  BY <2>1, Small
<1>8. ASSUME ~(nb < m.topsize) PROVE Gives(m, B, X, sys_alloc(m, nb), nb)
  <2>1. m.topsize <= nb
    BY <1>3, <1>7, <1>8
  <2> QED  BY <1>2, <2>1, SysAllocGives
<1>9. CASE m.top = NULL
  <2>1. Blank(m) /\ m.topsize = 0 /\ m.dvsize = 0
    BY <1>9 DEF Sys, Blank
  <2>2. q = Failure(m)
    BY <1>1, <1>3, <1>5, <2>1, BlankBinned
  <2>3. ~(nb <= m.dvsize) /\ ~(nb < m.topsize)
    BY <1>3, <2>1
  <2>4. r = sys_alloc(m, nb)
    BY <1>6, <2>2, <2>3 DEF OrElse, malloc_unbinned, Failure, Result
  <2> QED  BY <1>8, <2>3, <2>4
<1>10. CASE m.top # NULL
  <2>1. PICK z, R : /\ R = RecordsOf(m.seg) /\ B \cap R = {} /\ Heap(m, z, B \cup R)
                    /\ Work(m, z, B \cup R, {}, {}, m.top + m.topsize)
    BY <1>10, SysHeap
  <2>2. PICK U, E : U = B \cup R /\ E = m.top + m.topsize
    OBVIOUS
  <2>3. Work(m, z, U, {}, {}, E)
    BY <2>1, <2>2
  <2>4. ASSUME NEW p, Got(m, z, U, p, nb) PROVE Gives(m, B, X, p, nb)
    <3>1. Got(m, z, B \cup R, p, nb)
      BY <2>2, <2>4
    <3> QED  BY <1>10, <2>1, <3>1, GotGives
  <2>5. q = Failure(m) \/ Got(m, z, U, q, nb)
    <3>1. (Even(nb) /\ 4 <= nb) \/ nb > BrkLimit
      BY <1>2, <1>3 DEF ChunkSize
    <3>2. small => is_small(nb) /\ Even(nb) /\ 4 <= nb
      BY <1>2, <1>4
    <3> QED  BY <1>3, <1>5, <2>3, <3>1, <3>2, MallocBinnedFacts
  <2>6. CASE Got(m, z, U, q, nb)
    <3>1. PICK v : v \in Nat /\ q.mem = v + 2
      BY <2>6 DEF Got, chunk2mem
    <3>2. q.mem # 0
      BY <3>1
    <3>3. r = q
      BY <1>6, <3>2, Small DEF OrElse
    <3> QED  BY <2>4, <2>6, <3>3
  <2>7. CASE q = Failure(m)
    <3>1. r = malloc_unbinned(m, nb)
      BY <1>6, <2>7 DEF OrElse, Failure, Result
    <3>2. nb <= m.dvsize \/ nb < m.topsize => Even(nb) /\ 4 <= nb
      <4>1. m.dvsize <= BrkLimit /\ m.topsize <= BrkLimit
        BY <2>1, <2>3, FreeSizesBounded
      <4>2. nb <= m.dvsize \/ nb < m.topsize => nb # MAX_SIZE_T
        BY <1>3, <1>7, <4>1
      <4> QED  BY <1>2, <4>2 DEF ChunkSize
    <3>3. CASE nb <= m.dvsize
      <4>1. r = malloc_dv(m, nb)
        BY <3>1, <3>3 DEF malloc_unbinned
      <4>2. Got(m, z, U, r, nb)
        BY <1>3, <2>3, <3>2, <3>3, <4>1, MallocDvFacts
      <4> QED  BY <2>4, <4>2
    <3>4. CASE ~(nb <= m.dvsize) /\ nb < m.topsize
      <4>1. r = split_top(m, nb)
        BY <3>1, <3>4 DEF malloc_unbinned
      <4>2. Got(m, z, U, r, nb)
        BY <1>3, <2>3, <3>2, <3>4, <4>1, SplitTopFacts
      <4> QED  BY <2>4, <4>2
    <3>5. CASE ~(nb <= m.dvsize) /\ ~(nb < m.topsize)
      <4>1. r = sys_alloc(m, nb)
        BY <3>1, <3>5 DEF malloc_unbinned
      <4> QED  BY <1>8, <3>5, <4>1
    <3> QED  BY <3>3, <3>4, <3>5
  <2> QED  BY <2>5, <2>6, <2>7
<1> QED  BY <1>9, <1>10

(* The segments when the first is t words shorter.                         *)
LEMMA SegmentShrinks ==
  ASSUME NEW seg, NEW E, NEW lo, NEW hi, Segs(seg, E, lo, hi), NEW t \in Nat, t < seg[1].size,
         NEW seg2, seg2 = [seg EXCEPT ![1].size = @ - t]
  PROVE  /\ seg2 \in Seq(SegmentSet) /\ Resegmented(seg, seg2)
         /\ EndOf(seg2[1]) = EndOf(seg[1]) - t /\ RecordsOf(seg2) = RecordsOf(seg)
         /\ Owned(seg2) = {w \in Owned(seg) : w < EndOf(seg[1]) - t}
         /\ seg[1].base \in Owned(seg2) /\ EndOf(seg[1]) - t \in Nat
<1>0. seg \in Seq(SegmentSet) /\ 1 \in DOMAIN seg
  BY DEF Segs
<1>1. PICK r : r = seg[1]
  OBVIOUS
<1>2. r \in SegmentSet
  BY <1>0, <1>1
<1>3. PICK q : q = [r EXCEPT !.size = @ - t]
  OBVIOUS
<1>4. r.base \in Nat /\ r.size \in Nat /\ t < r.size /\ r.size <= MAX_SIZE_T /\ MAX_SIZE_T \in Nat
  BY <1>1, <1>2, Small DEF SegmentSet
<1>5. r.size - t \in size_t
  <2>1. r.size - t \in 0 .. MAX_SIZE_T
    BY <1>4
  <2> QED  BY <2>1, Small
<1>6. q \in SegmentSet /\ q.base = r.base /\ q.size = r.size - t /\ q.record = r.record
  BY <1>2, <1>3, <1>5 DEF SegmentSet
<1>7. seg2 = [seg EXCEPT ![1] = q]
  BY <1>0, <1>1, <1>3
<1>8. seg2 \in Seq(SegmentSet) /\ DOMAIN seg2 = DOMAIN seg /\ seg2[1] = q
      /\ \A i \in DOMAIN seg \ {1} : seg2[i] = seg[i]
  BY <1>0, <1>6, <1>7
<1> HIDE DEF EndOf
<1>9. EndOf(q) = EndOf(r) - t
  BY <1>4, <1>6 DEF EndOf
<1>10. Extent(q) = {w \in Extent(r) : w < EndOf(r) - t} /\ r.base \in Extent(q)
  BY <1>4, <1>6 DEF EndOf, Extent
<1> DEFINE Rest == UNION {Extent(seg[i]) : i \in DOMAIN seg \ {1}}
<1>11. Owned(seg2) = Extent(q) \cup Rest
  BY <1>8 DEF Owned
<1>12. Owned(seg) = Extent(r) \cup Rest
  BY <1>0, <1>1 DEF Owned
<1>13. \A w \in Rest : w < EndOf(r) - t
  <2> SUFFICES ASSUME NEW i \in DOMAIN seg \ {1}, NEW w \in Extent(seg[i])
               PROVE  w < EndOf(r) - t
    OBVIOUS
  <2>1. EndOf(seg[i]) <= r.base
    <3>1. 1 < i
      BY <1>0
    <3> QED  BY <1>0, <1>1, <3>1 DEF Segs
  <2>2. seg[i] \in SegmentSet
    BY <1>0
  <2>3. seg[i].base \in Nat /\ seg[i].size \in Nat
    BY <2>2, Small DEF SegmentSet
  <2>4. w \in Nat /\ w < r.base
    BY <1>4, <2>1, <2>3 DEF Extent, EndOf
  <2> QED  BY <1>4, <2>4 DEF EndOf
<1>14. Resegmented(seg, seg2)
  BY <1>1, <1>6, <1>8 DEF Resegmented
<1>15. RecordsOf(seg2) = RecordsOf(seg)
  BY <1>8 DEF RecordsOf
<1>16. Owned(seg2) = {w \in Owned(seg) : w < EndOf(r) - t} /\ r.base \in Owned(seg2)
  <2> HIDE DEF Rest
  <2> QED  BY <1>10, <1>11, <1>12, <1>13
<1>17. EndOf(r) - t \in Nat
  BY <1>4 DEF EndOf
<1> QED  BY <1>1, <1>8, <1>9, <1>14, <1>15, <1>16, <1>17

(* The accounts when words before the break were given back.               *)
LEMMA AccountsShrink ==
  ASSUME NEW m \in State, NEW X, Accounts(m, X), NEW n, NEW t \in Nat,
         n.brk = m.brk - t, NEW b \in Owned(n.seg), b \in Nat, b < m.brk - t,
         Owned(n.seg) = {w \in Owned(m.seg) : w < m.brk - t},
         m.brk - t .. m.brk - 1 \subseteq Owned(m.seg),
         n.footprint = m.footprint - t, n.max_footprint = m.max_footprint
  PROVE  Accounts(n, X) /\ n.footprint \in Nat
<1>1. /\ IsFiniteSet(X) /\ Cardinality(X) \in Nat /\ m.brk \in Nat /\ m.footprint \in Nat
      /\ Brk0 \in Nat
  BY OthersFinite
<1>2. PICK h \in Int : h = m.brk - t
  BY <1>1
<1>3. PICK W, V : W = Owned(m.seg) /\ V = Owned(n.seg)
  OBVIOUS
<1>4. /\ W \cup X = Brk0 .. m.brk - 1 /\ W \cap X = {}
      /\ m.footprint + Cardinality(X) = m.brk - Brk0 /\ m.footprint <= m.max_footprint
  BY <1>3 DEF Accounts
<1>5. V = {w \in W : w < h} /\ (h .. m.brk - 1) \subseteq W /\ b \in V /\ b < h
  BY <1>2, <1>3
<1>6. Brk0 <= b /\ Brk0 <= h
  BY <1>1, <1>4, <1>5
<1>7. V \cup X = Brk0 .. h - 1
  <2>1. h <= m.brk
    BY <1>1, <1>2
  <2>2. ASSUME NEW w \in V \cup X PROVE w \in Brk0 .. h - 1
    <3>1. w \in Brk0 .. m.brk - 1
      BY <1>4, <1>5
    <3>2. w < h
      <4>1. CASE w \in V
        BY <1>5, <4>1
      <4>2. CASE w \in X
        <5>1. w \notin h .. m.brk - 1
          BY <1>4, <1>5, <4>2
        <5> QED  BY <1>1, <3>1, <5>1
      <4> QED  BY <4>1, <4>2
    <3> QED  BY <1>1, <3>1, <3>2
  <2>3. ASSUME NEW w \in Brk0 .. h - 1 PROVE w \in V \cup X
    <3>1. w \in W \cup X /\ w < h
      BY <1>1, <1>4, <2>1
    <3> QED  BY <1>5, <3>1
  <2> QED  BY <2>2, <2>3
<1>8. V \cap X = {}
  BY <1>4, <1>5
<1>9. Cardinality(X) <= h - Brk0
  <2>1. Brk0 \in Int /\ h - 1 \in Int
    BY <1>1
  <2>2. IsFiniteSet(Brk0 .. h - 1)
        /\ Cardinality(Brk0 .. h - 1) = IF Brk0 > h - 1 THEN 0 ELSE (h - 1) - Brk0 + 1
    BY <2>1, FS_Interval
  <2>3. Cardinality(Brk0 .. h - 1) = h - Brk0
    BY <1>1, <1>6, <2>2
  <2>4. X \subseteq Brk0 .. h - 1
    BY <1>7
  <2>5. Cardinality(X) <= Cardinality(Brk0 .. h - 1)
    BY <2>2, <2>4, FS_Subset
  <2> QED  BY <2>3, <2>5
<1>10. n.footprint + Cardinality(X) = h - Brk0 /\ n.footprint \in Nat
  BY <1>1, <1>2, <1>4, <1>9
<1>11. n.footprint <= n.max_footprint
  <2>1. m.max_footprint \in size_t
    BY DEF State
  <2>2. m.max_footprint \in Nat
    BY <2>1, Small
  <2> QED  BY <1>1, <1>4, <2>2
<1> QED  BY <1>2, <1>3, <1>6, <1>7, <1>8, <1>10, <1>11 DEF Accounts

(* What sys_trim gives back leaves more than the pad in top.               *)
LEMMA ReleasableFacts ==
  ASSUME NEW D \in Nat, D >= 1, NEW u \in Nat, u >= 1, NEW t, t = ((D + (u - 1)) \div u - 1) * u
  PROVE  t \in Nat /\ t < D
<1>1. PICK q : q = (D + (u - 1)) \div u
  OBVIOUS
<1>2. q \in Nat /\ q * u <= D + (u - 1) /\ q >= 1
  <2>1. D + (u - 1) \in Nat /\ D + (u - 1) >= u
    OBVIOUS
  <2>2. PICK N \in Nat : N = D + (u - 1) /\ N >= u
    BY <2>1
  <2>3. q \in Nat /\ N = (u * q) + (N % u) /\ N % u \in 0 .. u - 1
    BY <1>1, <2>2
  <2>4. q # 0
    <3>1. ASSUME q = 0 PROVE FALSE
      <4>1. u * q = 0
        BY <3>1
      <4>2. N = N % u
        BY <2>2, <2>3, <4>1
      <4> QED  BY <2>2, <2>3, <4>2
    <3> QED  BY <3>1
  <2>5. u * q = q * u /\ u * q \in Nat
    BY <2>3
  <2>6. u * q <= N
    BY <2>2, <2>3, <2>5
  <2> QED  BY <2>2, <2>3, <2>4, <2>5, <2>6
<1>3. t = (q * u) - u
  <2>1. t = (q - 1) * u
    BY <1>1
  <2>2. (q - 1) * u = (q * u) - u
    BY <1>2
  <2> QED  BY <2>1, <2>2
<1>4. (q - 1) * u \in Nat
  BY <1>2
<1>5. q * u \in Nat
  BY <1>2
<1>6. t \in Nat
  BY <1>1, <1>4
<1> QED  BY <1>2, <1>3, <1>5, <1>6

Shrunk(m, t) ==
    init_top([MORECORE(m, -t) EXCEPT !.seg[1].size = @ - t, !.footprint = @ - t],
             m.top, m.topsize - t)

(* Words at the end of top go back to the system.                          *)
LEMMA ShrunkFacts ==
  ASSUME NEW m, NEW B, NEW X, Sys(m, B, X), m.top # NULL, m.brk = EndOf(m.seg[1]),
         NEW t \in Nat, t < m.topsize, NEW n, n = Shrunk(m, t)
  PROVE  Goes(m, n, B, B, X) /\ n.top # NULL /\ n.footprint = m.footprint - t
<1>1. PICK z, R : R = RecordsOf(m.seg) /\ B \cap R = {} /\ Heap(m, z, B \cup R)
  BY SysHeap
<1>2. m \in State /\ Accounts(m, X) /\ m.granularity # 0 /\ ~m.aborted /\ Params(m)
  BY DEF Sys
<1>3. /\ m.top + m.topsize + TOP_FOOT_SIZE = EndOf(m.seg[1])
      /\ m.top \in DOMAIN z /\ m.topsize = z[m.top] /\ m.topsize \in Nat \ {0} /\ m.top \in Nat
      /\ m.seg[1].base <= m.top /\ m.seg \in Seq(SegmentSet) /\ 1 \in DOMAIN m.seg
  BY <1>1, HeapTop
<1>4. TOP_FOOT_SIZE = 10
  BY Small
<1>5. PICK seg, lo, hi, e, E : /\ seg = m.seg /\ lo = m.least_addr /\ hi = m.brk /\ e = EndOf(m.seg[1])
                               /\ E = m.top + m.topsize
  OBVIOUS
<1>6. Segs(seg, E, lo, hi)
  BY <1>1, <1>5 DEF Heap, Hole
<1>7. seg[1].base \in Nat /\ seg[1].size \in Nat /\ e = seg[1].base + seg[1].size
  <2>1. seg[1] \in SegmentSet
    BY <1>3, <1>5
  <2> QED  BY <1>5, <2>1, Small DEF SegmentSet, EndOf
<1>8. t < seg[1].size /\ seg[1].base < e - t
  <2>1. m.top + m.topsize + 10 = e /\ seg[1].base <= m.top
    BY <1>3, <1>4, <1>5
  <2>2. PICK x, y : x = seg[1].base /\ y = seg[1].size
    OBVIOUS
  <2>3. x \in Nat /\ y \in Nat /\ e = x + y /\ x <= m.top
    BY <1>7, <2>1, <2>2
  <2>4. t < y /\ x < e - t
    BY <1>3, <2>1, <2>3
  <2> QED  BY <2>2, <2>4
<1>9. PICK seg2 : seg2 = [seg EXCEPT ![1].size = @ - t]
  OBVIOUS
<1>10. /\ seg2 \in Seq(SegmentSet) /\ Resegmented(seg, seg2)
       /\ EndOf(seg2[1]) = EndOf(seg[1]) - t /\ RecordsOf(seg2) = RecordsOf(seg)
       /\ Owned(seg2) = {w \in Owned(seg) : w < EndOf(seg[1]) - t}
       /\ seg[1].base \in Owned(seg2) /\ EndOf(seg[1]) - t \in Nat
  <2>1. t < seg[1].size
    BY <1>8
  <2> HIDE DEF EndOf
  <2> QED  BY <1>6, <1>9, <2>1, SegmentShrinks
<1>11. /\ EndOf(seg2[1]) = e - t /\ Owned(seg2) = {w \in Owned(seg) : w < e - t} /\ e - t \in Nat
       /\ hi = e /\ e \in Nat
  <2>1. EndOf(seg[1]) = e /\ hi = e
    BY <1>5
  <2>2. EndOf(seg2[1]) = e - t
    BY <1>10, <2>1
  <2>3. Owned(seg2) = {w \in Owned(seg) : w < e - t}
    BY <1>10, <2>1
  <2>4. e \in Nat /\ e - t \in Nat
    BY <1>7, <1>10, <2>1
  <2> QED  BY <2>1, <2>2, <2>3, <2>4
<1>12. PICK b, f : b = e - t /\ f = m.footprint - t
  OBVIOUS
<1>13. b \in Addr /\ m.brk + (-t) = b
  <2>1. hi \in Addr
    BY <1>2, <1>5 DEF State
  <2>2. hi \in Nat /\ hi <= BrkLimit /\ BrkLimit \in Nat
    BY <2>1, Small
  <2>3. b \in 0 .. BrkLimit
    BY <1>11, <1>12, <2>2
  <2> QED  BY <1>5, <1>11, <1>12, <2>2, <2>3, Small
<1>14. PICK k1 : k1 = MORECORE(m, -t)
  OBVIOUS
<1>15. OnlyBrk(m, k1) /\ k1.brk = b
  <2>1. m.brk + (-t) \in Addr /\ -t \in Int
    BY <1>13
  <2> QED  BY <1>2, <1>13, <1>14, <2>1, MoreFacts
<1>16. \E j0 : Accounts(j0, X) /\ j0.seg = seg2 /\ j0.brk = b /\ j0.footprint = f
               /\ j0.max_footprint = m.max_footprint /\ f \in Nat
  <2>1. PICK j0 : j0 = [seg |-> seg2, brk |-> b, footprint |-> f, max_footprint |-> m.max_footprint]
    OBVIOUS
  <2>2. j0.seg = seg2 /\ j0.brk = b /\ j0.footprint = f /\ j0.max_footprint = m.max_footprint
    BY <2>1
  <2>3. b = m.brk - t
    BY <1>5, <1>11, <1>12
  <2>4. Owned(seg2) = {w \in Owned(m.seg) : w < m.brk - t}
    BY <1>5, <1>11, <1>12, <2>3
  <2>5. m.brk - t .. m.brk - 1 \subseteq Owned(m.seg)
    <3>1. m.brk - t .. m.brk - 1 \subseteq Extent(seg[1])
      BY <1>5, <1>7, <1>8, <1>11 DEF Extent
    <3>2. Extent(seg[1]) \subseteq Owned(seg)
      BY <1>3, <1>5 DEF Owned
    <3> QED  BY <1>5, <3>1, <3>2
  <2>6. PICK c : c = seg[1].base
    OBVIOUS
  <2>7. c \in Owned(j0.seg) /\ c \in Nat /\ c < m.brk - t
    BY <1>5, <1>7, <1>8, <1>10, <1>11, <2>2, <2>6
  <2>8. Accounts(j0, X) /\ j0.footprint \in Nat
    BY <1>2, <1>12, <2>2, <2>3, <2>4, <2>5, <2>7, AccountsShrink
  <2> QED  BY <2>2, <2>8
<1>17. f \in size_t /\ f <= m.footprint /\ m.footprint \in Nat
  <2>1. m.footprint \in size_t
    BY <1>2 DEF State
  <2>2. m.footprint \in Nat /\ m.footprint <= MAX_SIZE_T /\ MAX_SIZE_T \in Nat
    BY <2>1, Small
  <2>3. f \in 0 .. MAX_SIZE_T
    BY <1>12, <1>16, <2>2
  <2> QED  BY <1>12, <2>2, <2>3, Small
<1>18. PICK j : j = [k1 EXCEPT !.seg = seg2, !.footprint = f]
  OBVIOUS
<1>19. /\ j \in State /\ j.seg = seg2 /\ j.least_addr = k1.least_addr /\ j.brk = k1.brk
       /\ j.aborted = k1.aborted /\ j.chunk = k1.chunk
       /\ j.footprint = f /\ j.max_footprint = k1.max_footprint
       /\ j.footprint_limit = k1.footprint_limit /\ j.granularity = k1.granularity
       /\ SameBins(k1, j) /\ SameDv(k1, j) /\ SameTop(k1, j)
  BY <1>10, <1>15, <1>17, <1>18 DEF OnlyBrk, State, SameBins, SameDv, SameTop
<1>20. PICK s : s = m.topsize - t
  OBVIOUS
<1>21. n = init_top(j, j.top, s)
  <2>1. k1.seg = seg /\ k1.footprint = m.footprint /\ k1 \in State
    BY <1>5, <1>15 DEF OnlyBrk
  <2>2. j = [k1 EXCEPT !.seg[1].size = @ - t, !.footprint = @ - t]
    BY <1>9, <1>12, <1>18, <2>1 DEF State
  <2>3. j.top = m.top
    BY <1>15, <1>19 DEF OnlyBrk, SameHeap, SameTop
  <2> QED  BY <1>14, <1>20, <2>2, <2>3 DEF Shrunk
<1>22. PICK y : y = [a \in DOMAIN z |-> IF a = m.top THEN s ELSE z[a]]
  OBVIOUS
<1>23. TopSize(z, y, m.top, s)
  BY <1>3, <1>22 DEF TopSize
<1>24. SameSettings(j, n) /\ Heap(n, y, B \cup R) /\ n.top = m.top
  <2>1. /\ SameBins(m, j) /\ SameDv(m, j) /\ SameTop(m, j) /\ j.chunk = m.chunk
        /\ ~j.aborted /\ j.least_addr = m.least_addr
    BY <1>2, <1>15, <1>19 DEF OnlyBrk, SameHeap, SameBins, SameDv, SameTop
  <2>2. Resegmented(m.seg, j.seg)
    BY <1>5, <1>10, <1>19
  <2>3. EndOf(j.seg[1]) = b /\ EndOf(j.seg[1]) <= j.brk /\ b \in Nat
    BY <1>11, <1>12, <1>15, <1>19
  <2>4. m.top + s + TOP_FOOT_SIZE = EndOf(j.seg[1])
    BY <1>3, <1>4, <1>5, <1>11, <1>12, <1>20, <2>3
  <2>5. s \in Nat \ {0}
    BY <1>3, <1>20
  <2> QED  BY <1>1, <1>19, <1>21, <1>23, <2>1, <2>2, <2>3, <2>4, <2>5, MoveTop
<1>25. n.seg = seg2 /\ RecordsOf(n.seg) = R
  BY <1>1, <1>5, <1>10, <1>19, <1>24 DEF SameSettings
<1>26. Keeps(m, n, B)
  <2>1. m.top \notin B \cup R
    BY <1>1, HeapTop
  <2>2. B \subseteq DOMAIN z
    BY <1>1, HeapSizes
  <2>3. Agree(y, z, B)
    BY <1>23, <2>1, <2>2 DEF Agree, TopSize
  <2>4. B \subseteq B \cup R
    OBVIOUS
  <2> QED  BY <1>1, <1>24, <2>3, <2>4, KeepsFrom
<1>27. /\ n.footprint = f /\ n.max_footprint = m.max_footprint /\ n.brk = b
       /\ n.footprint_limit = m.footprint_limit /\ n.granularity = m.granularity
  BY <1>15, <1>19, <1>24 DEF SameSettings, OnlyBrk
<1>28. Accounts(n, X)
  BY <1>16, <1>25, <1>27, AccountsSame
<1>29. n \in State /\ ~n.aborted /\ n.top # NULL
  BY <1>24, HeapSizes
<1>30. Params(n)
  BY <1>2, <1>27 DEF Params
<1>31. HeapOf(n, B)
  BY <1>1, <1>24, <1>25 DEF HeapOf
<1>32. Sys(n, B, X)
  BY <1>2, <1>27, <1>28, <1>29, <1>30, <1>31 DEF Sys
<1>33. Within(m, n)
  BY <1>17, <1>27 DEF Within
<1> QED  BY <1>12, <1>26, <1>27, <1>29, <1>32, <1>33 DEF Goes

(* The trim check is nobody's. *)
LEMMA TrimCheckGoes ==
  ASSUME NEW m, NEW B, NEW X, Sys(m, B, X), NEW n, n = [m EXCEPT !.trim_check = MAX_SIZE_T], NEW W
  PROVE  Goes(m, n, B, W, X)
<1>1. m \in State
  BY DEF Sys
<1>2. MAX_SIZE_T \in size_t
  BY Small
<1>3. /\ n \in State /\ SameHeap(m, n) /\ n.seg = m.seg /\ n.brk = m.brk
      /\ n.footprint = m.footprint /\ n.max_footprint = m.max_footprint
      /\ n.footprint_limit = m.footprint_limit /\ n.granularity = m.granularity
      /\ n.trim_threshold = m.trim_threshold
  BY <1>1, <1>2 DEF State, SameHeap, SameBins, SameDv, SameTop
<1>4. OnlyBrk(m, n)
  BY <1>3 DEF OnlyBrk
<1> QED  BY <1>3, <1>4, OnlyBrkGoes

(* sys_trim, whatever the pad.                                             *)
LEMMA SysTrimGoes ==
  ASSUME NEW m0, NEW B, NEW X, Sys(m0, B, X), NEW pad0 \in Nat, NEW n, n = sys_trim(m0, pad0)
  PROVE  Goes(m0, n, B, B, X)
<1>1. PICK m : m = ensure_initialization(m0)
  OBVIOUS
<1>2. Goes(m0, m, B, B, X) /\ m.granularity # 0
  BY <1>1, EnsureFacts
<1>3. m0 \in State
  BY DEF Sys
<1>4. Sys(m, B, X) /\ m \in State /\ Params(m)
  BY <1>2 DEF Goes, Sys
<1>5. PICK pad : pad = pad0 + TOP_FOOT_SIZE
  OBVIOUS
<1>6. PICK t : t = IF m.topsize > pad THEN releasable(m, pad) ELSE 0
  OBVIOUS
<1>7. PICK i : i = segment_holding(m, m.top)
  OBVIOUS
<1>8. n = IF pad0 >= MAX_REQUEST \/ ~is_initialized(m) THEN m
          ELSE IF t # 0 THEN
              init_top([MORECORE(m, -t) EXCEPT !.seg[i].size = @ - t, !.footprint = @ - t],
                       m.top, m.topsize - t)
          ELSE IF m.topsize > m.trim_check THEN [m EXCEPT !.trim_check = MAX_SIZE_T]
          ELSE m
  BY <1>1, <1>5, <1>6, <1>7 DEF sys_trim
<1>9. CASE pad0 >= MAX_REQUEST \/ ~is_initialized(m)
  BY <1>2, <1>8, <1>9
<1>10. CASE ~(pad0 >= MAX_REQUEST \/ ~is_initialized(m)) /\ t # 0
  <2>1. m.top # NULL
    BY <1>10 DEF is_initialized
  <2>2. PICK z, R : R = RecordsOf(m.seg) /\ B \cap R = {} /\ Heap(m, z, B \cup R)
    BY <1>4, <2>1, SysHeap
  <2>3. /\ m.seg \in Seq(SegmentSet) /\ 1 \in DOMAIN m.seg
        /\ m.top + m.topsize + TOP_FOOT_SIZE = EndOf(m.seg[1])
        /\ m.topsize \in Nat \ {0} /\ m.top \in Nat /\ m.seg[1].base <= m.top
    BY <2>2, HeapTop
  <2>4. TOP_FOOT_SIZE = 10
    BY Small
  <2>5. i = 1
    <3>1. PICK e : e = EndOf(m.seg[1])
      OBVIOUS
    <3>2. m.top + m.topsize + 10 = e
      BY <2>3, <2>4, <3>1
    <3>3. m.top < e
      BY <2>3, <3>2
    <3> QED  BY <1>7, <2>3, <3>1, <3>3, HoldingTop
  <2>6. PICK u : u = m.granularity
    OBVIOUS
  <2>7. u \in Nat /\ u >= 1
    <3>1. PowerOf2(u) /\ u \in size_t
      BY <1>2, <1>4, <2>6 DEF Params, State
    <3>2. u \in Nat
      BY <3>1, Small
    <3> QED  BY <3>1, <3>2, PowersHalf
  <2>8. m.topsize > pad /\ t = releasable(m, pad)
    BY <1>6, <1>10
  <2>9. t = IF m.brk = EndOf(m.seg[1])
            THEN ((m.topsize - pad + (u - 1)) \div u - 1) * u ELSE 0
    BY <1>7, <2>5, <2>6, <2>8 DEF releasable, EndOf
  <2>10. m.brk = EndOf(m.seg[1]) /\ t = ((m.topsize - pad + (u - 1)) \div u - 1) * u
    BY <1>10, <2>9
  <2>11. PICK D : D = m.topsize - pad
    OBVIOUS
  <2>12. D \in Nat /\ D >= 1 /\ D <= m.topsize
    BY <1>5, <2>3, <2>4, <2>8, <2>11
  <2>13. t \in Nat /\ t < D
    <3>1. t = ((D + (u - 1)) \div u - 1) * u
      BY <2>10, <2>11
    <3> QED  BY <2>7, <2>12, <3>1, ReleasableFacts
  <2>14. t < m.topsize
    BY <2>3, <2>12, <2>13
  <2>15. n = Shrunk(m, t)
    BY <1>8, <1>10, <2>5 DEF Shrunk
  <2>16. Goes(m, n, B, B, X)
    BY <1>4, <2>1, <2>10, <2>13, <2>14, <2>15, ShrunkFacts
  <2> QED  BY <1>2, <1>3, <2>16, GoesTrans
<1>11. CASE ~(pad0 >= MAX_REQUEST \/ ~is_initialized(m)) /\ t = 0
  <2>1. CASE m.topsize > m.trim_check
    <3>1. n = [m EXCEPT !.trim_check = MAX_SIZE_T]
      BY <1>8, <1>11, <2>1
    <3>2. Goes(m, n, B, B, X)
      BY <1>4, <3>1, TrimCheckGoes
    <3> QED  BY <1>2, <1>3, <3>2, GoesTrans
  <2>2. CASE ~(m.topsize > m.trim_check)
    BY <1>2, <1>8, <1>11, <2>2
  <2> QED  BY <2>1, <2>2
<1> QED  BY <1>9, <1>10, <1>11

(* free trims when top is larger than the trim check. *)
LEMMA TrimIfLargeGoes ==
  ASSUME NEW m, NEW B, NEW X, Sys(m, B, X), NEW n, n = TrimIfLarge(m)
  PROVE  Goes(m, n, B, B, X)
<1>1. CASE should_trim(m)
  <2>1. n = sys_trim(m, 0) /\ 0 \in Nat
    BY <1>1 DEF TrimIfLarge
  <2> QED  BY <2>1, SysTrimGoes
<1>2. CASE ~should_trim(m)
  <2>1. n = m
    BY <1>2 DEF TrimIfLarge
  <2> QED  BY <2>1, GoesSelf
<1> QED  BY <1>1, <1>2

(* The checks of free and realloc succeed for a chunk that is in use.      *)
LEMMA UsedPasses ==
  ASSUME NEW m, NEW z, NEW U, Heap(m, z, U), NEW p \in U, NoRecord(m, p)
  PROVE  /\ ok_address(m, p) /\ is_inuse(m, p) /\ p < p + chunksize(m, p)
         /\ pinuse(m, p + chunksize(m, p)) /\ p \in Nat /\ chunksize(m, p) = z[p]
         /\ z[p] \in Nat
<1>1. PICK E : Work(m, z, U, {}, {}, E)
  BY HeapWork
<1>2. m.chunk[p].size = z[p] /\ m.chunk[p].cinuse /\ m.chunk[p + z[p]].pinuse
  <2>1. Tags(m.chunk, z, m.seg, E, U, {}) /\ p \in DOMAIN z
    BY <1>1 DEF Work, Hole
  <2> QED  BY <2>1 DEF Tags
<1>3. p \in DOMAIN z /\ Segs(m.seg, E, m.least_addr, m.brk) /\ Layout(z, m.seg, E)
  BY <1>1 DEF Work, Hole
<1>4. p \in Nat /\ z[p] \in Nat \ {0}
  BY <1>3 DEF Layout
<1>5. PICK i \in DOMAIN m.seg : m.seg[i].base <= p
  BY <1>3 DEF Layout
<1>6. m.least_addr <= m.seg[i].base /\ m.seg[i] \in SegmentSet /\ m.least_addr \in Addr
  BY <1>3, <1>5 DEF Segs
<1>7. m.seg[i].base \in Addr
  BY <1>6 DEF SegmentSet
<1>8. p >= m.least_addr
  BY <1>4, <1>5, <1>6, <1>7, Small
<1> QED  BY <1>2, <1>4, <1>8 DEF ok_address, is_inuse, chunksize, pinuse

(* dispose_chunk, as a step of the allocator.                              *)
LEMMA DisposeGoes ==
  ASSUME NEW m, NEW B, NEW X, Sys(m, B, X), NEW p \in B,
         NEW n, n = dispose_chunk(m, p, chunksize(m, p))
  PROVE  Goes(m, n, B \ {p}, B \ {p}, X) /\ n.top # NULL
<1>1. m.top # NULL
  BY DEF Sys
<1>2. PICK z, R : /\ R = RecordsOf(m.seg) /\ B \cap R = {} /\ Heap(m, z, B \cup R)
                  /\ \A q \in B : NoRecord(m, q)
  BY <1>1, SysHeap
<1>3. PICK U, C : U = B \cup R /\ C = B \ {p}
  OBVIOUS
<1>4. Heap(m, z, U) /\ p \in U /\ NoRecord(m, p)
  BY <1>2, <1>3
<1>5. Settles(m, z, n, U \ {p}, U \ {p})
  BY <1>4, DisposeUsed
<1>6. U \ {p} = C \cup R /\ C \subseteq B \cap C /\ C \cap R = {} /\ C \subseteq C \cup R
  BY <1>2, <1>3
<1>7. Settles(m, z, n, C \cup R, C)
  <2>1. PICK V : V = C \cup R
    OBVIOUS
  <2>2. Settles(m, z, n, V, V) /\ C \subseteq V
    BY <1>5, <1>6, <2>1
  <2>3. Settles(m, z, n, V, C)
    BY <2>2 DEF Settles
  <2> QED  BY <2>1, <2>3
<1>8. Goes(m, n, C, C, X) /\ n.top # NULL
  BY <1>1, <1>2, <1>6, <1>7, GoesSettles
<1> QED  BY <1>3, <1>8

(* free, of a block of the program or of nothing.                          *)
LEMMA FreeGoes ==
  ASSUME NEW m, NEW B, NEW X, Sys(m, B, X), NEW p \in B, NEW n, n = dlfree(m, chunk2mem(p))
  PROVE  Goes(m, n, B \ {p}, B \ {p}, X)
<1>1. m.top # NULL /\ m \in State
  BY DEF Sys
<1>2. PICK z, R : /\ R = RecordsOf(m.seg) /\ B \cap R = {} /\ Heap(m, z, B \cup R)
                  /\ \A q \in B : NoRecord(m, q)
  BY <1>1, SysHeap
<1>3. PICK U, C : U = B \cup R /\ C = B \ {p}
  OBVIOUS
<1>4. Heap(m, z, U) /\ p \in U /\ NoRecord(m, p)
  BY <1>2, <1>3
<1>5. /\ ok_address(m, p) /\ is_inuse(m, p) /\ p < p + chunksize(m, p)
      /\ pinuse(m, p + chunksize(m, p)) /\ p \in Nat
  BY <1>4, UsedPasses
<1>6. mem2chunk(chunk2mem(p)) = p /\ chunk2mem(p) # NULL
  BY <1>5, Small DEF mem2chunk, chunk2mem
<1>7. PICK k : k = dispose_chunk(m, p, chunksize(m, p))
  OBVIOUS
<1>8. n = k \/ n = TrimIfLarge(k)
  BY <1>5, <1>6, <1>7 DEF dlfree
<1>9. Goes(m, k, C, C, X)
  BY <1>3, <1>7, DisposeGoes
<1>10. CASE n = k
  BY <1>3, <1>9, <1>10
<1>11. CASE n = TrimIfLarge(k)
  <2>1. Sys(k, C, X)
    BY <1>9 DEF Goes
  <2>2. Goes(k, n, C, C, X)
    BY <1>11, <2>1, TrimIfLargeGoes
  <2>3. Goes(m, n, C, C, X)
    BY <1>1, <1>9, <2>2, GoesTrans
  <2> QED  BY <1>3, <2>3
<1> QED  BY <1>8, <1>10, <1>11

(* A step keeps fewer chunks if it keeps more. *)
LEMMA GoesFewer ==
  ASSUME NEW m, NEW n, NEW C, NEW W, NEW X, Goes(m, n, C, W, X), NEW V, V \subseteq W
  PROVE  Goes(m, n, C, V, X)
BY DEF Goes, Keeps

(* What realloc of the chunk p makes of it: nothing, the same chunk with   *)
(* at least nb words, or another chunk with as many in its place.          *)
InPlaceAt(m, B, X, n, mem, nb, p) ==
    /\ mem = chunk2mem(p) /\ Goes(m, n, B, B \ {p}, X) /\ n.chunk[p].size \in AtLeast(nb)
MovesTo(m, B, X, n, mem, nb, p, v) ==
    /\ v \in Nat /\ v \notin B /\ mem = chunk2mem(v)
    /\ Goes(m, n, (B \ {p}) \cup {v}, B \ {p}, X) /\ n.chunk[v].size \in AtLeast(nb)
Stays(m, B, X, n, mem) == mem = NULL /\ Goes(m, n, B, B, X)

(* realloc without moving, as a step of the allocator.                     *)
LEMMA TryReallocGoes ==
  ASSUME NEW m, NEW B, NEW X, Sys(m, B, X), NEW p \in B, NEW nb \in Nat, Even(nb), 4 <= nb,
         NEW r, r = try_realloc_chunk(m, p, nb)
  PROVE  r = Failure(m) \/ ( /\ r.mem = p /\ Goes(m, r.m, B, B \ {p}, X)
                             /\ r.m.chunk[p].size \in AtLeast(nb))
<1>1. m.top # NULL
  BY DEF Sys
<1>2. PICK z, R : /\ R = RecordsOf(m.seg) /\ B \cap R = {} /\ Heap(m, z, B \cup R)
                  /\ Work(m, z, B \cup R, {}, {}, m.top + m.topsize)
                  /\ \A q \in B : NoRecord(m, q)
  BY <1>1, SysHeap
<1>3. PICK U, E, n : U = B \cup R /\ E = m.top + m.topsize /\ n = r.m
  OBVIOUS
<1>4. Work(m, z, U, {}, {}, E) /\ p \in U /\ NoRecord(m, p)
  BY <1>2, <1>3
<1>5. r = Failure(m) \/ (r.mem = p /\ SettlesAt(m, z, r.m, U, U \ {p}, p, AtLeast(nb)))
  BY <1>4, TryReallocFacts
<1>6. ASSUME SettlesAt(m, z, n, U, U \ {p}, p, AtLeast(nb))
      PROVE  Goes(m, n, B, B \ {p}, X) /\ n.chunk[p].size \in AtLeast(nb)
  <2>1. PICK Z, S, W : Z = U \ {p} /\ S = AtLeast(nb) /\ W = B \ {p}
    OBVIOUS
  <2>2. SettlesAt(m, z, n, B \cup R, Z, p, S)
    BY <1>3, <1>6, <2>1
  <2>3. W \subseteq B \cap B /\ W \subseteq Z
    BY <1>3, <2>1
  <2>4. Goes(m, n, B, W, X) /\ n.chunk[p].size \in S
    BY <1>1, <1>2, <2>2, <2>3, GoesSettlesAt
  <2> QED  BY <2>1, <2>4
<1> QED  BY <1>3, <1>5, <1>6

(* A chunk p is given up for another one.                                  *)
LEMMA RelocateGoes ==
  ASSUME NEW m, NEW B, NEW X, Sys(m, B, X), NEW p \in B, NEW new, NEW nb \in Nat,
         Gives(m, B, X, new, nb), NEW c, NEW r, r = Relocate(new, chunk2mem(p), c)
  PROVE  \/ Stays(m, B, X, r.m, r.mem)
         \/ r.copied = c /\ \E v : MovesTo(m, B, X, r.m, r.mem, nb, p, v)
<1>1. m \in State
  BY DEF Sys
<1>2. PICK k : k = new.m
  OBVIOUS
<1>3. CASE Refuses(m, B, X, new)
  <2>1. new.mem = NULL /\ Goes(m, k, B, B, X)
    BY <1>2, <1>3 DEF Refuses
  <2>2. r.m = k /\ r.mem = NULL
    BY <1>2, <2>1 DEF Relocate, NotMoved, Moved
  <2> QED  BY <2>1, <2>2 DEF Stays
<1>4. CASE \E v : GivesAt(m, B, X, new, nb, v)
  <2>1. PICK v : GivesAt(m, B, X, new, nb, v)
    BY <1>4
  <2>2. /\ v \in Nat /\ v \notin B /\ new.mem = chunk2mem(v)
        /\ Goes(m, k, B \cup {v}, B, X) /\ k.chunk[v].size \in nb .. nb + 3
    BY <1>2, <2>1 DEF GivesAt
  <2>3. new.mem # NULL
    BY <2>2, Small DEF chunk2mem
  <2>4. PICK n : n = dlfree(k, chunk2mem(p))
    OBVIOUS
  <2>5. r.m = n /\ r.mem = new.mem /\ r.copied = c
    BY <1>2, <2>3, <2>4 DEF Relocate, Moved
  <2>6. PICK C, D, W : C = B \cup {v} /\ D = (B \cup {v}) \ {p} /\ W = B \ {p}
    OBVIOUS
  <2>7. Sys(k, C, X) /\ p \in C
    BY <2>2, <2>6 DEF Goes
  <2>8. Goes(k, n, D, D, X)
    <3>1. Goes(k, n, C \ {p}, C \ {p}, X)
      BY <2>4, <2>7, FreeGoes
    <3> QED  BY <2>6, <3>1
  <2>9. W \subseteq D /\ W \subseteq B /\ v \in D /\ D = W \cup {v}
    BY <2>2, <2>6
  <2>10. Goes(m, n, D, W, X)
    <3>1. Goes(k, n, D, W, X)
      BY <2>8, <2>9, GoesFewer
    <3>2. Goes(m, k, C, B, X)
      BY <2>2, <2>6
    <3> QED  BY <1>1, <2>9, <3>1, <3>2, GoesTrans
  <2>11. n.chunk[v].size = k.chunk[v].size
    BY <2>8, <2>9 DEF Goes, Keeps
  <2>12. n.chunk[v].size \in AtLeast(nb)
    <3>1. \A s \in nb .. nb + 3 : s \in AtLeast(nb)
      BY DEF AtLeast
    <3> QED  BY <2>2, <2>11, <3>1
  <2>13. MovesTo(m, B, X, r.m, r.mem, nb, p, v)
    <3>1. Goes(m, n, (B \ {p}) \cup {v}, B \ {p}, X)
      BY <2>6, <2>9, <2>10
    <3> QED  BY <2>2, <2>5, <2>12, <3>1 DEF MovesTo
  <2> QED  BY <2>5, <2>13
<1> QED  BY <1>3, <1>4 DEF Gives

(* realloc of a block that is in use.                                      *)
LEMMA ReallocGoes ==
  ASSUME NEW m, NEW B, NEW X, Sys(m, B, X), NEW p \in B, NEW bytes \in size_t,
         NEW nb, nb = request2size(bytes),
         NEW r, r = dlrealloc(m, chunk2mem(p), bytes)
  PROVE  \/ Stays(m, B, X, r.m, r.mem)
         \/ /\ bytes < MAX_REQUEST /\ r.copied = bytes
            /\ InPlaceAt(m, B, X, r.m, r.mem, nb, p)
         \/ /\ bytes < MAX_REQUEST /\ r.copied = Copied(m, chunk2mem(p), bytes)
            /\ \E v : MovesTo(m, B, X, r.m, r.mem, nb, p, v)
<1>1. bytes \in Nat /\ MAX_REQUEST \in Int
  BY SizeFacts, Small
<1>2. p \in Nat /\ chunk2mem(p) # NULL /\ mem2chunk(chunk2mem(p)) = p
  <2>1. m.top # NULL
    BY DEF Sys
  <2>2. PICK z, R : B \cap R = {} /\ Heap(m, z, B \cup R) /\ (\A q \in B : NoRecord(m, q))
    BY <2>1, SysHeap
  <2>3. p \in B \cup R /\ NoRecord(m, p)
    BY <2>2
  <2>4. p \in Nat
    BY <2>2, <2>3, UsedPasses
  <2> QED  BY <2>4, Small DEF chunk2mem, mem2chunk
<1>3. CASE bytes >= MAX_REQUEST
  <2>1. r = Moved(m, NULL, 0)
    BY <1>2, <1>3 DEF dlrealloc
  <2>2. Goes(m, m, B, B, X)
    BY GoesSelf
  <2> QED  BY <2>1, <2>2 DEF Moved, Stays
<1>4. CASE bytes < MAX_REQUEST
  <2>1. ~(bytes >= MAX_REQUEST)
    BY <1>1, <1>4
  <2>2. PICK q : q = try_realloc_chunk(m, p, nb)
    OBVIOUS
  <2>3. r = RelocateUnlessInPlace(q, chunk2mem(p), bytes)
    BY <1>2, <2>1, <2>2 DEF dlrealloc
  <2>4. nb \in Nat /\ Even(nb) /\ 4 <= nb
    BY <1>1, <1>4, RequestFacts
  <2>5. q = Failure(m) \/ ( /\ q.mem = p /\ Goes(m, q.m, B, B \ {p}, X)
                            /\ q.m.chunk[p].size \in AtLeast(nb))
    BY <2>2, <2>4, TryReallocGoes
  <2>6. CASE q = Failure(m)
    <3>1. q.mem = NULL /\ q.m = m
      BY <2>6 DEF Failure, Result
    <3>2. PICK new, c : new = dlmalloc(m, bytes) /\ c = Copied(m, chunk2mem(p), bytes)
      OBVIOUS
    <3>3. r = Relocate(new, chunk2mem(p), c)
      BY <2>3, <3>1, <3>2 DEF RelocateUnlessInPlace
    <3>4. chunk_size_for(bytes) = nb
      BY <1>4, ChunkSizeForFacts
    <3>5. Gives(m, B, X, new, nb)
      <4>1. nb = chunk_size_for(bytes)
        BY <3>4
      <4> QED  BY <3>2, <4>1, MallocGives
    <3>6. \/ Stays(m, B, X, r.m, r.mem)
          \/ r.copied = c /\ \E v : MovesTo(m, B, X, r.m, r.mem, nb, p, v)
      BY <2>4, <3>3, <3>5, RelocateGoes
    <3> QED  BY <1>4, <3>2, <3>6
  <2>7. CASE /\ q.mem = p /\ Goes(m, q.m, B, B \ {p}, X)
             /\ q.m.chunk[p].size \in AtLeast(nb)
    <3>1. q.mem # NULL
      <4>1. m.top # NULL
        BY DEF Sys
      <4>2. PICK z, R : B \cap R = {} /\ Heap(m, z, B \cup R) /\ (\A a \in B : NoRecord(m, a))
        BY <4>1, SysHeap
      <4>3. ok_address(m, p)
        BY <4>2, UsedPasses
      <4>4. Segs(m.seg, m.top + m.topsize, m.least_addr, m.brk)
        BY <4>2 DEF Heap, Hole
      <4>5. m.least_addr \in Nat \ {0}
        BY <4>4, Small DEF Segs
      <4> QED  BY <1>2, <2>7, <4>3, <4>5, Small DEF ok_address
    <3>2. r = Moved(q.m, chunk2mem(p), bytes)
      BY <2>3, <3>1 DEF RelocateUnlessInPlace
    <3>3. r.m = q.m /\ r.mem = chunk2mem(p) /\ r.copied = bytes
      BY <3>2 DEF Moved
    <3> QED  BY <1>4, <2>7, <3>3 DEF InPlaceAt
  <2> QED  BY <2>5, <2>6, <2>7
<1> QED  BY <1>1, <1>3, <1>4

(* What is true of a chunk that the program has.                           *)
LEMMA UsedChunk ==
  ASSUME NEW m, NEW B, NEW X, Sys(m, B, X), NEW p \in B
  PROVE  /\ p \in Nat /\ Even(p) /\ m.chunk[p].size \in Nat /\ Even(m.chunk[p].size)
         /\ m.chunk[p].size >= 4 /\ p + m.chunk[p].size <= BrkLimit /\ p # 0
         /\ chunk2mem(p) # NULL /\ mem2chunk(chunk2mem(p)) = p
<1>1. m.top # NULL
  BY DEF Sys
<1>2. PICK z, R : B \cap R = {} /\ Heap(m, z, B \cup R)
  BY <1>1, SysHeap
<1>3. PICK U, E : U = B \cup R /\ E = m.top + m.topsize
  OBVIOUS
<1>4. Hole(m, z, U, {}, {}, E) /\ TopOK(m, z, U, {}, E) /\ p \in U
  BY <1>2, <1>3 DEF Heap
<1>5. /\ Segs(m.seg, E, m.least_addr, m.brk) /\ Layout(z, m.seg, E) /\ p \in DOMAIN z
      /\ m.top \in DOMAIN z /\ m.top + z[m.top] = E /\ p # m.top
  BY <1>4 DEF Hole, TopOK
<1>6. m.chunk[p].size = z[p]
  BY <1>2, <1>5, HeapSizes
<1>7. p \in Nat /\ Even(p) /\ z[p] \in Nat
  BY <1>5 DEF Layout
<1>8. p + z[p] <= m.top /\ m.top < E
  <2>1. PICK seg, lo, hi, t : seg = m.seg /\ lo = m.least_addr /\ hi = m.brk /\ t = m.top
    OBVIOUS
  <2>2. Segs(seg, E, lo, hi) /\ Layout(z, seg, E) /\ t \in DOMAIN z /\ t + z[t] = E
    BY <1>5, <2>1
  <2>3. t < E /\ \A a \in DOMAIN z : a <= t /\ (a # t => a + z[a] <= t)
    BY <2>2, TopHighest
  <2> QED  BY <1>5, <2>1, <2>3
<1>9. m.top \in Nat /\ m.top <= BrkLimit
  <2>1. m.top \in Addr
    BY DEF Sys, State
  <2> QED  BY <2>1, Small
<1>10. E \in Nat
  BY <1>5 DEF Segs
<1>11. Even(z[p]) /\ z[p] >= 4
  <2>1. p + z[p] # E
    BY <1>7, <1>8, <1>9, <1>10
  <2> QED  BY <1>5, <2>1 DEF Layout
<1>12. p # 0
  <2>1. PICK i \in DOMAIN m.seg : m.seg[i].base <= p
    BY <1>5 DEF Layout
  <2>2. m.least_addr <= m.seg[i].base /\ m.seg[i] \in SegmentSet /\ m.least_addr \in Addr \ {0}
    BY <1>5, <2>1 DEF Segs
  <2>3. m.seg[i].base \in Addr
    BY <2>2 DEF SegmentSet
  <2> QED  BY <1>7, <2>1, <2>2, <2>3, Small
<1>13. p + z[p] <= BrkLimit
  <2>1. BrkLimit \in Nat
    BY Small
  <2> QED  BY <1>7, <1>8, <1>9, <2>1
<1>14. chunk2mem(p) # NULL /\ mem2chunk(chunk2mem(p)) = p
  BY <1>7, Small DEF chunk2mem, mem2chunk
<1> QED  BY <1>6, <1>7, <1>11, <1>12, <1>13, <1>14

(* Multiples.                                                              *)
LEMMA MultipleMod ==
  ASSUME NEW a \in Nat, a >= 1, NEW q \in Nat
  PROVE  a * q \in Nat /\ (a * q) % a = 0
<1>1. PICK N \in Nat : N = a * q
  OBVIOUS
<1>2. PICK d, r : d = N \div a /\ r = N % a
  OBVIOUS
<1>3. d \in Nat /\ r \in 0 .. a - 1 /\ N = (a * d) + r
  BY <1>1, <1>2
<1>4. CASE d < q
  <2>1. d + 1 <= q
    BY <1>3, <1>4
  <2>2. a * (d + 1) <= a * q
    BY <1>3, <2>1, ProductMonotone
  <2>3. a * (d + 1) = (a * d) + a
    BY <1>3
  <2>4. a * d \in Nat
    BY <1>3
  <2> QED  BY <1>1, <1>3, <2>2, <2>3, <2>4
<1>5. CASE d > q
  <2>1. q + 1 <= d
    BY <1>3, <1>5
  <2>2. a * (q + 1) <= a * d
    BY <1>3, <2>1, ProductMonotone
  <2>3. a * (q + 1) = (a * q) + a
    OBVIOUS
  <2>4. a * d \in Nat
    BY <1>3
  <2> QED  BY <1>1, <1>3, <2>2, <2>3, <2>4
<1>6. CASE d = q
  <2>1. N = N + r
    BY <1>1, <1>3, <1>6
  <2>2. r = 0
    BY <1>1, <1>3, <2>1
  <2> QED  BY <1>1, <1>2, <2>2
<1> QED  BY <1>3, <1>4, <1>5, <1>6

(* Where the aligned part of a chunk begins.                               *)
LEMMA AlignedStartFacts ==
  ASSUME NEW p0 \in Nat, Even(p0), NEW a \in Nat, Even(a), a >= 4, NEW p, p = aligned_start(p0, a)
  PROVE  /\ p \in Nat /\ Even(p) /\ (p = p0 \/ p0 + 4 <= p) /\ p <= p0 + a + 2
         /\ chunk2mem(p) % a = 0
<1>1. PICK N \in Nat : N = (p0 + 2) + a - 1
  OBVIOUS
<1>2. PICK q : q = N \div a
  OBVIOUS
<1>3. PICK M : M = a * q
  OBVIOUS
<1>4. q \in Nat /\ M \in Nat /\ M <= N /\ N < M + a
  <2>1. q \in Nat /\ N = (a * q) + (N % a) /\ N % a \in 0 .. a - 1
    BY <1>1, <1>2
  <2>2. M \in Nat
    BY <1>3, <2>1
  <2> QED  BY <1>1, <1>3, <2>1, <2>2
<1>5. p0 + 2 <= M /\ M <= p0 + a + 1
  BY <1>1, <1>4
<1>6. Even(M)
  <2>1. PICK h \in Nat : a = 2 * h
    BY DEF Even
  <2>2. PICK g \in Nat : g = h * q
    BY <1>4, <2>1
  <2>3. M = 2 * g
    BY <1>3, <1>4, <2>1, <2>2
  <2> QED  BY <2>2, <2>3 DEF Even
<1>7. M % a = 0 /\ (M + a) % a = 0
  <2>1. M % a = 0
    BY <1>3, <1>4, MultipleMod
  <2>2. M + a = a * (q + 1)
    BY <1>3, <1>4
  <2>3. (a * (q + 1)) % a = 0
    BY <1>4, MultipleMod
  <2> QED  BY <2>1, <2>2, <2>3
<1>8. PICK br : br = M - 2
  OBVIOUS
<1>9. br \in Nat /\ Even(br) /\ p0 <= br
  BY <1>4, <1>5, <1>6, <1>8 DEF Even
<1>10. p = IF br = p0 \/ br - p0 >= 4 THEN br ELSE br + a
  BY <1>1, <1>2, <1>3, <1>8, Small DEF aligned_start, mem2chunk, chunk2mem
<1>11. CASE br = p0 \/ br - p0 >= 4
  <2>1. p = br /\ chunk2mem(p) = M
    BY <1>4, <1>8, <1>9, <1>10, <1>11 DEF chunk2mem
  <2> QED  BY <1>4, <1>5, <1>7, <1>8, <1>9, <1>11, <2>1
<1>12. CASE ~(br = p0 \/ br - p0 >= 4)
  <2>1. p = br + a /\ chunk2mem(p) = M + a
    BY <1>4, <1>8, <1>9, <1>10, <1>12 DEF chunk2mem
  <2>2. br <= p0 + 2
    BY <1>9, <1>12 DEF Even
  <2>3. Even(p)
    BY <1>9, <2>1 DEF Even
  <2>4. p \in Nat /\ p0 + 4 <= p /\ p <= p0 + a + 2
    BY <1>9, <2>1, <2>2
  <2> QED  BY <1>7, <2>1, <2>3, <2>4
<1> QED  BY <1>11, <1>12

(* Alignments are sizes, and the page is one. *)
LEMMA AlignableFacts ==
  /\ \A al \in Alignable : al \in Nat /\ al \in size_t
  /\ PageSize \in Alignable
<1>1. SizeWidth \in Nat /\ SizeWidth >= 6 /\ (\A k \in 0 .. SizeWidth : 2^k \in Nat \ {0})
      /\ (\A i, j \in 0 .. SizeWidth : i <= j => 2^i <= 2^j)
  BY SizeFacts
<1>2. PICK w : w = SizeWidth - 1
  OBVIOUS
<1>3. w \in 0 .. SizeWidth /\ w \in Nat /\ w + 1 = SizeWidth
  BY <1>1, <1>2
<1>4. 2^w \in Nat /\ 2^w >= 1
  BY <1>1, <1>3
<1>5. SizeRange = 2 * 2^w
  <2>1. 2^(w + 1) = 2 * 2^w
    BY <1>3, PowerAssumption
  <2> QED  BY <1>3, <2>1 DEF SizeRange
<1>6. Alignable = 0 .. 2^w
  BY <1>2 DEF Alignable
<1>7. \A al \in Alignable : al \in Nat /\ al \in size_t
  <2> SUFFICES ASSUME NEW al \in Alignable PROVE al \in Nat /\ al \in size_t
    OBVIOUS
  <2>1. al \in Nat /\ al <= 2^w
    BY <1>4, <1>6
  <2>2. al <= SizeRange - 1
    BY <1>4, <1>5, <2>1
  <2> QED  BY <1>4, <1>5, <2>1, <2>2 DEF size_t, MAX_SIZE_T
<1>8. PageSize \in Alignable
  <2>1. PICK k \in 1 .. SizeWidth - 1 : PageSize = 2^k
    BY SizeAssumption
  <2>2. k \in 0 .. SizeWidth /\ k <= w
    BY <1>1, <1>2, <2>1
  <2>3. 2^k \in Nat /\ 2^k <= 2^w
    BY <1>1, <1>3, <2>2
  <2> QED  BY <1>4, <1>6, <2>1, <2>3
<1> QED  BY <1>7, <1>8

(* The alignment that memalign works with. *)
LEMMA EffectiveAlignment ==
  ASSUME NEW align \in Alignable, NEW a, a = effective_alignment(align)
  PROVE  a \in Nat /\ Even(a) /\ a >= 4 /\ a >= align /\ (PowerOf2(align) /\ align > 2 => a = align)
<1> DEFINE P == {2^k : k \in 2 .. SizeWidth - 1}
           Q == {b \in P : b >= align}
<1>1. SizeWidth \in Nat /\ SizeWidth >= 6 /\ (\A k \in 0 .. SizeWidth : 2^k \in Nat \ {0})
      /\ (\A k \in 1 .. SizeWidth : Even(2^k))
      /\ (\A i, j \in 0 .. SizeWidth : i <= j => 2^i <= 2^j)
  BY SizeFacts
<1>2. 2^2 = 4
  <2>1. 2^(0 + 1) = 2 * 2^0 /\ 2^(1 + 1) = 2 * 2^1 /\ 2^0 = 1
    BY <1>1, PowerAssumption
  <2> QED  BY <2>1
<1>3. \A b \in P : b \in Nat /\ Even(b) /\ b >= 4
  <2> SUFFICES ASSUME NEW k \in 2 .. SizeWidth - 1 PROVE 2^k \in Nat /\ Even(2^k) /\ 2^k >= 4
    OBVIOUS
  <2>1. k \in 0 .. SizeWidth /\ k \in 1 .. SizeWidth /\ 2 \in 0 .. SizeWidth /\ 2 <= k
    BY <1>1
  <2>2. 2^k \in Nat /\ Even(2^k)
    BY <1>1, <2>1
  <2>3. 2^2 <= 2^k
    BY <1>1, <2>1
  <2> QED  BY <1>2, <2>2, <2>3
<1>4. Q # {} /\ Q \in SUBSET Nat
  <2>1. 2^(SizeWidth - 1) \in P
    BY <1>1
  <2>2. align \in Nat /\ align <= 2^(SizeWidth - 1)
    <3>1. 2^(SizeWidth - 1) \in Nat
      BY <1>1
    <3> QED  BY <3>1 DEF Alignable
  <2> QED  BY <1>3, <2>1, <2>2
<1>5. PICK c \in Q : \A b \in Q : c <= b
  <2> HIDE DEF Q
  <2>1. Min(Q) \in Q /\ \A n \in Q : Min(Q) <= n
    BY <1>4, MinFacts
  <2> QED  BY <2>1
<1>6. a \in P /\ a >= align /\ \A b \in P : b >= align => a <= b
  <2>1. \E x \in P : x >= align /\ \A b \in P : b >= align => x <= b
    BY <1>5
  <2> QED  BY <2>1 DEF effective_alignment
<1>7. ASSUME PowerOf2(align), align > 2 PROVE a = align
  <2>1. PICK k \in 0 .. SizeWidth - 1 : align = 2^k
    BY <1>7 DEF PowerOf2
  <2>2. 2^1 = 2 /\ 2^0 = 1
    <3>1. 2^(0 + 1) = 2 * 2^0 /\ 2^0 = 1
      BY <1>1, PowerAssumption
    <3> QED  BY <3>1
  <2>3. k # 0 /\ k # 1
    <3>1. ASSUME k = 0 PROVE FALSE
      <4>1. align = 2^0
        BY <2>1, <3>1
      <4> QED  BY <1>7, <2>2, <4>1
    <3>2. ASSUME k = 1 PROVE FALSE
      <4>1. align = 2^1
        BY <2>1, <3>2
      <4> QED  BY <1>7, <2>2, <4>1
    <3> QED  BY <3>1, <3>2
  <2>4. k \in 2 .. SizeWidth - 1
    BY <1>1, <2>1, <2>3
  <2>5. align \in P
    BY <2>1, <2>4
  <2>6. align >= align
    BY <1>3, <2>5
  <2>7. a <= align
    BY <1>6, <2>5, <2>6
  <2>8. a \in Nat /\ align \in Nat
    BY <1>3, <1>6, <2>5
  <2> QED  BY <1>6, <2>7, <2>8
<1> QED  BY <1>3, <1>6, <1>7

Leads(p0, s, p, size) ==
    p \in Nat /\ p0 + 4 <= p /\ Even(p) /\ p + 4 <= p0 + s /\ size = s - (p - p0)

Led(m, n, B, X, p0, p, size) ==
    /\ p \notin B /\ Goes(m, n, (B \ {p0}) \cup {p}, B \ {p0}, X)
    /\ n.chunk[p].size = size

(* What is in front of the aligned chunk p of p0 is given back,            *)
LEMMA LeaderGoes ==
  ASSUME NEW m, NEW B, NEW X, Sys(m, B, X), NEW p0 \in B, NEW p, NEW size,
         Leads(p0, m.chunk[p0].size, p, size), NEW n, n = GiveBackLeader(m, p0, p, size)
  PROVE  Led(m, n, B, X, p0, p, size)
<1>0. PICK s : s = m.chunk[p0].size
  OBVIOUS
<1> /\ p \in Nat /\ p0 + 4 <= p /\ Even(p) /\ p + 4 <= p0 + s /\ size = s - (p - p0)
  BY <1>0 DEF Leads
<1>1. m.top # NULL
  BY DEF Sys
<1>2. PICK z, R : /\ R = RecordsOf(m.seg) /\ B \cap R = {} /\ Heap(m, z, B \cup R)
                  /\ Work(m, z, B \cup R, {}, {}, m.top + m.topsize)
                  /\ \A q \in B : NoRecord(m, q)
  BY <1>1, SysHeap
<1>3. PICK U, E : U = B \cup R /\ E = m.top + m.topsize
  OBVIOUS
<1>4. Work(m, z, U, {}, {}, E) /\ p0 \in U /\ NoRecord(m, p0)
  BY <1>2, <1>3
<1>5. z[p0] = s
  <2>1. p0 \in DOMAIN z /\ m.chunk[p0].size = z[p0]
    BY <1>2, HeapSizes
  <2> QED  BY <1>0, <2>1
<1>6. p0 \in Nat
  BY UsedChunk
<1>7. LeaderOf(z, p0, p)
  BY <1>5 DEF LeaderOf
<1>8. n = dispose_chunk(set_inuse(set_inuse(m, p, size), p0, p - p0), p0, p - p0)
  <2>1. p # p0
    BY <1>6
  <2> QED  BY <2>1 DEF GiveBackLeader
<1>9. p \notin U /\ SettlesAt(m, z, n, (U \ {p0}) \cup {p}, U \ {p0}, p, {size})
  <2>1. size = z[p0] - (p - p0)
    BY <1>5
  <2> QED  BY <1>4, <1>7, <1>8, <2>1, GiveBackLeaderFacts
<1>10. PICK C, W, Z, S : C = (B \ {p0}) \cup {p} /\ W = B \ {p0} /\ Z = U \ {p0} /\ S = {size}
  OBVIOUS
<1>11. C \cup R = (U \ {p0}) \cup {p} /\ W \subseteq B \cap C /\ C \cap R = {} /\ W \subseteq Z
  BY <1>2, <1>3, <1>9, <1>10
<1>12. SettlesAt(m, z, n, C \cup R, Z, p, S)
  BY <1>9, <1>10, <1>11
<1>13. Goes(m, n, C, W, X) /\ n.chunk[p].size \in S
  BY <1>1, <1>2, <1>11, <1>12, GoesSettlesAt
<1> QED  BY <1>3, <1>9, <1>10, <1>13 DEF Led

(* and what is behind the nb words that are needed.                        *)
LEMMA TrailerGoes ==
  ASSUME NEW m, NEW B, NEW X, Sys(m, B, X), NEW p \in B, NEW size, size = m.chunk[p].size,
         NEW nb \in Nat, Even(nb), 4 <= nb, nb <= size, NEW r, r = GiveBackTrailer(m, p, size, nb)
  PROVE  /\ r.mem = chunk2mem(p) /\ Goes(m, r.m, B, B \ {p}, X)
         /\ r.m.chunk[p].size \in AtLeast(nb)
<1>1. m.top # NULL
  BY DEF Sys
<1>2. PICK z, R : /\ R = RecordsOf(m.seg) /\ B \cap R = {} /\ Heap(m, z, B \cup R)
                  /\ Work(m, z, B \cup R, {}, {}, m.top + m.topsize)
                  /\ \A q \in B : NoRecord(m, q)
  BY <1>1, SysHeap
<1>3. PICK U, E, n : U = B \cup R /\ E = m.top + m.topsize /\ n = r.m
  OBVIOUS
<1>4. Work(m, z, U, {}, {}, E) /\ p \in U /\ NoRecord(m, p)
  BY <1>2, <1>3
<1>5. z[p] = size
  <2>1. p \in DOMAIN z /\ m.chunk[p].size = z[p]
    BY <1>2, HeapSizes
  <2> QED  BY <2>1
<1>6. TrailerOf(z, p, size, nb)
  BY <1>5, UsedChunk DEF TrailerOf
<1>7. r.mem = chunk2mem(p) /\ SettlesAt(m, z, r.m, U, U \ {p}, p, AtLeast(nb))
  BY <1>4, <1>6, GiveBackTrailerFacts
<1>8. PICK W, Z, S : W = B \ {p} /\ Z = U \ {p} /\ S = AtLeast(nb)
  OBVIOUS
<1>9. SettlesAt(m, z, n, B \cup R, Z, p, S) /\ W \subseteq B \cap B /\ W \subseteq Z
  BY <1>3, <1>7, <1>8
<1>10. Goes(m, n, B, W, X) /\ n.chunk[p].size \in S
  BY <1>1, <1>2, <1>9, GoesSettlesAt
<1> QED  BY <1>3, <1>7, <1>8, <1>10

(* What a call that allocates at a multiple of a makes of it.              *)
AlignsAt(m, B, X, r, nb, a, v) ==
    /\ v \in Nat /\ v \notin B /\ r.mem = chunk2mem(v) /\ chunk2mem(v) % a = 0
    /\ Goes(m, r.m, B \cup {v}, B, X) /\ r.m.chunk[v].size \in AtLeast(nb)
Aligns(m, B, X, r, nb, a) == Refuses(m, B, X, r) \/ \E v : AlignsAt(m, B, X, r, nb, a, v)

(* A chunk that is large enough holds an aligned one. *)
LEMMA AlignWithinAligns ==
  ASSUME NEW m, NEW B, NEW X, Sys(m, B, X), NEW nb \in Nat, Even(nb), 4 <= nb,
         NEW a \in Nat, Even(a), a >= 4, NEW got, NEW nb2 \in Nat, nb2 >= nb + a + 4,
         Gives(m, B, X, got, nb2), NEW r, r = AlignWithin(got, a, nb)
  PROVE  Aligns(m, B, X, r, nb, a)
<1>1. m \in State
  BY DEF Sys
<1>2. CASE Refuses(m, B, X, got)
  <2>1. r = got
    BY <1>2 DEF AlignWithin, Refuses
  <2> QED  BY <1>2, <2>1 DEF Aligns
<1>3. CASE \E v : GivesAt(m, B, X, got, nb2, v)
  <2>1. PICK p0 : GivesAt(m, B, X, got, nb2, p0)
    BY <1>3
  <2>2. PICK k : k = got.m
    OBVIOUS
  <2>3. /\ p0 \in Nat /\ p0 \notin B /\ got.mem = chunk2mem(p0) /\ Goes(m, k, B \cup {p0}, B, X)
        /\ k.chunk[p0].size \in nb2 .. nb2 + 3
    BY <2>1, <2>2 DEF GivesAt
  <2>4. PICK C : C = B \cup {p0}
    OBVIOUS
  <2>5. Goes(m, k, C, B, X) /\ Sys(k, C, X) /\ p0 \in C
    BY <2>3, <2>4 DEF Goes
  <2>6. PICK s : s = k.chunk[p0].size
    OBVIOUS
  <2>7. s \in Nat /\ Even(s) /\ s >= nb2 /\ Even(p0)
    BY <2>3, <2>5, <2>6, UsedChunk
  <2>8. PICK p : p = aligned_start(p0, a)
    OBVIOUS
  <2>9. /\ p \in Nat /\ Even(p) /\ (p = p0 \/ p0 + 4 <= p) /\ p <= p0 + a + 2
        /\ chunk2mem(p) % a = 0
    BY <2>3, <2>7, <2>8, AlignedStartFacts
  <2>10. PICK size : size = s - (p - p0)
    OBVIOUS
  <2>11. size \in Nat /\ nb + 2 <= size /\ p + 4 <= p0 + s
    BY <2>3, <2>7, <2>9, <2>10
  <2>12. PICK n : n = GiveBackLeader(k, p0, p, size)
    OBVIOUS
  <2>13. r = GiveBackTrailer(n, p, size, nb)
    <3>1. mem2chunk(got.mem) = p0 /\ got.mem # NULL
      BY <2>3, Small DEF mem2chunk, chunk2mem
    <3>2. chunksize(got.m, p0) = s
      BY <2>2, <2>6 DEF chunksize
    <3> QED  BY <2>2, <2>8, <2>10, <2>12, <3>1, <3>2 DEF AlignWithin
  <2>14. PICK D : D = B \cup {p}
    OBVIOUS
  <2>15. p \notin B /\ Goes(m, n, D, B, X) /\ n.chunk[p].size = size
    <3>1. CASE p = p0
      <4>1. n = k /\ size = s
        BY <2>3, <2>7, <2>10, <2>12, <3>1 DEF GiveBackLeader
      <4> QED  BY <2>3, <2>4, <2>5, <2>6, <2>14, <3>1, <4>1
    <3>2. CASE p # p0
      <4>1. p0 + 4 <= p
        BY <2>9, <3>2
      <4>2. p \notin C /\ Goes(k, n, (C \ {p0}) \cup {p}, C \ {p0}, X) /\ n.chunk[p].size = size
        <5>1. /\ Sys(k, C, X) /\ p0 \in C /\ Leads(p0, k.chunk[p0].size, p, size)
              /\ n = GiveBackLeader(k, p0, p, size)
          BY <2>5, <2>6, <2>9, <2>10, <2>11, <2>12, <4>1 DEF Leads
        <5>2. Led(k, n, C, X, p0, p, size)
          BY <5>1, LeaderGoes
        <5> QED  BY <5>2 DEF Led
      <4>3. C \ {p0} = B /\ (C \ {p0}) \cup {p} = D
        BY <2>3, <2>4, <2>14
      <4>4. Goes(k, n, D, B, X)
        BY <4>2, <4>3
      <4>5. Goes(m, n, D, B, X)
        BY <1>1, <2>5, <4>4, GoesTrans
      <4> QED  BY <2>4, <4>2, <4>5
    <3> QED  BY <3>1, <3>2
  <2>16. Sys(n, D, X) /\ p \in D /\ D \ {p} = B
    BY <2>14, <2>15 DEF Goes
  <2>17. r.mem = chunk2mem(p) /\ Goes(n, r.m, D, B, X) /\ r.m.chunk[p].size \in AtLeast(nb)
    <3>1. nb <= size /\ size = n.chunk[p].size
      BY <2>11, <2>15
    <3>2. r.mem = chunk2mem(p) /\ Goes(n, r.m, D, D \ {p}, X) /\ r.m.chunk[p].size \in AtLeast(nb)
      BY <2>13, <2>16, <3>1, TrailerGoes
    <3> QED  BY <2>16, <3>2
  <2>18. PICK w : w = r.m
    OBVIOUS
  <2>19. Goes(m, w, D, B, X)
    <3>1. Goes(n, w, D, B, X)
      BY <2>17, <2>18
    <3> QED  BY <1>1, <2>15, <3>1, GoesTrans
  <2>20. AlignsAt(m, B, X, r, nb, a, p)
    BY <2>9, <2>14, <2>15, <2>17, <2>18, <2>19 DEF AlignsAt
  <2> QED  BY <2>20 DEF Aligns
<1> QED  BY <1>2, <1>3 DEF Gives

(* Every chunk is aligned to two words. *)
LEMMA GivesAligns ==
  ASSUME NEW m, NEW B, NEW X, NEW r, NEW nb \in Nat, Gives(m, B, X, r, nb)
  PROVE  Aligns(m, B, X, r, nb, 2)
<1>1. CASE Refuses(m, B, X, r)
  BY <1>1 DEF Aligns
<1>2. CASE \E v : GivesAt(m, B, X, r, nb, v)
  <2>1. PICK v : GivesAt(m, B, X, r, nb, v)
    BY <1>2
  <2>2. PICK n : n = r.m
    OBVIOUS
  <2>3. /\ v \in Nat /\ v \notin B /\ r.mem = chunk2mem(v)
        /\ Goes(m, n, B \cup {v}, B, X) /\ n.chunk[v].size \in nb .. nb + 3
    BY <2>1, <2>2 DEF GivesAt
  <2>4. Sys(n, B \cup {v}, X) /\ v \in B \cup {v}
    BY <2>3 DEF Goes
  <2>5. Even(v)
    BY <2>4, UsedChunk
  <2>6. chunk2mem(v) % 2 = 0
    BY <2>3, <2>5 DEF Even, chunk2mem
  <2>7. n.chunk[v].size \in AtLeast(nb)
    <3>1. \A s \in nb .. nb + 3 : s \in AtLeast(nb)
      BY DEF AtLeast
    <3> QED  BY <2>3, <3>1
  <2>8. AlignsAt(m, B, X, r, nb, 2, v)
    BY <2>2, <2>3, <2>6, <2>7 DEF AlignsAt
  <2> QED  BY <2>8 DEF Aligns
<1> QED  BY <1>1, <1>2 DEF Gives

(* A block of n words at a multiple of a, or nothing.                      *)
Hands(m, B, X, r, n, a) ==
    Refuses(m, B, X, r) \/ (n < MAX_REQUEST /\ \E v : AlignsAt(m, B, X, r, n + 1, a, v))

(* A chunk for n words is a block of n words. *)
LEMMA AlignsHands ==
  ASSUME NEW m, NEW B, NEW X, NEW r, NEW nb \in Nat, NEW a, Aligns(m, B, X, r, nb, a),
         NEW n \in Nat, n + 1 <= nb, n < MAX_REQUEST
  PROVE  Hands(m, B, X, r, n, a)
<1>1. \A s \in AtLeast(nb) : s \in AtLeast(n + 1)
  BY DEF AtLeast
<1>2. \A v : AlignsAt(m, B, X, r, nb, a, v) => AlignsAt(m, B, X, r, n + 1, a, v)
  BY <1>1 DEF AlignsAt
<1> QED  BY <1>2 DEF Aligns, Hands

(* After another step, too. *)
LEMMA HandsAfter ==
  ASSUME NEW m \in State, NEW k, NEW B, NEW X, Goes(m, k, B, B, X), NEW r, NEW n, NEW a,
         Hands(k, B, X, r, n, a)
  PROVE  Hands(m, B, X, r, n, a)
<1>1. PICK w : w = r.m
  OBVIOUS
<1>2. CASE Refuses(k, B, X, r)
  <2>1. Goes(k, w, B, B, X)
    BY <1>1, <1>2 DEF Refuses
  <2>2. Goes(m, w, B, B, X)
    BY <2>1, GoesTrans
  <2> QED  BY <1>1, <1>2, <2>2 DEF Refuses, Hands
<1>3. CASE n < MAX_REQUEST /\ \E v : AlignsAt(k, B, X, r, n + 1, a, v)
  <2>1. PICK v : AlignsAt(k, B, X, r, n + 1, a, v)
    BY <1>3
  <2>2. PICK C : C = B \cup {v}
    OBVIOUS
  <2>3. Goes(k, w, C, B, X)
    BY <1>1, <2>1, <2>2 DEF AlignsAt
  <2>4. Goes(m, w, C, B, X)
    BY <2>3, GoesTrans
  <2>5. AlignsAt(m, B, X, r, n + 1, a, v)
    BY <1>1, <2>1, <2>2, <2>4 DEF AlignsAt
  <2> QED  BY <1>3, <2>5 DEF Hands
<1> QED  BY <1>2, <1>3 DEF Hands

(* Any chunk is at an even address.                                        *)
LEMMA HandsEven ==
  ASSUME NEW m, NEW B, NEW X, NEW r, NEW n, NEW a, Hands(m, B, X, r, n, a), NEW b, b = 1 \/ b = 2
  PROVE  Hands(m, B, X, r, n, b)
<1>1. CASE Refuses(m, B, X, r)
  BY <1>1 DEF Hands
<1>2. CASE n < MAX_REQUEST /\ \E v : AlignsAt(m, B, X, r, n + 1, a, v)
  <2>1. PICK v : AlignsAt(m, B, X, r, n + 1, a, v)
    BY <1>2
  <2>2. PICK k : k = r.m
    OBVIOUS
  <2>3. v \in Nat /\ Goes(m, k, B \cup {v}, B, X) /\ v \in B \cup {v}
    BY <2>1, <2>2 DEF AlignsAt
  <2>4. Sys(k, B \cup {v}, X)
    BY <2>3 DEF Goes
  <2>5. Even(v)
    BY <2>3, <2>4, UsedChunk
  <2>6. chunk2mem(v) % 2 = 0 /\ chunk2mem(v) % 1 = 0
    BY <2>3, <2>5 DEF Even, chunk2mem
  <2>7. AlignsAt(m, B, X, r, n + 1, b, v)
    BY <2>1, <2>6 DEF AlignsAt
  <2> QED  BY <1>2, <2>7 DEF Hands
<1> QED  BY <1>1, <1>2 DEF Hands

(* malloc.                                                                 *)
LEMMA MallocHands ==
  ASSUME NEW m, NEW B, NEW X, Sys(m, B, X), NEW n \in size_t, NEW r, r = dlmalloc(m, n)
  PROVE  Hands(m, B, X, r, n, 2)
<1>1. PICK nb : nb = chunk_size_for(n)
  OBVIOUS
<1>2. Gives(m, B, X, r, nb)
  BY <1>1, MallocGives
<1>3. /\ ChunkSize(nb) /\ (n < MAX_REQUEST => n + 1 <= nb)
      /\ (n >= MAX_REQUEST => nb = MAX_SIZE_T)
  BY <1>1, ChunkSizeForFacts
<1>4. nb \in Nat /\ n \in Nat /\ MAX_REQUEST \in Int
  BY <1>3, SizeFacts, Small DEF ChunkSize
<1>5. Aligns(m, B, X, r, nb, 2)
  BY <1>2, <1>4, GivesAligns
<1>6. CASE n < MAX_REQUEST
  BY <1>3, <1>4, <1>5, <1>6, AlignsHands
<1>7. CASE n >= MAX_REQUEST
  <2>1. ASSUME NEW v, AlignsAt(m, B, X, r, nb, 2, v) PROVE FALSE
    <3>1. PICK k : k = r.m
      OBVIOUS
    <3>2. Goes(m, k, B \cup {v}, B, X) /\ v \in B \cup {v} /\ k.chunk[v].size \in AtLeast(nb)
      BY <2>1, <3>1 DEF AlignsAt
    <3>3. Sys(k, B \cup {v}, X)
      BY <3>2 DEF Goes
    <3>4. v \in Nat /\ k.chunk[v].size \in Nat /\ v + k.chunk[v].size <= BrkLimit
      BY <3>2, <3>3, UsedChunk
    <3>5. k.chunk[v].size >= MAX_SIZE_T
      BY <1>3, <1>7, <3>2 DEF AtLeast
    <3>6. BrkLimit \in Nat /\ BrkLimit < MAX_SIZE_T /\ MAX_SIZE_T \in Nat
      BY Small
    <3> QED  BY <3>4, <3>5, <3>6
  <2> QED  BY <1>5, <2>1 DEF Aligns, Hands
<1> QED  BY <1>4, <1>6, <1>7

AlignedTo(alignment) == IF PowerOf2(alignment) THEN alignment ELSE MALLOC_ALIGNMENT

(* The powers of 2 up to 2. *)
LEMMA PowersFacts ==
  ASSUME NEW a \in size_t, PowerOf2(a), a <= 2
  PROVE  a = 1 \/ a = 2
<1>1. a \in Nat
  BY Small
<1>2. a >= 1
  BY <1>1, PowersHalf
<1> QED  BY <1>1, <1>2

(* memalign and its relatives.                                             *)
LEMMA InternalMemalignHands ==
  ASSUME NEW m, NEW B, NEW X, Sys(m, B, X), NEW align \in Alignable, NEW n \in size_t,
         NEW r, r = internal_memalign(m, align, n)
  PROVE  Hands(m, B, X, r, n, AlignedTo(align))
<1>1. PICK a : a = effective_alignment(align)
  OBVIOUS
<1>2. a \in Nat /\ Even(a) /\ a >= 4 /\ a >= align /\ (PowerOf2(align) /\ align > 2 => a = align)
  BY <1>1, EffectiveAlignment
<1>3. n \in Nat /\ align \in Nat /\ MAX_REQUEST \in Int /\ SizeRange \in Nat /\ SizeRange >= 64
      /\ MAX_REQUEST = SizeRange - 16 /\ MAX_SIZE_T = SizeRange - 1
  BY SizeFacts, Small, AlignableFacts
<1>4. PICK nb : nb = request2size(n)
  OBVIOUS
<1>5. CASE n >= MAX_REQUEST - a
  <2>1. r = Failure(m)
    BY <1>1, <1>5 DEF internal_memalign
  <2>2. Goes(m, m, B, B, X)
    BY GoesSelf
  <2> QED  BY <2>1, <2>2 DEF Hands, Refuses, Failure, Result
<1>6. CASE n < MAX_REQUEST - a
  <2>1. n < MAX_REQUEST
    BY <1>2, <1>3, <1>6
  <2>2. nb \in Nat /\ Even(nb) /\ 4 <= nb /\ n + 1 <= nb /\ nb <= n + 4
    BY <1>3, <1>4, <2>1, RequestFacts
  <2>3. PICK q : q = nb + a + 3
    OBVIOUS
  <2>4. q \in size_t
    <3>1. q \in 0 .. MAX_SIZE_T
      BY <1>2, <1>3, <1>6, <2>2, <2>3
    <3> QED  BY <3>1, Small
  <2>5. PICK got : got = dlmalloc(m, q)
    OBVIOUS
  <2>6. r = AlignWithin(got, a, nb)
    <3>1. ~(n >= MAX_REQUEST - a)
      BY <1>2, <1>3, <1>6
    <3>2. MIN_CHUNK_SIZE - CHUNK_OVERHEAD = 3
      BY Small
    <3> QED  BY <1>1, <1>4, <2>3, <2>5, <3>1, <3>2 DEF internal_memalign
  <2>7. PICK nb2 : nb2 = chunk_size_for(q)
    OBVIOUS
  <2>8. Gives(m, B, X, got, nb2)
    BY <2>4, <2>5, <2>7, MallocGives
  <2>9. nb2 \in Nat /\ nb2 >= nb + a + 4
    <3>1. /\ ChunkSize(nb2) /\ (q < MAX_REQUEST => q + 1 <= nb2)
          /\ (q >= MAX_REQUEST => nb2 = MAX_SIZE_T)
      BY <2>4, <2>7, ChunkSizeForFacts
    <3>2. nb2 \in Nat
      BY <3>1 DEF ChunkSize
    <3>3. CASE q < MAX_REQUEST
      BY <1>2, <2>2, <2>3, <3>1, <3>2, <3>3
    <3>4. CASE q >= MAX_REQUEST
      BY <1>2, <1>3, <1>6, <2>2, <2>3, <3>1, <3>2, <3>4
    <3>5. q \in Nat
      BY <1>2, <2>2, <2>3
    <3> QED  BY <1>3, <3>2, <3>3, <3>4, <3>5
  <2>10. Aligns(m, B, X, r, nb, a)
    BY <1>2, <2>2, <2>6, <2>8, <2>9, AlignWithinAligns
  <2>11. Hands(m, B, X, r, n, a)
    BY <1>3, <2>1, <2>2, <2>10, AlignsHands
  <2>12. CASE PowerOf2(align) /\ align > 2
    BY <1>2, <2>11, <2>12 DEF AlignedTo
  <2>13. CASE PowerOf2(align) /\ align <= 2
    <3>1. AlignedTo(align) = 1 \/ AlignedTo(align) = 2
      BY <2>13, PowersFacts, AlignableFacts DEF AlignedTo
    <3> QED  BY <2>11, <3>1, HandsEven
  <2>14. CASE ~PowerOf2(align)
    <3>1. AlignedTo(align) = 2
      BY <2>14, Small DEF AlignedTo
    <3> QED  BY <2>11, <3>1, HandsEven
  <2> QED  BY <1>3, <2>12, <2>13, <2>14
<1> QED  BY <1>2, <1>3, <1>5, <1>6

(* memalign, *)
LEMMA MemalignHands ==
  ASSUME NEW m, NEW B, NEW X, Sys(m, B, X), NEW align \in Alignable, NEW n \in size_t,
         NEW r, r = dlmemalign(m, align, n)
  PROVE  Hands(m, B, X, r, n, AlignedTo(align))
<1>1. CASE align <= MALLOC_ALIGNMENT
  <2>1. r = dlmalloc(m, n)
    BY <1>1 DEF dlmemalign
  <2>2. Hands(m, B, X, r, n, 2)
    BY <2>1, MallocHands
  <2>3. AlignedTo(align) = 1 \/ AlignedTo(align) = 2
    <3>1. align <= 2 /\ MALLOC_ALIGNMENT = 2
      BY <1>1, Small
    <3>2. PowerOf2(align) => align = 1 \/ align = 2
      BY <3>1, PowersFacts, AlignableFacts
    <3> QED  BY <3>1, <3>2 DEF AlignedTo
  <2> QED  BY <2>2, <2>3, HandsEven
<1>2. CASE ~(align <= MALLOC_ALIGNMENT)
  <2>1. r = internal_memalign(m, align, n)
    BY <1>2 DEF dlmemalign
  <2> QED  BY <2>1, InternalMemalignHands
<1> QED  BY <1>1, <1>2

(* posix_memalign, which refuses some alignments, *)
LEMMA PosixMemalignHands ==
  ASSUME NEW m, NEW B, NEW X, Sys(m, B, X), NEW align \in Alignable, NEW n \in size_t,
         NEW r, r = dlposix_memalign(m, align, n)
  PROVE  Hands(m, B, X, r, n, AlignedTo(align))
<1>1. CASE align = MALLOC_ALIGNMENT
  <2>1. r = dlmalloc(m, n)
    BY <1>1 DEF dlposix_memalign
  <2>2. Hands(m, B, X, r, n, 2)
    BY <2>1, MallocHands
  <2>3. AlignedTo(align) = 2
    BY <1>1, Small DEF AlignedTo
  <2> QED  BY <2>2, <2>3
<1>2. CASE align # MALLOC_ALIGNMENT /\ PowerOf2(align) /\ n <= MAX_REQUEST - align
  <2>1. r = internal_memalign(m, align, n)
    BY <1>2 DEF dlposix_memalign
  <2> QED  BY <2>1, InternalMemalignHands
<1>3. CASE align # MALLOC_ALIGNMENT /\ ~(PowerOf2(align) /\ n <= MAX_REQUEST - align)
  <2>1. r = Failure(m)
    BY <1>3 DEF dlposix_memalign
  <2>2. Goes(m, m, B, B, X)
    BY GoesSelf
  <2> QED  BY <2>1, <2>2 DEF Hands, Refuses, Failure, Result
<1> QED  BY <1>1, <1>2, <1>3

(* valloc *)
LEMMA VallocHands ==
  ASSUME NEW m, NEW B, NEW X, Sys(m, B, X), NEW n \in size_t,
         NEW r, r = dlvalloc(m, n)
  PROVE  Hands(m, B, X, r, n, PageSize)
<1>1. PICK k : k = ensure_initialization(m)
  OBVIOUS
<1>2. Goes(m, k, B, B, X)
  BY <1>1, EnsureFacts
<1>3. Sys(k, B, X) /\ m \in State
  BY <1>2 DEF Goes, Sys
<1>4. PageSize \in Alignable
  BY AlignableFacts
<1>5. r = dlmemalign(k, PageSize, n)
  BY <1>1 DEF dlvalloc
<1>6. AlignedTo(PageSize) = PageSize
  BY PageFacts DEF AlignedTo
<1>7. Hands(k, B, X, r, n, AlignedTo(PageSize))
  BY <1>3, <1>4, <1>5, MemalignHands
<1>8. Hands(k, B, X, r, n, PageSize)
  BY <1>6, <1>7
<1> QED  BY <1>2, <1>3, <1>8, HandsAfter

(* and pvalloc, which rounds the request up to a page. *)
LEMMA PvallocHands ==
  ASSUME NEW m, NEW B, NEW X, Sys(m, B, X), NEW n \in size_t,
         NEW r, r = dlpvalloc(m, n)
  PROVE  page_align(n) \in size_t /\ Hands(m, B, X, r, page_align(n), PageSize)
<1>1. page_align(n) \in size_t
  <2>1. n \in Nat /\ PageSize \in Nat
    BY PageFacts, Small
  <2> QED  BY <2>1, AlignUpBounded DEF page_align
<1>2. r = dlvalloc(m, page_align(n))
  BY DEF dlpvalloc, dlvalloc
<1> QED  BY <1>1, <1>2, VallocHands

-------------------------------------------------------------------------------
(* realloc_in_place.                                                       *)
LEMMA ReallocInPlaceGoes ==
  ASSUME NEW m, NEW B, NEW X, Sys(m, B, X), NEW p \in B, NEW bytes \in size_t,
         NEW nb, nb = request2size(bytes),
         NEW r, r = dlrealloc_in_place(m, chunk2mem(p), bytes)
  PROVE  \/ Stays(m, B, X, r.m, r.mem)
         \/ bytes < MAX_REQUEST /\ InPlaceAt(m, B, X, r.m, r.mem, nb, p)
<1>1. bytes \in Nat /\ MAX_REQUEST \in Int
  BY SizeFacts, Small
<1>2. p \in Nat /\ p # 0 /\ chunk2mem(p) # NULL /\ mem2chunk(chunk2mem(p)) = p
  BY UsedChunk
<1>3. Goes(m, m, B, B, X)
  BY GoesSelf
<1>4. CASE bytes >= MAX_REQUEST
  <2>1. r = Failure(m)
    BY <1>4 DEF dlrealloc_in_place
  <2> QED  BY <1>3, <2>1 DEF Failure, Result, Stays
<1>5. CASE bytes < MAX_REQUEST
  <2>1. PICK q : q = try_realloc_chunk(m, p, nb)
    OBVIOUS
  <2>2. r = InPlace(q, chunk2mem(p))
    BY <1>1, <1>2, <1>5, <2>1 DEF dlrealloc_in_place
  <2>3. nb \in Nat /\ Even(nb) /\ 4 <= nb
    BY <1>1, <1>5, RequestFacts
  <2>4. q = Failure(m) \/ ( /\ q.mem = p /\ Goes(m, q.m, B, B \ {p}, X)
                            /\ q.m.chunk[p].size \in AtLeast(nb))
    BY <2>1, <2>3, TryReallocGoes
  <2>5. CASE q = Failure(m)
    <3>1. q.mem = NULL /\ q.m = m
      BY <2>5 DEF Failure, Result
    <3>2. r.mem = NULL /\ r.m = m
      BY <2>2, <3>1 DEF InPlace, Result
    <3> QED  BY <1>3, <3>2 DEF Stays
  <2>6. CASE /\ q.mem = p /\ Goes(m, q.m, B, B \ {p}, X)
             /\ q.m.chunk[p].size \in AtLeast(nb)
    <3>1. q.mem # NULL
      BY <1>2, <2>6, Small
    <3>2. r.mem = chunk2mem(p) /\ r.m = q.m
      BY <2>2, <3>1 DEF InPlace, Result
    <3> QED  BY <1>5, <2>6, <3>2 DEF InPlaceAt
  <2> QED  BY <2>4, <2>5, <2>6
<1> QED  BY <1>1, <1>4, <1>5

-------------------------------------------------------------------------------
(* dlcalloc asks for the whole product or for what no allocation can give: *)
(* neither the unchecked nor the checked multiplication of the two factors *)
(* is ever taken for a smaller request (malloc.c, dlcalloc).               *)
THEOREM CallocNeverWraps ==
  \A n, m \in size_t : calloc_request(n, m) \in {n * m, MAX_SIZE_T}
<1> SUFFICES ASSUME NEW n \in size_t, NEW m \in size_t
             PROVE  calloc_request(n, m) \in {n * m, MAX_SIZE_T}
  OBVIOUS
<1>1. n \in Nat /\ m \in Nat /\ SizeRange \in Nat /\ SizeRange > 0
  BY SizeFacts DEF size_t, MAX_SIZE_T
<1>2. n * m \in Nat
  BY <1>1, ProductMonotone
<1> DEFINE req == (n * m) % SizeRange
<1>3. req \in 0 .. SizeRange - 1
  BY <1>1, <1>2
<1>4. CASE n = 0
  BY <1>4, <1>1 DEF calloc_request
<1>5. CASE n # 0 /\ n * m < SizeRange
  <2>1. req = n * m
    BY <1>1, <1>2, <1>5
  <2> QED  BY <2>1, <1>5 DEF calloc_request
<1>6. CASE n # 0 /\ n * m >= SizeRange
  <2>1. n >= Unchecked \/ m >= Unchecked
    <3>1. CASE n < Unchecked /\ m < Unchecked
      <4>1. n * m <= (Unchecked - 1) * (Unchecked - 1)
        BY <1>1, <3>1, SizeFacts, ProductMonotone
      <4>2. (Unchecked - 1) * (Unchecked - 1) < Unchecked * Unchecked
        BY <1>1, <3>1, SizeFacts
      <4> QED  BY <4>1, <4>2, <1>1, <1>2, <1>6, SizeFacts
    <3> QED  BY <3>1, <1>1, SizeFacts
  <2>2. req \div n # m
    <3> SUFFICES ASSUME req \div n = m PROVE FALSE
      OBVIOUS
    <3>1. n * (req \div n) <= req
      BY <1>1, <1>3, <1>6
    <3> QED  BY <3>1, <1>1, <1>2, <1>3, <1>6
  <2> QED  BY <2>1, <2>2, <1>6 DEF calloc_request
<1> QED  BY <1>1, <1>2, <1>4, <1>5, <1>6

(* calloc.                                                                 *)
LEMMA CallocHands ==
  ASSUME NEW m, NEW B, NEW X, Sys(m, B, X), NEW n \in size_t, NEW e \in size_t,
         NEW r, r = dlcalloc(m, n, e)
  PROVE  n * e \in Nat /\ Hands(m, B, X, r, n * e, 2)
<1>1. PICK q, t : q = calloc_request(n, e) /\ t = n * e
  OBVIOUS
<1>2. q = t \/ q = MAX_SIZE_T
  BY <1>1, CallocNeverWraps
<1>3. n \in Nat /\ e \in Nat
  BY Small
<1>4. t \in Nat
  BY <1>1, <1>3, ProductMonotone
<1>5. q \in size_t
  <2>1. SizeRange \in Nat /\ SizeRange > 0
    BY SizeFacts
  <2>2. (n * e) % SizeRange \in 0 .. SizeRange - 1
    BY <1>1, <1>4, <2>1
  <2>3. q \in {0, MAX_SIZE_T, (n * e) % SizeRange}
    BY <1>1 DEF calloc_request
  <2> QED  BY <2>1, <2>2, <2>3 DEF size_t, MAX_SIZE_T
<1>6. r = dlmalloc(m, q)
  BY <1>1 DEF dlcalloc
<1>7. Hands(m, B, X, r, q, 2)
  BY <1>5, <1>6, MallocHands
<1>8. CASE q = t
  BY <1>1, <1>4, <1>7, <1>8
<1>9. CASE q = MAX_SIZE_T
  <2>1. ~(q < MAX_REQUEST)
    BY <1>9, SizeFacts, Small
  <2>2. Refuses(m, B, X, r)
    BY <1>7, <2>1 DEF Hands
  <2> QED  BY <1>1, <1>4, <2>2 DEF Hands
<1> QED  BY <1>2, <1>8, <1>9

-------------------------------------------------------------------------------
(* What changes neither the heap nor its segments.                         *)
LEMMA SysAlike ==
  ASSUME NEW m, NEW B, NEW X, Sys(m, B, X), NEW n \in State, SameHeap(m, n), n.seg = m.seg,
         m.brk <= n.brk, NEW Y, Accounts(n, Y), Params(n), m.granularity # 0 => n.granularity # 0
  PROVE  Sys(n, B, Y)
<1>1. ~n.aborted /\ n.top = m.top
  BY DEF Sys, SameHeap, SameTop
<1>2. n.top = NULL => B = {} /\ Blank(n)
  BY <1>1 DEF Sys, Blank, SameHeap, SameBins, SameDv, SameTop
<1>3. ASSUME n.top # NULL PROVE HeapOf(n, B) /\ n.granularity # 0
  <2>1. m.top # NULL
    BY <1>1, <1>3
  <2>2. PICK z : Heap(m, z, B \cup RecordsOf(m.seg)) /\ B \cap RecordsOf(m.seg) = {}
    BY <2>1 DEF Sys, HeapOf
  <2>3. PICK U : U = B \cup RecordsOf(m.seg)
    OBVIOUS
  <2>4. Heap(m, z, U)
    BY <2>2, <2>3
  <2>5. Heap(n, z, U)
    BY <2>4, HeapAlike
  <2>6. n.granularity # 0
    BY <2>1 DEF Sys
  <2> QED  BY <2>2, <2>3, <2>5, <2>6 DEF HeapOf
<1> QED  BY <1>1, <1>2, <1>3 DEF Sys

(* A limit is set.                                                         *)
LEMMA SetLimitSys ==
  ASSUME NEW m, NEW B, NEW X, Sys(m, B, X), NEW bytes \in size_t,
         NEW n, n = dlmalloc_set_footprint_limit(m, bytes)
  PROVE  Sys(n, B, X) /\ n.chunk = m.chunk /\ n.footprint = m.footprint /\ n.brk = m.brk
<1>1. PICK limit : limit = IF bytes = MAX_SIZE_T THEN 0 ELSE granularity_align(m, bytes)
  OBVIOUS
<1>2. m \in State
  BY DEF Sys
<1>3. limit \in size_t
  <2>1. m.granularity \in size_t
    BY <1>2 DEF State
  <2>2. m.granularity \in Nat /\ bytes \in Nat /\ 0 \in size_t
    BY <2>1, Small
  <2> QED  BY <1>1, <2>2, AlignUpBounded DEF granularity_align
<1>4. n = [m EXCEPT !.footprint_limit = limit]
  BY <1>1 DEF dlmalloc_set_footprint_limit
<1>5. /\ n \in State /\ SameHeap(m, n) /\ n.seg = m.seg /\ n.brk = m.brk
      /\ n.footprint = m.footprint /\ n.max_footprint = m.max_footprint
      /\ n.granularity = m.granularity /\ n.chunk = m.chunk
  BY <1>2, <1>3, <1>4 DEF State, SameHeap, SameBins, SameDv, SameTop
<1>6. Accounts(n, X) /\ Params(n)
  <2>1. Accounts(m, X) /\ Params(m)
    BY DEF Sys
  <2>2. Accounts(n, X)
    BY <1>5, <2>1, AccountsSame
  <2> QED  BY <1>5, <2>1, <2>2 DEF Params
<1>7. m.brk <= n.brk
  <2>1. m.brk \in Addr
    BY <1>2 DEF State
  <2>2. m.brk \in Nat
    BY <2>1, Small
  <2> QED  BY <1>5, <2>2
<1>8. Sys(n, B, X)
  BY <1>5, <1>6, <1>7, SysAlike
<1> QED  BY <1>5, <1>8

(* A parameter is changed.                                                 *)
LEMMA ChangeParamSys ==
  ASSUME NEW m0, NEW B, NEW X, Sys(m0, B, X), NEW val \in size_t,
         NEW o \in {"M_TRIM_THRESHOLD", "M_GRANULARITY"},
         NEW n, n = change_mparam(m0, o, val)
  PROVE  Sys(n, B, X) /\ Keeps(m0, n, B) /\ n.footprint = m0.footprint /\ n.brk = m0.brk
<1>1. PICK m : m = ensure_initialization(m0)
  OBVIOUS
<1>2. Goes(m0, m, B, B, X) /\ m.granularity # 0 /\ m.footprint = m0.footprint /\ m.brk = m0.brk
  BY <1>1, EnsureFacts
<1>3. Sys(m, B, X) /\ Keeps(m0, m, B)
  BY <1>2 DEF Goes
<1>4. m \in State /\ Accounts(m, X) /\ Params(m)
  BY <1>3 DEF Sys
<1>5. m.brk <= m.brk
  <2>1. m.brk \in Addr
    BY <1>4 DEF State
  <2>2. m.brk \in Nat
    BY <2>1, Small
  <2> QED  BY <2>2
<1>6. ASSUME n = m PROVE Sys(n, B, X) /\ Keeps(m0, n, B) /\ n.footprint = m0.footprint /\ n.brk = m0.brk
  BY <1>2, <1>3, <1>6
<1>7. ASSUME n = [m EXCEPT !.trim_threshold = val]
      PROVE  Sys(n, B, X) /\ Keeps(m0, n, B) /\ n.footprint = m0.footprint /\ n.brk = m0.brk
  <2>1. /\ n \in State /\ SameHeap(m, n) /\ n.seg = m.seg /\ n.brk = m.brk
        /\ n.footprint = m.footprint /\ n.max_footprint = m.max_footprint
        /\ n.granularity = m.granularity /\ n.chunk = m.chunk
    BY <1>4, <1>7 DEF State, SameHeap, SameBins, SameDv, SameTop
  <2>2. Accounts(n, X)
    BY <1>4, <2>1, AccountsSame
  <2>3. Params(n)
    BY <1>4, <2>1 DEF Params
  <2>4. m.brk <= n.brk
    BY <1>5, <2>1
  <2>5. Sys(n, B, X)
    BY <1>3, <2>1, <2>2, <2>3, <2>4, SysAlike
  <2>6. Keeps(m0, n, B)
    BY <1>3, <2>1 DEF Keeps
  <2> QED  BY <1>2, <2>1, <2>5, <2>6
<1>8. ASSUME n = [m EXCEPT !.granularity = val], val >= PageSize, PowerOf2(val)
      PROVE  Sys(n, B, X) /\ Keeps(m0, n, B) /\ n.footprint = m0.footprint /\ n.brk = m0.brk
  <2>1. /\ n \in State /\ SameHeap(m, n) /\ n.seg = m.seg /\ n.brk = m.brk
        /\ n.footprint = m.footprint /\ n.max_footprint = m.max_footprint
        /\ n.granularity = val /\ n.chunk = m.chunk
    BY <1>4, <1>8 DEF State, SameHeap, SameBins, SameDv, SameTop
  <2>2. Accounts(n, X)
    BY <1>4, <2>1, AccountsSame
  <2>3. Params(n) /\ n.granularity # 0
    <3>1. val \in Nat /\ val # 0
      BY <1>8, Small, PageFacts
    <3> QED  BY <1>8, <2>1, <3>1 DEF Params
  <2>4. m.brk <= n.brk
    BY <1>5, <2>1
  <2>5. Sys(n, B, X)
    BY <1>3, <2>1, <2>2, <2>3, <2>4, SysAlike
  <2>6. Keeps(m0, n, B)
    BY <1>3, <2>1 DEF Keeps
  <2> QED  BY <1>2, <2>1, <2>5, <2>6
<1>9. CASE o = "M_TRIM_THRESHOLD"
  <2>1. n = [m EXCEPT !.trim_threshold = val]
    BY <1>1, <1>9 DEF change_mparam
  <2> QED  BY <1>7, <2>1
<1>10. CASE o = "M_GRANULARITY"
  <2>1. n = IF val >= PageSize /\ PowerOf2(val) THEN [m EXCEPT !.granularity = val] ELSE m
    BY <1>1, <1>10 DEF change_mparam
  <2> QED  BY <1>6, <1>8, <2>1
<1> QED  BY <1>9, <1>10

(* Others move the break.                                                  *)
LEMMA ForeignSys ==
  ASSUME NEW m, NEW B, NEW X, Sys(m, B, X), NEW k \in Nat, CanMove(m, k),
         NEW n, n = MORECORE(m, k), NEW Y, Y = X \cup (m.brk .. (m.brk + k) - 1)
  PROVE  Sys(n, B, Y) /\ n.chunk = m.chunk /\ n.footprint = m.footprint /\ n.brk = m.brk + k
<1>1. m \in State /\ Accounts(m, X) /\ Params(m)
  BY DEF Sys
<1>2. m.brk \in Nat /\ m.brk + k <= BrkLimit
  <2>1. m.brk \in Addr
    BY <1>1 DEF State
  <2> QED  BY <2>1, Small DEF CanMove
<1>3. m.brk + k \in Addr
  BY <1>2, Small
<1>4. OnlyBrk(m, n) /\ n.brk = m.brk + k
  BY <1>1, <1>3, MoreFacts
<1>5. /\ n \in State /\ SameHeap(m, n) /\ n.seg = m.seg
      /\ n.footprint = m.footprint /\ n.max_footprint = m.max_footprint
      /\ n.granularity = m.granularity
  BY <1>4 DEF OnlyBrk
<1>6. /\ IsFiniteSet(X) /\ X \subseteq Brk0 .. m.brk - 1
  BY <1>1, OthersFinite DEF Accounts
<1>7. Cardinality(Y) = Cardinality(X) + k /\ IsFiniteSet(Y)
  <2>1. PICK b, c : b = m.brk /\ c = (m.brk + k) - 1
    OBVIOUS
  <2>2. b \in Int /\ c \in Int /\ c - b + 1 = k
    BY <1>2, <2>1
  <2>3. IsFiniteSet(b .. c) /\ Cardinality(b .. c) = k
    <3>1. IsFiniteSet(b .. c) /\ Cardinality(b .. c) = IF b > c THEN 0 ELSE c - b + 1
      BY <2>2, FS_Interval
    <3> QED  BY <2>2, <3>1
  <2>4. X \cap (b .. c) = {}
    BY <1>2, <1>6, <2>1, Small
  <2>5. Cardinality(X) \in Nat
    BY <1>6, FS_CardinalityType
  <2>6. Y = X \cup (b .. c)
    BY <2>1
  <2>7. Cardinality(X \cap (b .. c)) = 0
    BY <2>4, FS_EmptySet
  <2>8. IsFiniteSet(Y) /\ Cardinality(Y) = Cardinality(X) + k
    <3>1. PICK I : I = b .. c
      OBVIOUS
    <3>2. /\ IsFiniteSet(I) /\ Cardinality(I) = k /\ IsFiniteSet(X)
          /\ Cardinality(X \cap I) = 0 /\ Y = X \cup I
      BY <1>6, <2>3, <2>6, <2>7, <3>1
    <3>3. IsFiniteSet(X) /\ IsFiniteSet(I)
      BY <3>2
    <3>4. /\ IsFiniteSet(X \cup I)
          /\ Cardinality(X \cup I) = Cardinality(X) + Cardinality(I) - Cardinality(X \cap I)
      BY ONLY <3>3, FS_Union
    <3>5. Cardinality(X) + k - 0 = Cardinality(X) + k
      BY <2>5
    <3> QED  BY <3>2, <3>4, <3>5
  <2> QED  BY <2>8
<1>8. Accounts(n, Y)
  <2>1. PICK O : O = Owned(m.seg)
    OBVIOUS
  <2>2. O \cup X = Brk0 .. m.brk - 1 /\ O \cap X = {} /\ Brk0 <= m.brk
        /\ m.footprint + Cardinality(X) = m.brk - Brk0 /\ m.footprint <= m.max_footprint
    BY <1>1, <2>1 DEF Accounts
  <2>3. O \subseteq Brk0 .. m.brk - 1
    BY <2>2
  <2>4. O \cup Y = Brk0 .. n.brk - 1
    <3>1. (Brk0 .. m.brk - 1) \cup (m.brk .. (m.brk + k) - 1) = Brk0 .. (m.brk + k) - 1
      BY <1>2, <2>2, Small
    <3> QED  BY <1>4, <2>2, <3>1
  <2>5. O \cap Y = {}
    BY <1>2, <2>2, <2>3, Small
  <2>6. m.footprint \in Nat /\ Cardinality(X) \in Nat
    <3>1. m.footprint \in size_t
      BY <1>1 DEF State
    <3> QED  BY <1>6, <3>1, Small, FS_CardinalityType
  <2>7. n.footprint + Cardinality(Y) = n.brk - Brk0
    <3>1. PICK x, y : x = Cardinality(X) /\ y = Cardinality(Y)
      OBVIOUS
    <3>2. y = x + k /\ x \in Nat /\ m.footprint + x = m.brk - Brk0 /\ Brk0 \in Nat
      BY <1>7, <2>2, <2>6, <3>1, Small
    <3>3. n.footprint + y = n.brk - Brk0
      BY <1>2, <1>4, <1>5, <2>6, <3>2
    <3> QED  BY <3>1, <3>3
  <2>8. Brk0 <= n.brk
    BY <1>2, <1>4, <2>2, Small
  <2> QED  BY <1>5, <2>1, <2>2, <2>4, <2>5, <2>7, <2>8 DEF Accounts
<1>9. Params(n)
  BY <1>1, <1>5 DEF Params
<1>10. m.brk <= n.brk
  BY <1>2, <1>4
<1>11. Sys(n, B, Y)
  BY <1>5, <1>8, <1>9, <1>10, SysAlike
<1> QED  BY <1>4, <1>5, <1>11 DEF SameHeap

-------------------------------------------------------------------------------
(* Two chunks of the program that are neighbours become one.               *)
LEMMA MergeFacts ==
  ASSUME NEW m, NEW z, NEW U, NEW E, Work(m, z, U, {}, {}, E), NEW p \in U, NEW r \in U,
         NoRecord(m, p), NoRecord(m, r), NEW H, Pair(H, z, p, r),
         NEW n, n = set_inuse(Erase(m, r), p, z[p] + z[r])
  PROVE  SettlesAt(m, z, n, U \ {r}, U \ {p, r}, p, Nat)
<1> DEFINE W == U \ {p, r}
           k == Erase(m, r)
           y == Join(z, p)
<1>1. H = {p, r} /\ p # r /\ p + z[p] = r
  BY DEF Pair
<1>2. Work(m, z, U \ {p}, {p}, {p}, E) /\ p \in DOMAIN z
  BY OpenUsed
<1>3. r \in DOMAIN z /\ r + z[r] \in DOMAIN z
  BY OpenUsed
<1>4. /\ Hole(m, z, U, {}, {}, E) /\ TopOK(m, z, U, {}, E) /\ DvOK(m, z, U, {})
      /\ Hole(m, z, U \ {p}, {p}, {p}, E) /\ Layout(z, m.seg, E) /\ m \in State
      /\ U \subseteq DOMAIN z
  BY <1>2 DEF Work, Hole
<1>5. Hole(m, z, W, H, H, E)
  <2>1. PICK V, G : V = U \ {p} /\ G = {p}
    OBVIOUS
  <2>2. Hole(m, z, V, G, G, E) /\ r \in V /\ \A i \in DOMAIN m.seg \ {1} : m.seg[i].record # r
    BY <1>1, <1>4, <2>1 DEF NoRecord
  <2>3. Hole(m, z, V \ {r}, G \cup {r}, G \cup {r}, E)
    BY <2>2, HoleUsed
  <2>4. V \ {r} = W /\ G \cup {r} = H
    BY <1>1, <2>1
  <2> QED  BY <2>3, <2>4
<1> HIDE DEF y, k, W
<1>6. OnlyChunks(m, k) /\ Hole(k, y, W, {p}, {p}, E) /\ Joined(y, z, p, r) /\ p + y[p] = r + z[r]
  BY <1>5, JoinHole DEF k, y
<1>7. /\ DOMAIN y = DOMAIN z \ {r} /\ y[p] = z[p] + z[r]
      /\ \A a \in DOMAIN z : a # p /\ a # r => y[a] = z[a]
  BY <1>6 DEF Joined
<1>8. p \in DOMAIN y /\ k \in State
  BY <1>1, <1>2, <1>6, <1>7 DEF OnlyChunks
<1>9. p \in Addr /\ y[p] \in size_t \ {0} /\ p + y[p] \in Addr /\ y[p] \in Nat
  BY <1>6, <1>8, HoleChunk
<1>10. n = set_inuse(k, p, y[p])
  BY <1>7 DEF k
<1>11. /\ OnlyChunks(k, n) /\ MarksUsed(k.chunk, n.chunk, p, y[p])
       /\ n.chunk[p].pinuse = k.chunk[p].pinuse
       /\ n.chunk[p].prev_foot = k.chunk[p].prev_foot
  BY <1>8, <1>9, <1>10, SetInuseFacts
<1>12. r + z[r] # r /\ p + y[p] \in DOMAIN y
  <2>1. r \in Nat /\ z[r] \in Nat /\ z[r] > 0
    BY <1>3, <1>4, HoleChunk
  <2>2. r + z[r] # r
    BY <2>1
  <2> QED  BY <1>3, <1>6, <1>7, <2>2
<1>13. Hole(n, y, W \cup {p}, {}, {}, E)
  <2>1. PICK G : G = {p}
    OBVIOUS
  <2>2. Hole(k, y, W, G, G, E) /\ p \in G
    BY <1>6, <2>1
  <2>3. Hole(n, y, W \cup {p}, G \ {p}, G \ {p}, E)
    BY <1>11, <1>12, <2>2, HoleToUsed
  <2>4. G \ {p} = {}
    BY <2>1
  <2> QED  BY <2>3, <2>4
<1>14. W \cup {p} = U \ {r}
  BY <1>1 DEF W
<1>15. OnlyChunks(m, n)
  BY <1>6, <1>11, HeaderTrans
<1>16. n.top = m.top /\ n.topsize = m.topsize /\ n.dv = m.dv /\ n.dvsize = m.dvsize
       /\ SameSystem(m, n)
  BY <1>15 DEF OnlyChunks, SameTop, SameDv
<1>17. PICK t, d : t = m.top /\ d = m.dv
  OBVIOUS
<1>18. t \in DOMAIN z \ U /\ t + z[t] = E /\ m.topsize = z[t]
  BY <1>4, <1>17 DEF TopOK
<1>19. TopOK(n, y, U \ {r}, {}, E)
  <2>1. t \in DOMAIN y /\ t # p /\ t # r /\ t \notin U
    BY <1>7, <1>18
  <2>2. y[t] = z[t]
    BY <1>7, <1>18, <2>1
  <2> QED  BY <1>16, <1>17, <1>18, <2>1, <2>2 DEF TopOK
<1>20. DvOK(n, y, U \ {r}, {})
  <2>1. CASE d = NULL
    BY <1>4, <1>16, <1>17, <2>1 DEF DvOK
  <2>2. CASE d # NULL
    <3>1. d \in DOMAIN z \ U /\ d # t /\ m.dvsize = z[d]
      BY <1>4, <1>17, <2>2 DEF DvOK
    <3>2. d \in DOMAIN y /\ d # p /\ d # r /\ y[d] = z[d]
      BY <1>7, <3>1
    <3> QED  BY <1>16, <1>17, <2>2, <3>1, <3>2 DEF DvOK
  <2> QED  BY <2>1, <2>2
<1>21. Work(n, y, U \ {r}, {}, {}, E)
  BY <1>13, <1>14, <1>19, <1>20 DEF Work
<1>22. m.top + m.topsize = E
  BY <1>17, <1>18
<1>23. p \in U \ {r} /\ \A a \in U \ {p, r} : y[a] = z[a]
  BY <1>1, <1>4, <1>7
<1> QED  BY <1>9, <1>16, <1>21, <1>22, <1>23, SettlesAtHeap

(* The same as a step of the allocator.                                    *)
Adjoins(m, p, r) == p # r /\ r = p + m.chunk[p].size
(* It is a step of the allocator. *)
LEMMA MergeGoes ==
  ASSUME NEW m, NEW B, NEW X, Sys(m, B, X), NEW p \in B, NEW r \in B, Adjoins(m, p, r),
         NEW n, n = set_inuse(Erase(m, r), p, m.chunk[p].size + m.chunk[r].size)
  PROVE  Goes(m, n, B \ {r}, B \ {p, r}, X)
<1>1. m.top # NULL
  BY DEF Sys
<1>2. PICK z, R : /\ R = RecordsOf(m.seg) /\ B \cap R = {} /\ Heap(m, z, B \cup R)
                  /\ Work(m, z, B \cup R, {}, {}, m.top + m.topsize)
                  /\ \A q \in B : NoRecord(m, q)
  BY <1>1, SysHeap
<1>3. PICK U, E, H : U = B \cup R /\ E = m.top + m.topsize /\ H = {p, r}
  OBVIOUS
<1>4. Work(m, z, U, {}, {}, E) /\ p \in U /\ NoRecord(m, p) /\ r \in U /\ NoRecord(m, r)
  BY <1>2, <1>3
<1>5. m.chunk[p].size = z[p] /\ m.chunk[r].size = z[r]
  <2>1. Heap(m, z, U)
    BY <1>2, <1>3
  <2>2. U \subseteq DOMAIN z /\ \A a \in DOMAIN z : m.chunk[a].size = z[a]
    BY <2>1, HeapSizes
  <2> QED  BY <1>4, <2>2
<1>6. Pair(H, z, p, r) /\ n = set_inuse(Erase(m, r), p, z[p] + z[r])
  BY <1>3, <1>5 DEF Pair, Adjoins
<1>7. SettlesAt(m, z, n, U \ {r}, U \ {p, r}, p, Nat)
  BY <1>4, <1>6, MergeFacts
<1>8. PICK Z, C, W, S : S = Nat /\ Z = U \ {p, r} /\ C = B \ {r} /\ W = B \ {p, r}
  OBVIOUS
<1>9. U \ {r} = C \cup R /\ W \subseteq B \cap C /\ W \subseteq Z /\ C \cap R = {}
  BY <1>2, <1>3, <1>8
<1>10. SettlesAt(m, z, n, C \cup R, Z, p, S)
  BY <1>7, <1>8, <1>9
<1>11. Goes(m, n, C, W, X)
  BY <1>1, <1>2, <1>9, <1>10, GoesSettlesAt
<1> QED  BY <1>8, <1>11

-------------------------------------------------------------------------------
(* bulk_free.  The chunks of which an array still has the addresses, and   *)
(* what is true after i elements: they are as they were or merged, and so  *)
(* are the other chunks of the program.                                    *)
Listed(array) == {p \in Nat : \E j \in DOMAIN array : array[j] = chunk2mem(p)}
ArrayOK(array) ==
    /\ array \in Seq(Nat) /\ \A j \in 1 .. Len(array) : array[j] = NULL \/ array[j] >= 2
    /\ \A j, k \in 1 .. Len(array) : array[j] = array[k] => j = k \/ array[j] = NULL
BulkOK(m, B, F, X, i, s) ==
    /\ ArrayOK(s.array) /\ \A j \in 1 .. i : s.array[j] = NULL
    /\ Listed(s.array) \subseteq F
    /\ Goes(m, s.m, (B \ F) \cup Listed(s.array), B \ F, X)

(* A chunk of the program passes the checks.                               *)
LEMMA SysPasses ==
  ASSUME NEW m, NEW B, NEW X, Sys(m, B, X), NEW p \in B
  PROVE  ok_address(m, p) /\ is_inuse(m, p)
<1>1. m.top # NULL
  BY DEF Sys
<1>2. PICK z, R : /\ R = RecordsOf(m.seg) /\ B \cap R = {} /\ Heap(m, z, B \cup R)
                  /\ \A q \in B : NoRecord(m, q)
  BY <1>1, SysHeap
<1>3. PICK U : U = B \cup R
  OBVIOUS
<1>4. Heap(m, z, U) /\ p \in U /\ NoRecord(m, p)
  BY <1>2, <1>3
<1> QED  BY <1>4, UsedPasses

(* b is the array a without the address of the chunk p.                    *)
Cleared(a, i, b, p) ==
    /\ p \in Nat /\ p \in Listed(a) /\ a[i] = chunk2mem(p)
    /\ ArrayOK(b) /\ Len(b) = Len(a) /\ b[i] = NULL
    /\ \A j \in 1 .. Len(a) : j # i => b[j] = a[j]
    /\ Listed(b) = Listed(a) \ {p}
(* An element that is cleared is listed no longer. *)
LEMMA ListedFacts ==
  ASSUME NEW a, ArrayOK(a), NEW i \in 1 .. Len(a), a[i] # NULL
  PROVE  Cleared(a, i, [a EXCEPT ![i] = NULL], mem2chunk(a[i]))
<1>0. PICK p, b : p = mem2chunk(a[i]) /\ b = [a EXCEPT ![i] = NULL]
  OBVIOUS
<1>1. a \in Seq(Nat) /\ Len(a) \in Nat /\ DOMAIN a = 1 .. Len(a) /\ NULL = 0
  BY LenProperties, Small DEF ArrayOK
<1>2. a[i] \in Nat /\ a[i] >= 2
  <2>1. a[i] >= 2
    BY DEF ArrayOK
  <2> QED  BY <1>1, <2>1, ElementOfSeq
<1>3. p \in Nat /\ a[i] = chunk2mem(p)
  BY <1>0, <1>2 DEF mem2chunk, chunk2mem
<1>4. p \in Listed(a)
  BY <1>1, <1>3 DEF Listed
<1>5. /\ b \in Seq(Nat) /\ Len(b) = Len(a)
      /\ \A j \in 1 .. Len(a) : b[j] = IF j = i THEN NULL ELSE a[j]
  BY <1>0, <1>1, ExceptSeq
<1>6. DOMAIN b = 1 .. Len(a)
  BY <1>5, LenProperties
<1>7. ArrayOK(b)
  <2>1. \A j \in 1 .. Len(b) : b[j] = NULL \/ b[j] >= 2
    BY <1>5 DEF ArrayOK
  <2>2. \A j, k \in 1 .. Len(b) : b[j] = b[k] => j = k \/ b[j] = NULL
    BY <1>5 DEF ArrayOK
  <2> QED  BY <1>5, <2>1, <2>2 DEF ArrayOK
<1>8. Listed(b) = Listed(a) \ {p}
  <2>1. ASSUME NEW q \in Listed(b) PROVE q \in Listed(a) /\ q # p
    <3>1. PICK j \in 1 .. Len(a) : b[j] = chunk2mem(q) /\ q \in Nat
      BY <1>6 DEF Listed
    <3>2. j # i
      BY <1>1, <1>5, <3>1 DEF chunk2mem
    <3>3. a[j] = chunk2mem(q)
      BY <1>5, <3>1, <3>2
    <3>4. q \in Listed(a)
      BY <1>1, <3>1, <3>3 DEF Listed
    <3>5. a[j] # a[i]
      <4>1. a[j] # NULL
        BY <1>1, <3>1, <3>3 DEF chunk2mem
      <4> QED  BY <3>2, <4>1 DEF ArrayOK
    <3> QED  BY <1>3, <3>3, <3>4, <3>5
  <2>2. ASSUME NEW q \in Listed(a), q # p PROVE q \in Listed(b)
    <3>1. PICK j \in 1 .. Len(a) : a[j] = chunk2mem(q) /\ q \in Nat
      BY <1>1 DEF Listed
    <3>2. j # i
      BY <1>0, <1>2, <1>3, <2>2, <3>1 DEF chunk2mem, mem2chunk
    <3>3. b[j] = chunk2mem(q)
      BY <1>5, <3>1, <3>2
    <3> QED  BY <1>6, <3>1, <3>3 DEF Listed
  <2> QED  BY <2>1, <2>2
<1> QED  BY <1>0, <1>3, <1>4, <1>5, <1>7, <1>8 DEF Cleared

(* One element of bulk_free.                                               *)
LEMMA BulkStepOK ==
  ASSUME NEW m \in State, NEW B, NEW X, NEW F, F \subseteq B,
         NEW s, NEW i \in 1 .. Len(s.array), BulkOK(m, B, F, X, i - 1, s),
         NEW t, t = bulk_step(s, i)
  PROVE  BulkOK(m, B, F, X, i, t) /\ Len(t.array) = Len(s.array)
<1>1. PICK a, C : a = s.array /\ C = (B \ F) \cup Listed(a)
  OBVIOUS
<1>2. /\ ArrayOK(a) /\ \A j \in 1 .. i - 1 : a[j] = NULL
      /\ Listed(a) \subseteq F
      /\ Goes(m, s.m, C, B \ F, X) /\ i \in 1 .. Len(a)
  BY <1>1 DEF BulkOK
<1>3. Len(a) \in Nat /\ i \in Nat /\ i >= 1 /\ i <= Len(a)
  <2>1. a \in Seq(Nat)
    BY <1>2 DEF ArrayOK
  <2> QED  BY <1>2, <2>1, LenProperties
<1>4. CASE a[i] = NULL
  <2>1. t = s
    BY <1>1, <1>4 DEF bulk_step
  <2>2. \A j \in 1 .. i : a[j] = NULL
    BY <1>2, <1>3, <1>4
  <2> QED  BY <1>1, <1>2, <2>1, <2>2 DEF BulkOK
<1>5. CASE a[i] # NULL
  <2>1. PICK p, b, n, k : /\ p = mem2chunk(a[i]) /\ b = [a EXCEPT ![i] = NULL] /\ n = s.m
                          /\ k = n.chunk[p].size
    OBVIOUS
  <2>2. /\ p \in Nat /\ p \in Listed(a) /\ a[i] = chunk2mem(p)
        /\ ArrayOK(b) /\ Len(b) = Len(a) /\ b[i] = NULL
        /\ \A j \in 1 .. Len(a) : j # i => b[j] = a[j]
        /\ Listed(b) = Listed(a) \ {p}
    <3>1. Cleared(a, i, [a EXCEPT ![i] = NULL], mem2chunk(a[i]))
      BY <1>2, <1>5, ListedFacts
    <3> QED  BY <2>1, <3>1 DEF Cleared
  <2>3. Sys(n, C, X) /\ p \in C
    BY <1>1, <1>2, <2>1, <2>2 DEF Goes
  <2>4. ok_address(n, p) /\ is_inuse(n, p)
    BY <2>3, SysPasses
  <2>5. k \in Nat /\ k >= 4
    BY <2>1, <2>3, UsedChunk
  <2>6. \A j \in 1 .. i : b[j] = NULL
    BY <1>2, <1>3, <2>2
  <2>7. CASE ~(i < Len(a) /\ a[i + 1] = chunk2mem(p + k))
    <3>1. t = [m |-> dispose_chunk(n, p, k), array |-> b]
      BY <1>1, <1>5, <2>1, <2>4, <2>7 DEF bulk_step, chunksize
    <3>2. PICK u, D : u = dispose_chunk(n, p, k) /\ D = C \ {p}
      OBVIOUS
    <3>3. Goes(n, u, D, D, X)
      BY <2>1, <2>3, <3>2, DisposeGoes DEF chunksize
    <3>4. D = (B \ F) \cup Listed(b) /\ B \ F \subseteq D
      BY <1>1, <1>2, <2>2, <3>2
    <3>5. Goes(n, u, D, B \ F, X)
      BY <3>3, <3>4, GoesFewer
    <3>6. Goes(m, u, D, B \ F, X)
      BY <1>2, <2>1, <3>5, GoesTrans
    <3>7. t.m = u /\ t.array = b
      BY <3>1, <3>2
    <3> QED  BY <1>1, <1>2, <2>2, <2>6, <3>4, <3>6, <3>7 DEF BulkOK
  <2>8. CASE i < Len(a) /\ a[i + 1] = chunk2mem(p + k)
    <3>1. PICK r, l : r = p + k /\ l = i + 1
      OBVIOUS
    <3>2. PICK c, u, v : /\ c = [a EXCEPT ![i] = NULL, ![l] = a[i]]
                         /\ v = k + n.chunk[r].size
                         /\ u = set_inuse(Erase(n, r), p, v)
      OBVIOUS
    <3>3. t = [m |-> u, array |-> c]
      BY <1>1, <1>5, <2>1, <2>4, <2>8, <3>1, <3>2 DEF bulk_step, chunksize
    <3>4. r \in Nat /\ r # p /\ l \in 1 .. Len(a) /\ l # i /\ l \in Nat /\ l > i
      BY <1>3, <2>2, <2>5, <2>8, <3>1
    <3>5. a[l] = chunk2mem(r) /\ a[l] # NULL /\ mem2chunk(a[l]) = r
      BY <2>8, <3>1, <3>4, Small DEF chunk2mem, mem2chunk
    <3>6. r \in Listed(a)
      BY <1>2, <3>4, <3>5, LenProperties DEF Listed, ArrayOK
    <3>7. r \in C /\ Adjoins(n, p, r)
      BY <1>1, <2>1, <3>1, <3>4, <3>6 DEF Adjoins
    <3>8. PICK D : D = C \ {r}
      OBVIOUS
    <3>9. Goes(n, u, D, C \ {p, r}, X)
      <4>1. u = set_inuse(Erase(n, r), p, n.chunk[p].size + n.chunk[r].size)
        BY <2>1, <3>2
      <4> QED  BY <2>3, <3>7, <3>8, <4>1, MergeGoes
    <3>10. B \ F \subseteq C \ {p, r} /\ B \ F \subseteq B \ F
      BY <1>1, <1>2, <2>2, <3>6
    <3>11. Goes(n, u, D, B \ F, X)
      BY <3>9, <3>10, GoesFewer
    <3>12. Goes(m, u, D, B \ F, X)
      BY <1>2, <2>1, <3>11, GoesTrans
    <3>13. /\ ArrayOK(c) /\ Len(c) = Len(a) /\ c[i] = NULL /\ c[l] = a[i]
           /\ \A j \in 1 .. Len(a) : j # i /\ j # l => c[j] = a[j]
           /\ Listed(c) = Listed(a) \ {r}
      <4>1. a \in Seq(Nat) /\ a[i] \in Nat /\ DOMAIN a = 1 .. Len(a)
        <5>1. a \in Seq(Nat)
          BY <1>2 DEF ArrayOK
        <5> QED  BY <1>2, <5>1, ElementOfSeq, LenProperties
      <4>2. /\ b \in Seq(Nat) /\ DOMAIN b = 1 .. Len(a)
        <5>1. b \in Seq(Nat)
          BY <2>2 DEF ArrayOK
        <5> QED  BY <2>2, <5>1, LenProperties
      <4>3. c = [b EXCEPT ![l] = a[i]]
        BY <2>1, <3>2, <3>4, <4>1
      <4>4. /\ c \in Seq(Nat) /\ Len(c) = Len(a)
            /\ \A j \in 1 .. Len(a) : c[j] = IF j = l THEN a[i] ELSE b[j]
        BY <2>2, <3>4, <4>1, <4>2, <4>3, ExceptSeq
      <4>5. c[i] = NULL /\ c[l] = a[i] /\ \A j \in 1 .. Len(a) : j # i /\ j # l => c[j] = a[j]
        BY <1>2, <2>2, <3>4, <4>4
      <4>6. \A j \in 1 .. Len(c) : c[j] = NULL \/ c[j] >= 2
        BY <1>2, <4>4, <4>5 DEF ArrayOK
      <4>7. \A j, h \in 1 .. Len(c) : c[j] = c[h] => j = h \/ c[j] = NULL
        <5> SUFFICES ASSUME NEW j \in 1 .. Len(a), NEW h \in 1 .. Len(a), c[j] = c[h],
                            c[j] # NULL
                     PROVE  j = h
          BY <4>4
        <5>1. j # i /\ h # i
          BY <4>5
        <5>2. \A w, x \in 1 .. Len(a) : a[w] = a[x] => w = x \/ a[w] = NULL
          BY <1>2 DEF ArrayOK
        <5>3. CASE j = l /\ h = l
          BY <5>3
        <5>4. CASE j = l /\ h # l
          <6>1. a[h] = a[i] /\ a[h] # NULL
            BY <4>5, <5>1, <5>4
          <6> QED  BY <1>2, <5>1, <5>2, <6>1
        <5>5. CASE j # l /\ h = l
          <6>1. a[j] = a[i] /\ a[j] # NULL
            BY <4>5, <5>1, <5>5
          <6> QED  BY <1>2, <5>1, <5>2, <6>1
        <5>6. CASE j # l /\ h # l
          <6>1. a[j] = a[h] /\ a[j] # NULL
            BY <4>5, <5>1, <5>6
          <6> QED  BY <5>2, <6>1
        <5> QED  BY <5>3, <5>4, <5>5, <5>6
      <4>8. ArrayOK(c)
        BY <4>4, <4>6, <4>7 DEF ArrayOK
      <4>9. DOMAIN c = 1 .. Len(a)
        BY <4>4, LenProperties
      <4>10. ASSUME NEW q \in Listed(c) PROVE q \in Listed(a) /\ q # r
        <5>1. PICK j \in 1 .. Len(a) : c[j] = chunk2mem(q) /\ q \in Nat
          BY <4>9, <4>10 DEF Listed
        <5>2. j # i
          BY <4>5, <5>1, Small DEF chunk2mem
        <5>3. CASE j = l
          <6>1. q = p
            BY <2>2, <4>5, <5>1, <5>3 DEF chunk2mem
          <6> QED  BY <2>2, <3>4, <6>1
        <5>4. CASE j # l
          <6>1. a[j] = chunk2mem(q)
            BY <4>5, <5>1, <5>2, <5>4
          <6>2. q \in Listed(a)
            BY <4>1, <5>1, <6>1 DEF Listed
          <6>3. a[j] # a[l]
            BY <1>2, <3>4, <3>5, <5>4 DEF ArrayOK
          <6> QED  BY <3>5, <6>1, <6>2, <6>3
        <5> QED  BY <5>3, <5>4
      <4>11. ASSUME NEW q \in Listed(a), q # r PROVE q \in Listed(c)
        <5>1. PICK j \in 1 .. Len(a) : a[j] = chunk2mem(q) /\ q \in Nat
          BY <4>1, <4>11 DEF Listed
        <5>2. CASE j = i
          BY <3>4, <4>5, <4>9, <5>1, <5>2 DEF Listed
        <5>3. CASE j # i
          <6>1. j # l
            BY <3>4, <3>5, <4>11, <5>1 DEF chunk2mem
          <6>2. c[j] = chunk2mem(q)
            BY <4>5, <5>1, <5>3, <6>1
          <6> QED  BY <4>9, <5>1, <6>2 DEF Listed
        <5> QED  BY <5>2, <5>3
      <4> QED  BY <4>4, <4>5, <4>8, <4>10, <4>11
    <3>14. D = (B \ F) \cup Listed(c)
      BY <1>1, <1>2, <3>6, <3>8, <3>13
    <3>15. \A j \in 1 .. i : c[j] = NULL
      BY <1>2, <1>3, <3>4, <3>13
    <3>16. t.m = u /\ t.array = c
      BY <3>3
    <3> QED  BY <1>1, <1>2, <3>12, <3>13, <3>14, <3>15, <3>16 DEF BulkOK
  <2> QED  BY <2>7, <2>8
<1> QED  BY <1>4, <1>5

-------------------------------------------------------------------------------
(* All elements of bulk_free: the recursion is well founded, and what is   *)
(* true after each element is true at the end.                             *)
BulkStates == [m : State, array : Seq(Nat)]
(* The states between two elements are states. *)
LEMMA BulkOKState ==
  ASSUME NEW m, NEW B, NEW F, NEW X, NEW i, NEW s, BulkOK(m, B, F, X, i, s), NEW a, NEW k,
         s = [m |-> k, array |-> a]
  PROVE  s \in BulkStates
<1>1. k \in State /\ a \in Seq(Nat)
  BY DEF BulkOK, Goes, Sys, ArrayOK
<1> QED  BY <1>1 DEF BulkStates

BulkRecord(s) == s = [m |-> s.m, array |-> s.array]
(* An element leaves a record of the two fields. *)
LEMMA BulkStepRecord ==
  ASSUME NEW s, BulkRecord(s), NEW i
  PROVE  BulkRecord(bulk_step(s, i))
<1>1. PICK k, a : s = [m |-> k, array |-> a]
  BY DEF BulkRecord
<1>2. CASE bulk_step(s, i) = s
  BY <1>2
<1>3. CASE \E n : bulk_step(s, i) = [s EXCEPT !.m = n]
  BY <1>1, <1>3 DEF BulkRecord
<1>4. CASE \E n, b : bulk_step(s, i) = [m |-> n, array |-> b]
  BY <1>4 DEF BulkRecord
<1>5. \/ bulk_step(s, i) = s
      \/ \E n : bulk_step(s, i) = [s EXCEPT !.m = n]
      \/ \E n, b : bulk_step(s, i) = [m |-> n, array |-> b]
  <2>1. PICK p, k1, next : /\ p = mem2chunk(s.array[i]) /\ k1 = chunksize(s.m, p)
                           /\ next = p + k1
    OBVIOUS
  <2>2. PICK n1, n2, n3 : /\ n1 = set_inuse(Erase(s.m, next), p, k1 + chunksize(s.m, next))
                          /\ n2 = dispose_chunk(s.m, p, k1) /\ n3 = Abort(s.m)
    OBVIOUS
  <2>3. PICK b1, b2 : /\ b1 = [s.array EXCEPT ![i] = NULL, ![i + 1] = s.array[i]]
                      /\ b2 = [s.array EXCEPT ![i] = NULL]
    OBVIOUS
  <2>4. \/ bulk_step(s, i) = s
        \/ bulk_step(s, i) = [s EXCEPT !.m = n3]
        \/ bulk_step(s, i) = [m |-> n1, array |-> b1]
        \/ bulk_step(s, i) = [m |-> n2, array |-> b2]
    <3>1. bulk_step(s, i) =
             IF s.array[i] = NULL THEN s
             ELSE IF ~(ok_address(s.m, p) /\ is_inuse(s.m, p)) THEN [s EXCEPT !.m = n3]
             ELSE IF i < Len(s.array) /\ s.array[i + 1] = chunk2mem(next)
             THEN [m |-> n1, array |-> b1]
             ELSE [m |-> n2, array |-> b2]
      BY <2>1, <2>2, <2>3 DEF bulk_step
    <3> QED  BY <3>1
  <2> QED  BY <2>4
<1> QED  BY <1>2, <1>3, <1>4, <1>5

(* bulk_free of chunks of the program gives them all back.                 *)
LEMMA BulkFreeGoes ==
  ASSUME NEW m, NEW B, NEW X, Sys(m, B, X), NEW array, ArrayOK(array),
         NEW F, F = Listed(array), F \subseteq B,
         NEW n, n = internal_bulk_free(m, array)
  PROVE  Goes(m, n, B \ F, B \ F, X)
<1> DEFINE K == Len(array)
           s0 == [m |-> m, array |-> array]
           OK(i, s) == BulkOK(m, B, F, X, i, s) /\ Len(s.array) = K /\ s \in BulkStates
           body(f) == [i \in 0 .. K |-> IF i = 0 THEN s0 ELSE bulk_step(f[i - 1], i)]
           step == [i \in 1 .. K |-> [s \in BulkStates |->
                       IF OK(i - 1, s) THEN bulk_step(s, i) ELSE s]]
<1>1. K \in Nat /\ array \in Seq(Nat) /\ m \in State
  <2>1. array \in Seq(Nat)
    BY DEF ArrayOK
  <2>2. m \in State
    BY DEF Sys
  <2> QED  BY <2>1, <2>2, LenProperties
<1>2. PICK F0 : F0 = F
  OBVIOUS
<1>3. OK(0, s0)
  <2>1. s0 \in BulkStates
    BY <1>1 DEF BulkStates
  <2>2. (B \ F) \cup Listed(array) = B /\ Listed(array) \subseteq F
    OBVIOUS
  <2>3. Goes(m, m, B, B \ F, X)
    BY GoesSelf
  <2>4. s0.m = m /\ s0.array = array
    OBVIOUS
  <2>5. \A j \in 1 .. 0 : s0.array[j] = NULL
    OBVIOUS
  <2>6. BulkOK(m, B, F, X, 0, s0)
    <3> HIDE DEF s0
    <3> QED  BY <2>2, <2>3, <2>4, <2>5 DEF BulkOK
  <2> QED  BY <2>1, <2>4, <2>6
<1> HIDE DEF K, s0
<1>4. ASSUME NEW i \in 1 .. K, NEW s, OK(i - 1, s) PROVE OK(i, bulk_step(s, i))
  <2>1. PICK t : t = bulk_step(s, i)
    OBVIOUS
  <2>2. s \in BulkStates /\ BulkOK(m, B, F, X, i - 1, s) /\ i \in 1 .. Len(s.array)
        /\ Len(s.array) = K /\ F \subseteq B
    BY <1>4
  <2>3. BulkOK(m, B, F, X, i, t) /\ Len(t.array) = Len(s.array)
    BY <1>1, <2>1, <2>2, BulkStepOK
  <2>4. BulkRecord(t)
    <3>1. BulkRecord(s)
      BY <2>2 DEF BulkStates, BulkRecord
    <3> QED  BY <2>1, <3>1, BulkStepRecord
  <2>5. t \in BulkStates
    <3>1. PICK k, a : k = t.m /\ a = t.array
      OBVIOUS
    <3>2. t = [m |-> k, array |-> a]
      BY <2>4, <3>1 DEF BulkRecord
    <3> QED  BY <2>3, <3>2, BulkOKState
  <2> QED  BY <2>1, <2>2, <2>3, <2>5
<1> HIDE DEF OK
<1>5. \A i, s : OK(i, s) => s \in BulkStates
  BY DEF OK
<1>6. step \in StepFunctions(BulkStates, K)
  BY <1>4, <1>5 DEF StepFunctions
<1>7. PICK f : IsRecursion(f, BulkStates, K, s0, step)
  <2> HIDE DEF step
  <2> QED  BY <1>1, <1>3, <1>5, <1>6, Recursion
<1>8. \A i \in 1 .. K : i \in 0 .. K /\ i - 1 \in 0 .. K /\ i # 0
  BY <1>1
<1>9. f[0] = s0 /\ f \in [0 .. K -> BulkStates]
      /\ \A i \in 1 .. K : f[i] = IF OK(i - 1, f[i - 1]) THEN bulk_step(f[i - 1], i) ELSE f[i - 1]
  BY <1>7, <1>8 DEF IsRecursion
<1>10. \A i \in 0 .. K : OK(i, f[i])
  <2> DEFINE T == {i \in 0 .. K : OK(i, f[i])}
  <2>1. 0 \in T
    BY <1>1, <1>3, <1>9
  <2>2. ASSUME NEW i \in 1 .. K, i - 1 \in T PROVE i \in T
    BY <1>4, <1>8, <1>9, <2>2
  <2> HIDE DEF T
  <2>3. \A i \in 0 .. K : i \in T
    BY <1>1, <2>1, <2>2, IntervalInduction
  <2> QED  BY <2>3 DEF T
<1>11. f = body(f)
  <2>1. \A i \in 0 .. K : f[i] = body(f)[i]
    <3>1. \A i \in 0 .. K : i = 0 \/ i \in 1 .. K
      BY <1>1
    <3>2. \A i \in 1 .. K : f[i] = bulk_step(f[i - 1], i)
      BY <1>8, <1>9, <1>10
    <3> QED  BY <1>9, <3>1, <3>2
  <2>2. body(f) = [i \in 0 .. K |-> body(f)[i]]
    OBVIOUS
  <2> HIDE DEF body
  <2> QED  BY <1>9, <2>1, <2>2
<1> DEFINE after == CHOOSE g : g = body(g)
<1>12. after = body(after)
  <2> HIDE DEF body
  <2> QED  BY <1>11
<1>13. n = TrimIfLarge(after[K].m)
  BY DEF internal_bulk_free, K, s0
<1> HIDE DEF after
<1>14. \A i \in 0 .. K : OK(i, after[i])
  <2> DEFINE T == {i \in 0 .. K : OK(i, after[i])}
  <2>1. 0 \in T
    <3>1. 0 \in 0 .. K
      BY <1>1
    <3>2. after[0] = s0
      BY <1>12, <3>1
    <3> QED  BY <1>3, <3>1, <3>2
  <2>2. ASSUME NEW i \in 1 .. K, i - 1 \in T PROVE i \in T
    <3>1. i \in 0 .. K /\ i # 0 /\ OK(i - 1, after[i - 1])
      BY <1>8, <2>2
    <3>2. after[i] = bulk_step(after[i - 1], i)
      BY <1>12, <3>1
    <3> QED  BY <1>4, <3>1, <3>2
  <2> HIDE DEF T
  <2>3. \A i \in 0 .. K : i \in T
    BY <1>1, <2>1, <2>2, IntervalInduction
  <2> QED  BY <2>3 DEF T
<1>15. PICK s : s = after[K]
  OBVIOUS
<1>16. BulkOK(m, B, F, X, K, s) /\ Len(s.array) = K
  <2>1. K \in 0 .. K
    BY <1>1
  <2> QED  BY <1>14, <1>15, <2>1 DEF OK
<1>17. Listed(s.array) = {}
  <2>1. PICK a : a = s.array
    OBVIOUS
  <2>2. a \in Seq(Nat) /\ \A j \in 1 .. K : a[j] = NULL
    BY <1>16, <2>1 DEF BulkOK, ArrayOK
  <2>3. DOMAIN a = 1 .. K
    BY <1>16, <2>1, <2>2, LenProperties
  <2> QED  BY <2>1, <2>2, <2>3, Small DEF Listed, chunk2mem
<1>18. PICK k, C : k = s.m /\ C = B \ F
  OBVIOUS
<1>19. Goes(m, k, C, C, X)
  BY <1>16, <1>17, <1>18 DEF BulkOK
<1>20. Goes(k, n, C, C, X)
  <2>1. Sys(k, C, X)
    BY <1>19 DEF Goes
  <2>2. n = TrimIfLarge(k)
    BY <1>13, <1>15, <1>18
  <2> QED  BY <2>1, <2>2, TrimIfLargeGoes
<1>21. Goes(m, n, C, C, X)
  BY <1>1, <1>19, <1>20, GoesTrans
<1> QED  BY <1>18, <1>21

-------------------------------------------------------------------------------
(* n is m with the chunk p of s words in use cut in two after k, at q, both*)
(* in use.                                                                 *)
CutAt(m, n, p, q, k, s) ==
    /\ OnlyChunks(m, n) /\ n.chunk \in [Addr -> HeaderSet] /\ q = p + k
    /\ n.chunk[p] = UsedHeader(k) /\ n.chunk[q] = UsedHeader(s - k)
    /\ \A a \in Addr \ {p, q} : n.chunk[a] = m.chunk[a]
(* It is a heap again. *)
LEMMA CutAtFacts ==
  ASSUME NEW m, NEW z, NEW U, NEW E, Work(m, z, U, {}, {}, E), NEW p \in U, NoRecord(m, p),
         m.chunk[p].pinuse, NEW k \in Nat, Even(k), 4 <= k, k + 4 <= z[p],
         NEW n, NEW q, CutAt(m, n, p, q, k, z[p])
  PROVE  q \notin U /\ SettlesAt(m, z, n, U \cup {q}, U \ {p}, q, Nat)
<1> DEFINE V == U \ {p}
           y == Cut(z, p, k)
           size == z[p] - k
           i == set_size_and_pinuse_of_inuse_chunk(m, q, size)
<1>0. q = p + k
  BY DEF CutAt
<1>1. /\ Work(m, z, V, {p}, {p}, E) /\ p \in DOMAIN z /\ p + z[p] \in DOMAIN z
      /\ m.chunk[p + z[p]].pinuse
  BY OpenUsed
<1>2. /\ Hole(m, z, V, {p}, {p}, E) /\ TopOK(m, z, V, {p}, E) /\ DvOK(m, z, V, {p})
      /\ m \in State /\ V \subseteq DOMAIN z
  BY <1>1 DEF Work, Hole
<1>3. p \in Nat /\ z[p] \in Nat /\ p + z[p] \in Addr /\ NULL \notin DOMAIN z
      /\ z[p] \in size_t /\ p \in Addr
  BY <1>1, <1>2, HoleChunk
<1>4. /\ 0 < k /\ k < z[p] /\ z[p] - k >= 4 /\ size \in Nat /\ size >= 4
      /\ q + size = p + z[p] /\ q \in Nat
  BY <1>0, <1>3
<1>7. size \in size_t \ {0} /\ k \in size_t \ {0} /\ q \in Addr /\ q + size \in Addr /\ p # q
      /\ q + size # q /\ q + size # p
  BY <1>0, <1>3, <1>4, Small, SMTT(40)
<1>8. IsCut(y, z, p, k, q)
  <2>1. IsCut(Cut(z, p, k), z, p, k, p + k)
    BY <1>1, <1>2, <1>4, CutOne
  <2> QED  BY <1>0, <2>1
<1>10. Hole(m, y, V, {p, q}, {p, q}, E)
  <2>1. PICK H : H = {p}
    OBVIOUS
  <2>2. Hole(m, z, V, H, H, E) /\ p \in H
    BY <1>2, <2>1
  <2>3. Hole(m, Cut(z, p, k), V, H \cup {p + k}, H \cup {p + k}, E)
    BY <1>4, <2>2, HoleCut
  <2>4. H \cup {p + k} = {p, q}
    BY <1>0, <2>1
  <2> QED  BY <2>3, <2>4
<1> HIDE DEF y, i, V, size
<1>9. /\ DOMAIN y = DOMAIN z \cup {q} /\ q \notin DOMAIN z
      /\ y[p] = k /\ y[q] = size
      /\ \A a \in DOMAIN z : a # p => y[a] = z[a]
  BY <1>8 DEF IsCut, size
<1>12. Hole(i, y, V \cup {q}, {p}, {p}, E) /\ OnlyChunks(m, i) /\ i.chunk[q] = UsedHeader(size)
       /\ i.chunk \in [Addr -> HeaderSet] /\ \A a \in Addr \ {q} : i.chunk[a] = m.chunk[a]
  <2>1. /\ OnlyChunks(m, i) /\ i.chunk \in [Addr -> HeaderSet]
        /\ i.chunk[q] = UsedHeader(size)
        /\ \A a \in Addr \ {q} : i.chunk[a] = m.chunk[a]
    BY <1>2, <1>7, SetSizeOfInuseFacts DEF i
  <2>2. PICK H : H = {p, q}
    OBVIOUS
  <2>3. Hole(m, y, V, H, H, E) /\ q \in H /\ q + y[q] \in DOMAIN y
    BY <1>1, <1>4, <1>9, <1>10, <2>2
  <2>4. UsedHeader(size).size = size /\ UsedHeader(size).cinuse /\ UsedHeader(size).pinuse
    BY DEF UsedHeader, Header
  <2>5. m.chunk[q + size].pinuse
    BY <1>1, <1>4
  <2>6. MarksUsed(m.chunk, i.chunk, q, y[q])
    BY <1>7, <1>9, <2>1, <2>4, <2>5 DEF MarksUsed
  <2>7. p + y[p] = q /\ p \in H \cap DOMAIN y
    BY <1>0, <1>1, <1>9, <2>2
  <2>8. MaySet(m.chunk, y, H, q)
    BY <2>7 DEF MaySet
  <2>9. i.chunk[q].pinuse
    BY <2>1, <2>4
  <2>10. Hole(i, y, V \cup {q}, H \ {q}, H \ {q}, E)
    BY <2>1, <2>3, <2>6, <2>8, <2>9, HoleToUsed
  <2>11. H \ {q} = {p}
    BY <1>7, <2>2
  <2> QED  BY <2>1, <2>10, <2>11
<1>13. /\ OnlyChunks(m, n) /\ n.chunk \in [Addr -> HeaderSet]
       /\ n.chunk[p] = UsedHeader(k) /\ n.chunk[q] = UsedHeader(size)
       /\ \A a \in Addr \ {p, q} : n.chunk[a] = m.chunk[a]
  BY DEF CutAt, size
<1>14. OnlyChunks(i, n)
  BY <1>12, <1>13 DEF OnlyChunks, SameSystem, SameBins, SameDv, SameTop
<1>15. MarksUsed(i.chunk, n.chunk, p, k)
  <2>1. UsedHeader(size).pinuse /\ UsedHeader(k).size = k /\ UsedHeader(k).cinuse
    BY DEF UsedHeader, Header
  <2>2. p + k = q /\ n.chunk[q] = i.chunk[q] /\ n.chunk[q].pinuse
    BY <1>0, <1>12, <1>13, <2>1
  <2>3. \A a \in Addr \ {p, q} : n.chunk[a] = i.chunk[a]
    BY <1>12, <1>13
  <2>4. n.chunk[p].size = k /\ n.chunk[p].cinuse
    BY <1>13, <2>1
  <2> QED  BY <1>13, <2>2, <2>3, <2>4 DEF MarksUsed
<1>16. n.chunk[p].pinuse /\ i.chunk[p].pinuse
  <2>1. UsedHeader(k).pinuse
    BY DEF UsedHeader, Header
  <2>2. i.chunk[p] = m.chunk[p]
    BY <1>3, <1>7, <1>12
  <2> QED  BY <1>13, <2>1, <2>2
<1>17. Hole(n, y, U \cup {q}, {}, {}, E)
  <2>1. PICK G : G = {p}
    OBVIOUS
  <2>2. Hole(i, y, V \cup {q}, G, G, E) /\ p \in G /\ p + y[p] \in DOMAIN y
    BY <1>0, <1>9, <1>12, <2>1
  <2>3. MarksUsed(i.chunk, n.chunk, p, y[p]) /\ MaySet(i.chunk, y, G, p)
    BY <1>9, <1>15, <1>16 DEF MaySet
  <2>4. Hole(n, y, (V \cup {q}) \cup {p}, G \ {p}, G \ {p}, E)
    BY <1>14, <1>16, <2>2, <2>3, HoleToUsed
  <2>5. (V \cup {q}) \cup {p} = U \cup {q} /\ G \ {p} = {}
    BY <2>1 DEF V
  <2> QED  BY <2>4, <2>5
<1>18. n.top = m.top /\ n.topsize = m.topsize /\ n.dv = m.dv /\ n.dvsize = m.dvsize
       /\ SameSystem(m, n)
  BY <1>13 DEF OnlyChunks, SameTop, SameDv
<1>19. PICK t, d : t = m.top /\ d = m.dv
  OBVIOUS
<1>20. t \in DOMAIN z \ U /\ t + z[t] = E /\ m.topsize = z[t]
  BY <1>2, <1>19 DEF TopOK, V
<1>21. TopOK(n, y, U \cup {q}, {}, E)
  <2>1. t \in DOMAIN y /\ t # p /\ t # q /\ t \notin U /\ y[t] = z[t]
    BY <1>9, <1>20
  <2> QED  BY <1>18, <1>19, <1>20, <2>1 DEF TopOK
<1>22. DvOK(n, y, U \cup {q}, {})
  <2>1. CASE d = NULL
    BY <1>2, <1>18, <1>19, <2>1 DEF DvOK
  <2>2. CASE d # NULL
    <3>1. d \in DOMAIN z \ U /\ d # t /\ m.dvsize = z[d]
      BY <1>2, <1>19, <2>2 DEF DvOK, V
    <3>2. d \in DOMAIN y /\ d # p /\ d # q /\ y[d] = z[d]
      BY <1>9, <3>1
    <3> QED  BY <1>18, <1>19, <2>2, <3>1, <3>2 DEF DvOK
  <2> QED  BY <2>1, <2>2
<1>23. Work(n, y, U \cup {q}, {}, {}, E)
  BY <1>17, <1>21, <1>22 DEF Work
<1>24. m.top + m.topsize = E
  BY <1>19, <1>20
<1>25. q \in U \cup {q} /\ y[q] \in Nat /\ \A a \in U \ {p} : y[a] = z[a]
  BY <1>2, <1>4, <1>9 DEF V
<1>26. q \notin U
  BY <1>1, <1>2, <1>9 DEF V
<1>27. SettlesAt(m, z, n, U \cup {q}, U \ {p}, q, Nat)
  BY <1>18, <1>23, <1>24, <1>25, SettlesAtHeap
<1> QED  BY <1>26, <1>27

(* The same as a step of the allocator.                                    *)
LEMMA CutAtGoes ==
  ASSUME NEW m, NEW B, NEW X, Sys(m, B, X), NEW p \in B, m.chunk[p].pinuse,
         NEW k \in Nat, Even(k), 4 <= k, k + 4 <= m.chunk[p].size,
         NEW n, NEW q, CutAt(m, n, p, q, k, m.chunk[p].size)
  PROVE  q \notin B /\ Goes(m, n, B \cup {q}, B \ {p}, X)
<1>1. m.top # NULL
  BY DEF Sys
<1>2. PICK z, R : /\ R = RecordsOf(m.seg) /\ B \cap R = {} /\ Heap(m, z, B \cup R)
                  /\ Work(m, z, B \cup R, {}, {}, m.top + m.topsize)
                  /\ \A a \in B : NoRecord(m, a)
  BY <1>1, SysHeap
<1>3. PICK U, E : U = B \cup R /\ E = m.top + m.topsize
  OBVIOUS
<1>4. Work(m, z, U, {}, {}, E) /\ p \in U /\ NoRecord(m, p)
  BY <1>2, <1>3
<1>5. m.chunk[p].size = z[p]
  <2>1. Heap(m, z, U)
    BY <1>2, <1>3
  <2>2. U \subseteq DOMAIN z /\ \A a \in DOMAIN z : m.chunk[a].size = z[a]
    BY <2>1, HeapSizes
  <2> QED  BY <1>4, <2>2
<1>6. k + 4 <= z[p] /\ CutAt(m, n, p, q, k, z[p])
  BY <1>5
<1>7. q \notin U /\ SettlesAt(m, z, n, U \cup {q}, U \ {p}, q, Nat)
  BY <1>4, <1>6, CutAtFacts
<1>8. PICK Z, C, W, S : S = Nat /\ Z = U \ {p} /\ C = B \cup {q} /\ W = B \ {p}
  OBVIOUS
<1>9. U \cup {q} = C \cup R /\ W \subseteq B \cap C /\ W \subseteq Z /\ C \cap R = {}
  BY <1>2, <1>3, <1>7, <1>8
<1>10. SettlesAt(m, z, n, C \cup R, Z, q, S)
  BY <1>7, <1>8, <1>9
<1>11. Goes(m, n, C, W, X)
  BY <1>1, <1>2, <1>9, <1>10, GoesSettlesAt
<1> QED  BY <1>3, <1>7, <1>8, <1>11

-------------------------------------------------------------------------------
(* The header of a chunk in use is written once more.                      *)
Rewritten(m, n, p) ==
    /\ OnlyChunks(m, n) /\ n.chunk \in [Addr -> HeaderSet]
    /\ n.chunk[p] = UsedHeader(m.chunk[p].size)
    /\ \A a \in Addr \ {p} : n.chunk[a] = m.chunk[a]
(* It is a step that keeps all sizes. *)
LEMMA RewrittenGoes ==
  ASSUME NEW m, NEW B, NEW X, Sys(m, B, X), NEW p \in B, m.chunk[p].pinuse,
         NEW n, Rewritten(m, n, p)
  PROVE  Goes(m, n, B, B, X)
<1>1. m.top # NULL
  BY DEF Sys
<1>2. PICK z, R : /\ R = RecordsOf(m.seg) /\ B \cap R = {} /\ Heap(m, z, B \cup R)
                  /\ Work(m, z, B \cup R, {}, {}, m.top + m.topsize)
                  /\ \A a \in B : NoRecord(m, a)
  BY <1>1, SysHeap
<1>3. PICK U, E, V : U = B \cup R /\ E = m.top + m.topsize /\ V = U \ {p}
  OBVIOUS
<1>4. Work(m, z, U, {}, {}, E) /\ p \in U /\ NoRecord(m, p)
  BY <1>2, <1>3
<1>5. /\ Work(m, z, U \ {p}, {p}, {p}, E) /\ m.chunk[p].size = z[p]
      /\ p \in DOMAIN z /\ p + z[p] \in DOMAIN z /\ m.chunk[p + z[p]].pinuse
  BY <1>4, OpenUsed
<1>6. Hole(m, z, V, {p}, {p}, E) /\ TopOK(m, z, V, {p}, E) /\ DvOK(m, z, V, {p})
  BY <1>3, <1>5 DEF Work
<1>7. p \in Addr /\ p \in Nat /\ z[p] \in Nat /\ z[p] > 0 /\ p + z[p] \in Addr
  BY <1>5, <1>6, HoleChunk
<1>8. OnlyChunks(m, n) /\ n.chunk[p].size = z[p] /\ n.chunk[p].cinuse /\ n.chunk[p].pinuse
      /\ n.chunk \in [Addr -> HeaderSet] /\ \A a \in Addr : a # p => n.chunk[a] = m.chunk[a]
  BY <1>5 DEF Rewritten, UsedHeader, Header
<1>9. MarksUsed(m.chunk, n.chunk, p, z[p])
  <2>1. p + z[p] # p
    BY <1>7
  <2>2. n.chunk[p + z[p]] = m.chunk[p + z[p]]
    BY <1>7, <1>8, <2>1
  <2> QED  BY <1>5, <1>8, <2>2 DEF MarksUsed
<1>10. Hole(n, z, U, {}, {}, E)
  <2>1. PICK G : G = {p}
    OBVIOUS
  <2>2. Hole(m, z, V, G, G, E) /\ p \in G /\ MaySet(m.chunk, z, G, p)
    BY <1>6, <2>1 DEF MaySet
  <2>3. Hole(n, z, V \cup {p}, G \ {p}, G \ {p}, E)
    BY <1>5, <1>8, <1>9, <2>2, HoleToUsed
  <2>4. V \cup {p} = U /\ G \ {p} = {}
    BY <1>3, <1>4, <2>1
  <2> QED  BY <2>3, <2>4
<1>11. n.top = m.top /\ n.topsize = m.topsize /\ n.dv = m.dv /\ n.dvsize = m.dvsize
       /\ SameSystem(m, n)
  BY <1>8 DEF OnlyChunks, SameTop, SameDv
<1>12. TopOK(n, z, U, {}, E) /\ DvOK(n, z, U, {})
  <2>1. TopOK(m, z, U, {}, E) /\ DvOK(m, z, U, {})
    BY <1>4 DEF Work
  <2> QED  BY <1>11, <2>1 DEF TopOK, DvOK
<1>13. Work(n, z, U, {}, {}, E)
  BY <1>10, <1>12 DEF Work
<1>14. PICK b, W, S : b = p /\ W = B /\ S = Nat
  OBVIOUS
<1>15. m.top + m.topsize = E /\ b \in U /\ z[b] \in S /\ \A a \in W : z[a] = z[a]
  BY <1>3, <1>4, <1>7, <1>14
<1>16. SettlesAt(m, z, n, U, W, b, S)
  BY <1>11, <1>13, <1>15, SettlesAtHeap
<1>17. SettlesAt(m, z, n, B \cup R, W, b, S) /\ W \subseteq B \cap B /\ W \subseteq W
  BY <1>3, <1>14, <1>16
<1>18. Goes(m, n, B, W, X)
  BY <1>1, <1>2, <1>17, GoesSettlesAt
<1> QED  BY <1>14, <1>18

-------------------------------------------------------------------------------
(* Where the pieces of a chunk at p begin, of which there are k, and what  *)
(* is written when the first j of them have been cut off, all but the last *)
(* of them from the rest.                                                  *)
IsOffsets(at, k, whole) ==
    /\ k \in Nat /\ k >= 1 /\ whole \in Nat
    /\ at[1] = 0 /\ \A i \in 1 .. k : at[i] \in Nat /\ Even(at[i]) /\ at[i] + 4 <= whole
    /\ \A i, j \in 1 .. k : i < j => at[i] + 4 <= at[j]
Pieces(p, at, j) == {p + at[i] : i \in 1 .. j}
CutInto(m, n, p, at, j, whole) ==
    /\ OnlyChunks(m, n) /\ n.chunk \in [Addr -> HeaderSet]
    /\ \A i \in 1 .. j - 1 : n.chunk[p + at[i]] = UsedHeader(at[i + 1] - at[i])
    /\ n.chunk[p + at[j]] = UsedHeader(whole - at[j])
    /\ \A a \in Addr \ Pieces(p, at, j) : n.chunk[a] = m.chunk[a]
CutGoes(m, n, B, p, at, j, X) ==
    /\ Goes(m, n, B \cup Pieces(p, at, j), B \ {p}, X)
    /\ Pieces(p, at, j) \cap (B \ {p}) = {}
(* The pieces are in memory and apart. *)
LEMMA PieceFacts ==
  ASSUME NEW at, NEW k, NEW whole, IsOffsets(at, k, whole), NEW p \in Nat, p + whole \in Addr
  PROVE  /\ \A i \in 1 .. k : /\ p + at[i] \in Addr /\ p + at[i] \in Nat
                              /\ p + at[i] + (whole - at[i]) = p + whole
                              /\ whole - at[i] \in Nat /\ whole - at[i] >= 4
                              /\ whole - at[i] \in size_t
         /\ \A i, j \in 1 .. k : i # j => p + at[i] # p + at[j]
         /\ Pieces(p, at, 1) = {p}
<1>1. /\ k \in Nat /\ k >= 1 /\ whole \in Nat
      /\ at[1] = 0 /\ \A i \in 1 .. k : at[i] \in Nat /\ at[i] + 4 <= whole
      /\ \A i, j \in 1 .. k : i < j => at[i] + 4 <= at[j]
  BY DEF IsOffsets
<1>2. Pieces(p, at, 1) = {p}
  BY <1>1 DEF Pieces
<1>3. ASSUME NEW i \in 1 .. k
      PROVE  /\ p + at[i] \in Addr /\ p + at[i] \in Nat
             /\ p + at[i] + (whole - at[i]) = p + whole
             /\ whole - at[i] \in Nat /\ whole - at[i] >= 4
             /\ whole - at[i] \in size_t
  <2>1. at[i] \in Nat /\ at[i] + 4 <= whole
    BY <1>1
  <2>2. p + whole <= BrkLimit /\ BrkLimit <= MAX_SIZE_T /\ BrkLimit \in Nat /\ MAX_SIZE_T \in Nat
    BY Small
  <2>3. p + at[i] \in 0 .. BrkLimit /\ whole - at[i] \in 0 .. MAX_SIZE_T
    BY <1>1, <2>1, <2>2
  <2> QED  BY <1>1, <2>1, <2>3, Small, SMTT(40)
<1>4. ASSUME NEW i \in 1 .. k, NEW j \in 1 .. k, i # j PROVE p + at[i] # p + at[j]
  BY <1>1, <1>4
<1> QED  BY <1>2, <1>3, <1>4

-------------------------------------------------------------------------------
(* One more piece is cut off.                                              *)
LEMMA CutIntoStep ==
  ASSUME NEW m, NEW B, NEW X, NEW p \in Nat, NEW at, NEW k, NEW whole, IsOffsets(at, k, whole),
         p + whole \in Addr, m \in State,
         NEW j \in 1 .. k - 1,
         \A n : CutInto(m, n, p, at, j, whole) => CutGoes(m, n, B, p, at, j, X),
         p \in B,
         NEW n, CutInto(m, n, p, at, j + 1, whole)
  PROVE  CutGoes(m, n, B, p, at, j + 1, X)
<1>1. /\ k \in Nat /\ j \in 1 .. k /\ j + 1 \in 1 .. k /\ j \in Nat /\ j >= 1
      /\ \A i \in 1 .. k : at[i] \in Nat /\ Even(at[i]) /\ at[i] + 4 <= whole
      /\ at[j] + 4 <= at[j + 1]
  <2>1. k \in Nat /\ \A i \in 1 .. k : at[i] \in Nat /\ Even(at[i]) /\ at[i] + 4 <= whole
    BY DEF IsOffsets
  <2>2. j \in 1 .. k /\ j + 1 \in 1 .. k /\ j \in Nat /\ j >= 1 /\ j < j + 1
    BY <2>1
  <2>3. at[j] + 4 <= at[j + 1]
    BY <2>2 DEF IsOffsets
  <2> QED  BY <2>1, <2>2, <2>3
<1>2. /\ \A i \in 1 .. k : /\ p + at[i] \in Addr /\ p + at[i] \in Nat
                           /\ whole - at[i] \in Nat /\ whole - at[i] >= 4
                           /\ whole - at[i] \in size_t
      /\ \A i, h \in 1 .. k : i # h => p + at[i] # p + at[h]
  BY PieceFacts
<1>3. PICK q, r, c, s : /\ q = p + at[j] /\ r = p + at[j + 1] /\ c = at[j + 1] - at[j]
                        /\ s = whole - at[j]
  OBVIOUS
<1>4. /\ q \in Addr /\ r \in Addr /\ q # r /\ r = q + c /\ c \in Nat /\ 4 <= c /\ s \in size_t
      /\ c + 4 <= s /\ s - c = whole - at[j + 1] /\ q \in Nat
  <2>1. at[j] \in Nat /\ at[j + 1] \in Nat /\ at[j + 1] + 4 <= whole /\ whole \in Nat
    BY <1>1 DEF IsOffsets
  <2>2. q \in Addr /\ r \in Addr /\ q # r /\ s \in size_t /\ q \in Nat
    BY <1>1, <1>2, <1>3
  <2> QED  BY <1>1, <1>3, <2>1, <2>2
<1>5. Even(c)
  <2>1. at[j] \in Int /\ at[j + 1] \in Int /\ Even(at[j]) /\ Even(at[j + 1])
    BY <1>1
  <2>2. Even(at[j]) /\ Even(at[j + 1]) => Even(at[j + 1] - at[j])
    BY <2>1, EvenSum
  <2> QED  BY <1>3, <2>1, <2>2
<1>6. /\ OnlyChunks(m, n) /\ n.chunk \in [Addr -> HeaderSet]
      /\ \A i \in 1 .. j : n.chunk[p + at[i]] = UsedHeader(at[i + 1] - at[i])
      /\ n.chunk[r] = UsedHeader(s - c)
      /\ \A a \in Addr \ Pieces(p, at, j + 1) : n.chunk[a] = m.chunk[a]
  BY <1>1, <1>3, <1>4 DEF CutInto
<1>7. n.chunk[q] = UsedHeader(c)
  BY <1>1, <1>3, <1>6
<1>8. PICK P : P = Pieces(p, at, j)
  OBVIOUS
<1>9. Pieces(p, at, j + 1) = P \cup {r} /\ q \in P
  BY <1>1, <1>3, <1>8 DEF Pieces
<1>10. PICK h : h = [a \in Addr |-> IF a = q THEN UsedHeader(s)
                                    ELSE IF a = r THEN m.chunk[r] ELSE n.chunk[a]]
  OBVIOUS
<1>11. h \in [Addr -> HeaderSet]
  <2>1. UsedHeader(s) \in HeaderSet
    <3>1. s \in size_t /\ 0 \in size_t
      BY <1>4, Small
    <3> QED  BY <3>1 DEF UsedHeader, Header, HeaderSet
  <2>2. m.chunk[r] \in HeaderSet
    BY <1>4 DEF State
  <2> QED  BY <1>6, <1>10, <2>1, <2>2
<1>12. PICK n0 : n0 = WithChunks(n, h)
  OBVIOUS
<1>13. /\ n0 \in State /\ n0.chunk = h /\ OnlyChunks(m, n0) /\ OnlyChunks(n0, n)
  <2>1. n \in State
    BY <1>6 DEF OnlyChunks
  <2>2. /\ n0 \in State /\ n0.chunk = h /\ SameSystem(n, n0) /\ SameBins(n, n0)
        /\ SameDv(n, n0) /\ SameTop(n, n0)
    BY <1>11, <1>12, <2>1, WithChunksFacts
  <2>3. OnlyChunks(m, n0)
    BY <1>6, <2>2 DEF OnlyChunks, SameSystem, SameBins, SameDv, SameTop
  <2>4. OnlyChunks(n0, n)
    BY <2>1, <2>2 DEF OnlyChunks, SameSystem, SameBins, SameDv, SameTop
  <2> QED  BY <2>2, <2>3, <2>4
<1>14. CutInto(m, n0, p, at, j, whole)
  <2>1. \A i \in 1 .. j - 1 : n0.chunk[p + at[i]] = UsedHeader(at[i + 1] - at[i])
    <3> SUFFICES ASSUME NEW i \in 1 .. j - 1
                 PROVE  n0.chunk[p + at[i]] = UsedHeader(at[i + 1] - at[i])
      OBVIOUS
    <3>1. i \in 1 .. k /\ i \in 1 .. j /\ i # j /\ i # j + 1
      BY <1>1
    <3>2. p + at[i] # q /\ p + at[i] # r /\ p + at[i] \in Addr
      BY <1>1, <1>2, <1>3, <3>1
    <3>3. n0.chunk[p + at[i]] = n.chunk[p + at[i]]
      BY <1>10, <1>13, <3>2
    <3> QED  BY <1>6, <3>1, <3>3
  <2>2. n0.chunk[p + at[j]] = UsedHeader(whole - at[j])
    BY <1>3, <1>4, <1>10, <1>13
  <2>3. ASSUME NEW a \in Addr \ P PROVE n0.chunk[a] = m.chunk[a]
    BY <1>6, <1>9, <1>10, <1>13
  <2> QED  BY <1>8, <1>11, <1>13, <2>1, <2>2, <2>3 DEF CutInto
<1>15. CutGoes(m, n0, B, p, at, j, X)
  BY <1>14
<1>16. PICK C, W : C = B \cup P /\ W = B \ {p}
  OBVIOUS
<1>17. Goes(m, n0, C, W, X) /\ P \cap W = {}
  BY <1>8, <1>15, <1>16 DEF CutGoes
<1>18. CutAt(n0, n, q, r, c, n0.chunk[q].size) /\ n0.chunk[q].pinuse /\ n0.chunk[q].size = s
  <2>1. n0.chunk[q] = UsedHeader(s)
    BY <1>4, <1>10, <1>13
  <2>2. n0.chunk[q].size = s /\ n0.chunk[q].pinuse
    BY <2>1 DEF UsedHeader, Header
  <2>3. ASSUME NEW a \in Addr \ {q, r} PROVE n.chunk[a] = n0.chunk[a]
    BY <1>10, <1>13
  <2> QED  BY <1>4, <1>6, <1>7, <1>13, <2>2, <2>3 DEF CutAt
<1>19. Sys(n0, C, X) /\ q \in C
  BY <1>9, <1>16, <1>17 DEF Goes
<1>20. c + 4 <= n0.chunk[q].size
  BY <1>4, <1>18
<1>21. r \notin C /\ Goes(n0, n, C \cup {r}, C \ {q}, X)
  BY <1>4, <1>5, <1>18, <1>19, <1>20, CutAtGoes
<1>22. W \subseteq C \ {q}
  BY <1>9, <1>16, <1>17
<1>23. PICK D : D = C \cup {r}
  OBVIOUS
<1>24. Goes(n0, n, D, W, X)
  BY <1>21, <1>22, <1>23, GoesFewer
<1>25. Goes(m, n, D, W, X)
  BY <1>17, <1>24, GoesTrans
<1>26. D = B \cup Pieces(p, at, j + 1)
  BY <1>9, <1>16, <1>23
<1>27. Pieces(p, at, j + 1) \cap W = {}
  BY <1>9, <1>16, <1>17, <1>21
<1> QED  BY <1>16, <1>25, <1>26, <1>27 DEF CutGoes

(* A chunk in use is cut into pieces in use.                               *)
LEMMA CutIntoGoes ==
  ASSUME NEW m, NEW B, NEW X, Sys(m, B, X), NEW p \in B, m.chunk[p].pinuse,
         NEW at, NEW k, NEW whole, IsOffsets(at, k, whole), whole = m.chunk[p].size,
         NEW n, CutInto(m, n, p, at, k, whole)
  PROVE  CutGoes(m, n, B, p, at, k, X)
<1>1. p \in Nat /\ p + m.chunk[p].size <= BrkLimit /\ m.chunk[p].size \in Nat
  BY UsedChunk
<1>2. p + m.chunk[p].size \in Addr
  BY <1>1, Small
<1>3. PICK w : w = whole
  OBVIOUS
<1>4. /\ IsOffsets(at, k, w) /\ p + w \in Addr /\ m \in State /\ w = m.chunk[p].size
      /\ CutInto(m, n, p, at, k, w)
  BY <1>2, <1>3 DEF Sys
<1>5. k \in Nat /\ k >= 1
  BY <1>4 DEF IsOffsets
<1> DEFINE Claim(j) == \A i : CutInto(m, i, p, at, j, w) => CutGoes(m, i, B, p, at, j, X)
           T == {j \in 0 .. k - 1 : Claim(j + 1)}
<1>6. 0 \in T
  <2> SUFFICES ASSUME NEW i, CutInto(m, i, p, at, 1, w) PROVE CutGoes(m, i, B, p, at, 1, X)
    BY <1>5
  <2>1. Pieces(p, at, 1) = {p} /\ at[1] = 0 /\ w \in Nat
    <3>1. Pieces(p, at, 1) = {p}
      BY <1>1, <1>4, PieceFacts
    <3>2. at[1] = 0 /\ w \in Nat
      BY <1>4 DEF IsOffsets
    <3> QED  BY <3>1, <3>2
  <2>2. p + at[1] = p /\ w - at[1] = w
    BY <1>1, <2>1
  <2>3. Rewritten(m, i, p)
    BY <1>4, <2>1, <2>2 DEF CutInto, Rewritten
  <2>4. Goes(m, i, B, B, X)
    BY <2>3, RewrittenGoes
  <2>5. PICK W : W = B \ {p}
    OBVIOUS
  <2>6. W \subseteq B /\ B \cup {p} = B /\ {p} \cap W = {}
    BY <2>5
  <2>7. Goes(m, i, B, W, X)
    BY <2>4, <2>6, GoesFewer
  <2> QED  BY <2>1, <2>5, <2>6, <2>7 DEF CutGoes
<1>7. ASSUME NEW j \in 1 .. k - 1, j - 1 \in T PROVE j \in T
  <2>1. Claim((j - 1) + 1) /\ (j - 1) + 1 = j /\ j \in 0 .. k - 1
    BY <1>5, <1>7
  <2>2. Claim(j)
    BY <2>1
  <2>3. ASSUME NEW i, CutInto(m, i, p, at, j + 1, w) PROVE CutGoes(m, i, B, p, at, j + 1, X)
    BY <1>1, <1>4, <2>2, <2>3, CutIntoStep
  <2>4. Claim(j + 1)
    BY <2>3
  <2> QED  BY <2>1, <2>4
<1>8. k - 1 \in T
  <2> HIDE DEF T
  <2>1. k - 1 \in Nat
    BY <1>5
  <2>2. \A j \in 0 .. k - 1 : j \in T
    BY <1>6, <1>7, <2>1, IntervalInduction
  <2>3. k - 1 \in 0 .. k - 1
    BY <1>5
  <2> QED  BY <2>2, <2>3
<1>9. Claim((k - 1) + 1) /\ (k - 1) + 1 = k
  BY <1>5, <1>8
<1>10. Claim(k)
  BY <1>9
<1> QED  BY <1>4, <1>10

-------------------------------------------------------------------------------
(* Where the elements of an aggregate begin.                               *)
IsTotals(at, sizes, n) ==
    /\ n \in Nat /\ at[1] = 0 /\ \A i \in 1 .. n + 1 : at[i] \in Nat /\ Even(at[i])
    /\ \A i \in 1 .. n : at[i + 1] = at[i] + request2size(sizes[i])
    /\ \A i, j \in 1 .. n + 1 : i < j => at[i] + 4 <= at[j]
Requests == 0 .. MAX_REQUEST - 1
(* The function of the code adds the chunk sizes up. *)
LEMMA OffsetsFacts ==
  ASSUME NEW sizes \in Seq(Requests)
  PROVE  IsTotals(offsets(sizes), sizes, Len(sizes))
<1> DEFINE n == Len(sizes)
           need(i) == request2size(sizes[i])
           body(f) == [i \in 1 .. n + 1 |-> IF i = 1 THEN 0 ELSE f[i - 1] + need(i - 1)]
           step == [i \in 1 .. n |-> [x \in Nat |-> x + need(i)]]
<1>1. n \in Nat /\ \A i \in 1 .. n : sizes[i] \in Requests
  BY LenProperties, ElementOfSeq
<1>2. offsets(sizes) = CHOOSE f : f = [i \in 1 .. n + 1 |->
                                 IF i = 1 THEN 0 ELSE f[i - 1] + need(i - 1)]
  BY DEF offsets
<1> HIDE DEF n
<1>3. \A i \in 1 .. n : need(i) \in Nat /\ Even(need(i)) /\ need(i) >= 4
  <2> SUFFICES ASSUME NEW i \in 1 .. n PROVE need(i) \in Nat /\ Even(need(i)) /\ need(i) >= 4
    OBVIOUS
  <2>1. PICK req : req = sizes[i]
    OBVIOUS
  <2>2. req \in Nat /\ req < MAX_REQUEST
    <3>1. req \in 0 .. MAX_REQUEST - 1 /\ MAX_REQUEST \in Nat
      BY <1>1, <2>1, Small, SizeFacts DEF Requests
    <3> QED  BY <3>1
  <2>3. request2size(req) \in Nat /\ Even(request2size(req)) /\ 4 <= request2size(req)
    BY <2>2, RequestFacts
  <2> QED  BY <2>1, <2>3
<1> HIDE DEF need
<1>4. step \in StepFunctions(Nat, n)
  BY <1>3 DEF StepFunctions
<1>5. PICK g : IsRecursion(g, Nat, n, 0, step)
  <2> HIDE DEF step
  <2> QED  BY <1>1, <1>4, Recursion
<1>6. g[0] = 0 /\ \A i \in 1 .. n : g[i] = g[i - 1] + need(i)
  <2>1. \A i \in 1 .. n : i - 1 \in 0 .. n
    BY <1>1
  <2> QED  BY <1>5, <2>1 DEF IsRecursion
<1> DEFINE f0 == [i \in 1 .. n + 1 |-> g[i - 1]]
<1>7. f0 = body(f0)
  <2>1. ASSUME NEW i \in 1 .. n + 1 PROVE f0[i] = body(f0)[i]
    <3>1. CASE i = 1
      BY <1>6, <3>1
    <3>2. CASE i # 1
      <4>1. i - 1 \in 1 .. n /\ i - 1 \in 1 .. n + 1 /\ i - 1 \in Nat
        BY <1>1, <3>2
      <4>2. f0[i] = g[i - 1] /\ f0[i - 1] = g[(i - 1) - 1]
        BY <4>1
      <4>3. g[i - 1] = g[(i - 1) - 1] + need(i - 1)
        BY <1>6, <4>1
      <4>4. body(f0)[i] = f0[i - 1] + need(i - 1)
        BY <3>2
      <4> QED  BY <4>2, <4>3, <4>4
    <3> QED  BY <3>1, <3>2
  <2>2. body(f0) = [i \in 1 .. n + 1 |-> body(f0)[i]] /\ f0 = [i \in 1 .. n + 1 |-> f0[i]]
    OBVIOUS
  <2> HIDE DEF body, f0
  <2> QED  BY <2>1, <2>2
<1> DEFINE at == CHOOSE f : f = body(f)
<1>8. at = body(at)
  <2> HIDE DEF body
  <2> QED  BY <1>7
<1>9. offsets(sizes) = at
  BY <1>2
<1> HIDE DEF at
<1>10. at[1] = 0
  <2>1. 1 \in 1 .. n + 1
    BY <1>1
  <2> QED  BY <1>8, <2>1
<1>11. \A i \in 1 .. n : at[i + 1] = at[i] + need(i)
  <2> SUFFICES ASSUME NEW i \in 1 .. n PROVE at[i + 1] = at[i] + need(i)
    OBVIOUS
  <2>1. i + 1 \in 1 .. n + 1 /\ i + 1 # 1 /\ (i + 1) - 1 = i
    BY <1>1
  <2>2. at[i + 1] = at[(i + 1) - 1] + need((i + 1) - 1)
    BY <1>8, <2>1
  <2> QED  BY <2>1, <2>2
<1> DEFINE T == {j \in 0 .. n : /\ at[j + 1] \in Nat /\ Even(at[j + 1])
                                /\ \A i \in 1 .. n + 1 : i < j + 1 => at[i] \in Nat /\ at[i] + 4 <= at[j + 1]}
<1>12. 0 \in T
  <2>1. at[0 + 1] = 0 /\ Even(0)
    BY <1>10 DEF Even
  <2>2. \A i \in 1 .. n + 1 : ~(i < 0 + 1)
    BY <1>1
  <2> QED  BY <1>1, <2>1, <2>2
<1>13. ASSUME NEW j \in 1 .. n, j - 1 \in T PROVE j \in T
  <2>1. (j - 1) + 1 = j /\ j \in 0 .. n
    BY <1>1
  <2>2. /\ at[j] \in Nat /\ Even(at[j])
        /\ \A i \in 1 .. n + 1 : i < j => at[i] \in Nat /\ at[i] + 4 <= at[j]
    BY <1>13, <2>1
  <2>3. at[j + 1] = at[j] + need(j) /\ need(j) \in Nat /\ Even(need(j)) /\ need(j) >= 4
    BY <1>3, <1>11
  <2>4. Even(at[j + 1])
    <3>1. at[j] \in Int /\ need(j) \in Int
      BY <2>2, <2>3
    <3> QED  BY <2>2, <2>3, <3>1, EvenSum
  <2>5. \A i \in 1 .. n + 1 : i < j + 1 => at[i] \in Nat /\ at[i] + 4 <= at[j + 1]
    <3> SUFFICES ASSUME NEW i \in 1 .. n + 1, i < j + 1
                 PROVE at[i] \in Nat /\ at[i] + 4 <= at[j + 1]
      OBVIOUS
    <3>1. CASE i = j
      BY <2>2, <2>3, <3>1
    <3>2. CASE i < j
      <4>1. at[i] + 4 <= at[j] /\ at[i] \in Int
        BY <2>2, <3>2
      <4> QED  BY <2>2, <2>3, <4>1
    <3> QED  BY <1>1, <3>1, <3>2
  <2> QED  BY <2>1, <2>2, <2>3, <2>4, <2>5
<1>14. \A j \in 0 .. n : j \in T
  <2> HIDE DEF T
  <2> QED  BY <1>1, <1>12, <1>13, IntervalInduction
<1>15. ASSUME NEW j \in 1 .. n + 1
       PROVE  /\ at[j] \in Nat /\ Even(at[j])
              /\ \A i \in 1 .. n + 1 : i < j => at[i] + 4 <= at[j]
  <2>1. j - 1 \in 0 .. n /\ (j - 1) + 1 = j
    BY <1>1
  <2> QED  BY <1>14, <2>1
<1>16. IsTotals(at, sizes, n)
  <2> HIDE DEF T
  <2> QED  BY <1>1, <1>10, <1>11, <1>15 DEF IsTotals, need
<1> QED  BY <1>9, <1>16 DEF n

-------------------------------------------------------------------------------
(* How long a piece is, and what is written when those of D have been cut. *)
PieceLen(at, k, whole, j) == (IF j = k THEN whole ELSE at[j + 1]) - at[j]
CutSome(m, s, p, at, k, whole, D) ==
    /\ OnlyChunks(m, s) /\ s.chunk \in [Addr -> HeaderSet]
    /\ \A j \in D : s.chunk[p + at[j]] = UsedHeader(PieceLen(at, k, whole, j))
    /\ \A a \in Addr \ Pieces(p, at, k) : s.chunk[a] = m.chunk[a]
(* The length of a piece is a size. *)
LEMMA PieceLenFacts ==
  ASSUME NEW at, NEW k, NEW whole, IsOffsets(at, k, whole), NEW p \in Nat, p + whole \in Addr,
         NEW j \in 1 .. k
  PROVE  PieceLen(at, k, whole, j) \in size_t
<1>1. /\ k \in Nat /\ whole \in Nat /\ \A i \in 1 .. k : at[i] \in Nat /\ at[i] + 4 <= whole
      /\ \A i, l \in 1 .. k : i < l => at[i] + 4 <= at[l]
  BY DEF IsOffsets
<1>2. whole <= MAX_SIZE_T /\ MAX_SIZE_T \in Nat
  <2>1. p + whole <= BrkLimit /\ BrkLimit <= MAX_SIZE_T /\ BrkLimit \in Nat /\ MAX_SIZE_T \in Nat
    BY Small
  <2> QED  BY <1>1, <2>1
<1>3. CASE j = k
  <2>1. whole - at[j] \in 0 .. MAX_SIZE_T
    BY <1>1, <1>2
  <2> QED  BY <1>3, <2>1, Small DEF PieceLen
<1>4. CASE j # k
  <2>1. j \in 1 .. k /\ j + 1 \in 1 .. k /\ j < j + 1
    BY <1>1, <1>4
  <2>2. at[j] \in Nat /\ at[j + 1] \in Nat /\ at[j] + 4 <= at[j + 1] /\ at[j + 1] + 4 <= whole
    BY <1>1, <2>1
  <2>3. at[j + 1] - at[j] \in 0 .. MAX_SIZE_T
    BY <1>1, <1>2, <2>2
  <2> QED  BY <1>4, <2>3, Small DEF PieceLen
<1> QED  BY <1>3, <1>4

(* One more piece gets its header.                                         *)
LEMMA CutSomeStep ==
  ASSUME NEW m, NEW at, NEW k, NEW whole, IsOffsets(at, k, whole), NEW p \in Nat,
         p + whole \in Addr,
         NEW D, D \subseteq 1 .. k, NEW s, CutSome(m, s, p, at, k, whole, D),
         NEW j \in 1 .. k,
         NEW t, t = set_size_and_pinuse_of_inuse_chunk(s, p + at[j], PieceLen(at, k, whole, j))
  PROVE  CutSome(m, t, p, at, k, whole, D \cup {j})
<1>1. PICK q, l : q = p + at[j] /\ l = PieceLen(at, k, whole, j)
  OBVIOUS
<1>2. /\ \A i \in 1 .. k : p + at[i] \in Addr
      /\ \A i \in 1 .. k : i # j => p + at[i] # p + at[j]
  BY PieceFacts
<1>3. q \in Addr
  BY <1>1, <1>2
<1>4. l \in size_t
  BY <1>1, PieceLenFacts
<1>5. /\ OnlyChunks(m, s) /\ s.chunk \in [Addr -> HeaderSet]
      /\ \A i \in D : s.chunk[p + at[i]] = UsedHeader(PieceLen(at, k, whole, i))
      /\ \A a \in Addr \ Pieces(p, at, k) : s.chunk[a] = m.chunk[a]
  BY DEF CutSome
<1>6. s \in State
  BY <1>5 DEF OnlyChunks
<1>7. t = set_size_and_pinuse_of_inuse_chunk(s, q, l)
  BY <1>1
<1>8. OnlyChunks(s, t) /\ t.chunk \in [Addr -> HeaderSet]
  BY <1>3, <1>4, <1>6, <1>7, SetSizeOfInuseFacts
<1>9. t.chunk[q] = UsedHeader(l)
  BY <1>3, <1>4, <1>6, <1>7, SetSizeOfInuseFacts
<1>10. \A a \in Addr \ {q} : t.chunk[a] = s.chunk[a]
  BY <1>3, <1>4, <1>6, <1>7, SetSizeOfInuseFacts
<1>11. OnlyChunks(m, t)
  BY <1>5, <1>8 DEF OnlyChunks, SameSystem, SameBins, SameDv, SameTop
<1>12. \A i \in D \cup {j} : t.chunk[p + at[i]] = UsedHeader(PieceLen(at, k, whole, i))
  <2> SUFFICES ASSUME NEW i \in D \cup {j}
               PROVE t.chunk[p + at[i]] = UsedHeader(PieceLen(at, k, whole, i))
    OBVIOUS
  <2>1. CASE i = j
    BY <1>1, <1>9, <2>1
  <2>2. CASE i # j
    <3>1. PICK b : b = p + at[i]
      OBVIOUS
    <3>2. i \in D /\ i \in 1 .. k
      BY <2>2
    <3>3. b \in Addr /\ b # q
      BY <1>1, <1>2, <2>2, <3>1, <3>2
    <3>4. t.chunk[b] = s.chunk[b]
      BY <1>10, <3>3
    <3>5. s.chunk[b] = UsedHeader(PieceLen(at, k, whole, i))
      BY <1>5, <3>1, <3>2
    <3> QED  BY <3>1, <3>4, <3>5
  <2> QED  BY <2>1, <2>2
<1>13. \A a \in Addr \ Pieces(p, at, k) : t.chunk[a] = m.chunk[a]
  <2>1. q \in Pieces(p, at, k)
    BY <1>1 DEF Pieces
  <2> QED  BY <1>5, <1>10, <2>1
<1> QED  BY <1>8, <1>11, <1>12, <1>13 DEF CutSome

(* When all have been cut, the chunk is in pieces.                         *)
LEMMA CutSomeAll ==
  ASSUME NEW m, NEW at, NEW k, NEW whole, IsOffsets(at, k, whole), NEW p,
         NEW s, CutSome(m, s, p, at, k, whole, 1 .. k)
  PROVE  CutInto(m, s, p, at, k, whole)
<1>1. k \in Nat /\ k >= 1
  BY DEF IsOffsets
<1>2. k \in 1 .. k /\ \A j \in 1 .. k - 1 : j \in 1 .. k /\ j # k
  BY <1>1
<1>3. \A j \in 1 .. k : s.chunk[p + at[j]] = UsedHeader(PieceLen(at, k, whole, j))
  BY DEF CutSome
<1>4. s.chunk[p + at[k]] = UsedHeader(whole - at[k])
  BY <1>2, <1>3 DEF PieceLen
<1>5. \A j \in 1 .. k - 1 : s.chunk[p + at[j]] = UsedHeader(at[j + 1] - at[j])
  BY <1>2, <1>3 DEF PieceLen
<1> QED  BY <1>4, <1>5 DEF CutInto, CutSome

-------------------------------------------------------------------------------
(* The aggregate chunk is cut into its pieces.                             *)
NumberOfPieces(n, given) == IF given THEN n ELSE n + 1
(* CutUp writes these headers and returns these addresses. *)
LEMMA CutUpInto ==
  ASSUME NEW m \in State, NEW p \in Nat, NEW sizes, Len(sizes) \in Nat, Len(sizes) >= 1,
         NEW given \in BOOLEAN, NEW at, at = offsets(sizes),
         NEW k, k = NumberOfPieces(Len(sizes), given), NEW whole, whole = m.chunk[p].size,
         IsOffsets(at, k, whole), p + whole \in Addr,
         NEW r, r = CutUp(m, p, sizes, given)
  PROVE  /\ CutInto(m, r.m, p, at, k, whole)
         /\ r.mems = [i \in 1 .. Len(sizes) |-> chunk2mem(p + at[i])]
         /\ r.array = IF given THEN NULL ELSE chunk2mem(p + at[Len(sizes) + 1])
<1> DEFINE cutpiece(s, a, l) == set_size_and_pinuse_of_inuse_chunk(s, a, l)
<1>1. PICK n : n = Len(sizes)
  OBVIOUS
<1>2. PICK used, array : /\ array = p + at[n + 1]
                         /\ used = IF given THEN whole ELSE at[n + 1]
  OBVIOUS
<1>3. PICK s0 : s0 = IF given THEN m ELSE cutpiece(m, array, whole - at[n + 1])
  OBVIOUS
<1>4. n \in Nat /\ n >= 1 /\ (given => k = n) /\ (~given => k = n + 1)
  BY <1>1 DEF NumberOfPieces
<1> DEFINE Done(i) == IF given THEN 1 .. i ELSE 1 .. i \cup {k}
           OK(i, s) == CutSome(m, s, p, at, k, whole, Done(i)) /\ s \in State
           body(f) == [i \in 0 .. n |->
               IF i = 0 THEN s0
               ELSE cutpiece(f[i - 1], p + at[i], (IF i = n THEN used ELSE at[i + 1]) - at[i])]
           cut == CHOOSE f : f = body(f)
           step == [i \in 1 .. n |-> [s \in State |->
               IF OK(i - 1, s) THEN cutpiece(s, p + at[i], PieceLen(at, k, whole, i)) ELSE s]]
<1>5. r = [m |-> cut[n], mems |-> [i \in 1 .. n |-> chunk2mem(p + at[i])],
           array |-> IF given THEN NULL ELSE chunk2mem(array)]
  <2>1. whole = chunksize(m, p)
    BY DEF chunksize
  <2> QED  BY <1>1, <1>2, <1>3, <2>1 DEF CutUp
<1>6. r.m = cut[n] /\ r.mems = [i \in 1 .. n |-> chunk2mem(p + at[i])]
      /\ r.array = IF given THEN NULL ELSE chunk2mem(array)
  <2> HIDE DEF cut
  <2> QED  BY <1>5
<1> HIDE DEF cutpiece, cut, step, body
<1>7. ASSUME NEW s, NEW D, CutSome(m, s, p, at, k, whole, D) PROVE s \in State
  BY <1>7 DEF CutSome, OnlyChunks
<1>8. CutSome(m, m, p, at, k, whole, {})
  <2>1. m.chunk \in [Addr -> HeaderSet] /\ OnlyChunks(m, m)
    BY DEF State, OnlyChunks, SameSystem, SameBins, SameDv, SameTop
  <2> QED  BY <2>1 DEF CutSome
<1>9. ASSUME NEW D, D \subseteq 1 .. k, NEW s, CutSome(m, s, p, at, k, whole, D), NEW j \in 1 .. k
      PROVE  CutSome(m, cutpiece(s, p + at[j], PieceLen(at, k, whole, j)), p, at, k, whole,
                     D \cup {j})
  <2>1. PICK t : t = set_size_and_pinuse_of_inuse_chunk(s, p + at[j], PieceLen(at, k, whole, j))
    OBVIOUS
  <2>2. CutSome(m, t, p, at, k, whole, D \cup {j})
    BY <1>9, <2>1, CutSomeStep
  <2> QED  BY <2>1, <2>2 DEF cutpiece
<1>10. OK(0, s0)
  <2>1. CASE given
    <3>1. Done(0) = {} /\ s0 = m
      BY <1>3, <2>1
    <3> QED  BY <1>8, <3>1
  <2>2. CASE ~given
    <3>1. k \in 1 .. k /\ PieceLen(at, k, whole, k) = whole - at[n + 1] /\ at[k] = at[n + 1]
      BY <1>4, <2>2 DEF PieceLen
    <3>2. s0 = cutpiece(m, p + at[k], PieceLen(at, k, whole, k))
      BY <1>2, <1>3, <2>2, <3>1
    <3>3. CutSome(m, s0, p, at, k, whole, {} \cup {k})
      BY <1>8, <1>9, <3>1, <3>2
    <3>4. Done(0) = {} \cup {k}
      BY <2>2
    <3> QED  BY <1>7, <3>3, <3>4
  <2> QED  BY <2>1, <2>2
<1>11. ASSUME NEW i \in 1 .. n, NEW s, OK(i - 1, s)
       PROVE  OK(i, cutpiece(s, p + at[i], PieceLen(at, k, whole, i)))
  <2>1. PICK t : t = cutpiece(s, p + at[i], PieceLen(at, k, whole, i))
    OBVIOUS
  <2>2. i \in 1 .. k /\ 1 .. (i - 1) \subseteq 1 .. k /\ k \in 1 .. k
        /\ 1 .. i = (1 .. (i - 1)) \cup {i}
    BY <1>4
  <2>3. Done(i - 1) \subseteq 1 .. k /\ Done(i) = Done(i - 1) \cup {i}
    BY <2>2
  <2> HIDE DEF Done
  <2>4. CutSome(m, t, p, at, k, whole, Done(i - 1) \cup {i})
    BY <1>9, <1>11, <2>1, <2>2, <2>3
  <2> QED  BY <1>7, <2>1, <2>3, <2>4
<1>12. \A i \in 1 .. n : (IF i = n THEN used ELSE at[i + 1]) - at[i] = PieceLen(at, k, whole, i)
  <2> SUFFICES ASSUME NEW i \in 1 .. n
               PROVE (IF i = n THEN used ELSE at[i + 1]) = (IF i = k THEN whole ELSE at[i + 1])
    BY DEF PieceLen
  <2>1. CASE given
    BY <1>2, <1>4, <2>1
  <2>2. CASE ~given
    <3>1. i # k
      BY <1>4, <2>2
    <3>2. (IF i = n THEN used ELSE at[i + 1]) = at[i + 1]
      BY <1>2, <2>2
    <3> QED  BY <3>1, <3>2
  <2> QED  BY <2>1, <2>2
<1>13. OK(n, s0) => s0 \in State
  OBVIOUS
<1>14. s0 \in State /\ \A i, s : OK(i, s) => s \in State
  BY <1>10
<1>15. k \in Nat /\ \A i \in 1 .. n : i \in 0 .. n /\ i - 1 \in 0 .. n /\ i # 0
  BY <1>4
<1> HIDE DEF OK
<1>16. step \in StepFunctions(State, n)
  BY <1>11, <1>14 DEF StepFunctions, step
<1>17. PICK f : IsRecursion(f, State, n, s0, step)
  BY <1>4, <1>14, <1>16, Recursion
<1>18. f[0] = s0 /\ f \in [0 .. n -> State]
       /\ \A i \in 1 .. n : f[i] = IF OK(i - 1, f[i - 1])
                                   THEN cutpiece(f[i - 1], p + at[i], PieceLen(at, k, whole, i))
                                   ELSE f[i - 1]
  BY <1>15, <1>17 DEF IsRecursion, step
<1>19. \A i \in 0 .. n : OK(i, f[i])
  <2> DEFINE T == {i \in 0 .. n : OK(i, f[i])}
  <2>1. 0 \in T
    BY <1>4, <1>10, <1>18
  <2>2. ASSUME NEW i \in 1 .. n, i - 1 \in T PROVE i \in T
    BY <1>11, <1>15, <1>18, <2>2
  <2> HIDE DEF T
  <2>3. \A i \in 0 .. n : i \in T
    BY <1>4, <2>1, <2>2, IntervalInduction
  <2> QED  BY <2>3 DEF T
<1>20. f = body(f)
  <2>1. \A i \in 0 .. n : f[i] = body(f)[i]
    <3>1. \A i \in 0 .. n : i = 0 \/ i \in 1 .. n
      BY <1>4
    <3>2. \A i \in 1 .. n : f[i] = cutpiece(f[i - 1], p + at[i], PieceLen(at, k, whole, i))
      BY <1>15, <1>18, <1>19
    <3> QED  BY <1>12, <1>18, <3>1, <3>2 DEF body
  <2>2. body(f) = [i \in 0 .. n |-> body(f)[i]]
    BY DEF body
  <2> QED  BY <1>18, <2>1, <2>2
<1>21. cut = body(cut)
  BY <1>20 DEF cut
<1>22. \A i \in 0 .. n : OK(i, cut[i])
  <2> DEFINE T == {i \in 0 .. n : OK(i, cut[i])}
  <2>1. 0 \in T
    <3>1. 0 \in 0 .. n
      BY <1>4
    <3>2. cut[0] = s0
      BY <1>21, <3>1 DEF body
    <3> QED  BY <1>10, <3>1, <3>2
  <2>2. ASSUME NEW i \in 1 .. n, i - 1 \in T PROVE i \in T
    <3>1. i \in 0 .. n /\ i # 0 /\ OK(i - 1, cut[i - 1])
      BY <1>15, <2>2
    <3>2. cut[i] = cutpiece(cut[i - 1], p + at[i], (IF i = n THEN used ELSE at[i + 1]) - at[i])
      BY <1>21, <3>1 DEF body
    <3>3. cut[i] = cutpiece(cut[i - 1], p + at[i], PieceLen(at, k, whole, i))
      BY <1>12, <3>2
    <3> QED  BY <1>11, <3>1, <3>3
  <2> HIDE DEF T
  <2>3. \A i \in 0 .. n : i \in T
    BY <1>4, <2>1, <2>2, IntervalInduction
  <2> QED  BY <2>3 DEF T
<1>23. CutSome(m, cut[n], p, at, k, whole, Done(n))
  <2>1. n \in 0 .. n
    BY <1>4
  <2> QED  BY <1>22, <2>1 DEF OK
<1>24. Done(n) = 1 .. k
  <2>1. CASE given
    BY <1>4, <2>1
  <2>2. CASE ~given
    <3>1. k = n + 1 /\ Done(n) = 1 .. n \cup {n + 1}
      BY <1>4, <2>2
    <3>2. 1 .. n \cup {n + 1} = 1 .. n + 1
      BY <1>4
    <3> QED  BY <3>1, <3>2
  <2> QED  BY <2>1, <2>2
<1>25. CutInto(m, cut[n], p, at, k, whole)
  <2> HIDE DEF Done
  <2> QED  BY <1>23, <1>24, CutSomeAll
<1> QED  BY <1>1, <1>2, <1>6, <1>25

-------------------------------------------------------------------------------
(* independent_calloc.  What is asked of it, as the program assures.       *)
ListOK(sizes) ==
    /\ sizes \in Seq(Requests)
    /\ offsets(sizes)[Len(sizes) + 1] + request2size(Len(sizes)) < MAX_REQUEST
(* A chunk size is a number. *)
LEMMA RequestNat ==
  ASSUME NEW n \in Nat
  PROVE  request2size(n) \in Nat
<1>1. SizeRange \in Nat /\ SizeRange >= 64
  BY SizeFacts
<1>2. CASE n < 3
  BY <1>2, Small DEF request2size
<1>3. CASE n >= 3
  <2>1. request2size(n) = align_up(n + 1, 2)
    BY <1>3, Small DEF request2size, pad_request
  <2>2. PICK T : T = (n + 1 + 2 - 1) % SizeRange
    OBVIOUS
  <2>3. T \in Nat
    BY <1>1, <2>2
  <2>4. align_up(n + 1, 2) = T - (T % 2)
    BY <2>2 DEF align_up
  <2> QED  BY <2>1, <2>3, <2>4
<1> QED  BY <1>2, <1>3

(* What follows for the sizes of the elements and of the array. *)
LEMMA ListFacts ==
  ASSUME NEW sizes, ListOK(sizes), NEW n, n = Len(sizes), NEW at, at = offsets(sizes)
  PROVE  /\ IsTotals(at, sizes, n) /\ n \in Nat
         /\ \A i \in 1 .. n : sizes[i] \in Requests
         /\ at[n + 1] \in Nat /\ at[n + 1] + request2size(n) < MAX_REQUEST
         /\ n < MAX_REQUEST /\ request2size(n) \in Nat
         /\ n + 1 <= request2size(n) /\ 4 <= request2size(n)
         /\ n >= 1 => at[n + 1] >= 4
<1>1. IsTotals(at, sizes, n)
  BY OffsetsFacts DEF ListOK
<1>2. n \in Nat /\ \A i \in 1 .. n : sizes[i] \in Requests
  BY LenProperties, ElementOfSeq DEF ListOK
<1>3. at[n + 1] + request2size(n) < MAX_REQUEST
  BY DEF ListOK
<1>4. at[1] = 0 /\ \A i \in 1 .. n + 1 : at[i] \in Nat
  BY <1>1 DEF IsTotals
<1>5. \A i, j \in 1 .. n + 1 : i < j => at[i] + 4 <= at[j]
  BY <1>1 DEF IsTotals
<1>6. at[n + 1] \in Nat
  BY <1>2, <1>4
<1>7. at[n + 1] >= n
  <2> DEFINE T == {j \in 0 .. n : at[j + 1] >= j}
  <2>1. 0 \in T
    BY <1>2, <1>4
  <2>2. ASSUME NEW j \in 1 .. n, j - 1 \in T PROVE j \in T
    <3>1. j \in 1 .. n + 1 /\ j + 1 \in 1 .. n + 1 /\ j < j + 1 /\ (j - 1) + 1 = j
      BY <1>2
    <3>2. at[j] >= j - 1 /\ at[j] \in Nat /\ at[j + 1] \in Nat /\ at[j] + 4 <= at[j + 1]
      BY <1>4, <1>5, <2>2, <3>1
    <3> QED  BY <3>2
  <2> HIDE DEF T
  <2>3. \A j \in 0 .. n : j \in T
    BY <1>2, <2>1, <2>2, IntervalInduction
  <2>4. n \in 0 .. n
    BY <1>2
  <2> QED  BY <2>3, <2>4 DEF T
<1>8. request2size(n) \in Nat
  BY <1>2, RequestNat
<1>9. n < MAX_REQUEST
  <2>1. MAX_REQUEST \in Int
    BY Small, SizeFacts
  <2> QED  BY <1>2, <1>3, <1>6, <1>7, <1>8, <2>1
<1>10. n + 1 <= request2size(n) /\ 4 <= request2size(n)
  BY <1>2, <1>9, RequestFacts
<1>11. n >= 1 => at[n + 1] >= 4
  <2> SUFFICES ASSUME n >= 1 PROVE at[n + 1] >= 4
    OBVIOUS
  <2>1. 1 \in 1 .. n + 1 /\ n + 1 \in 1 .. n + 1 /\ 1 < n + 1
    BY <1>2
  <2>2. at[1] + 4 <= at[n + 1]
    BY <1>5, <2>1
  <2> QED  BY <1>4, <1>6, <2>2
<1> QED  BY <1>1, <1>2, <1>3, <1>6, <1>8, <1>9, <1>10, <1>11

(* A chunk that is large enough can be cut at these places.                *)
LEMMA ListOffsets ==
  ASSUME NEW sizes, ListOK(sizes), NEW n, n = Len(sizes), NEW at, at = offsets(sizes), n >= 1,
         NEW given \in BOOLEAN, NEW k, k = NumberOfPieces(n, given), NEW whole \in Nat,
         whole >= at[n + 1] + (IF given THEN 0 ELSE request2size(n))
  PROVE  /\ IsOffsets(at, k, whole)
         /\ \A i \in 1 .. n : PieceLen(at, k, whole, i) >= sizes[i] + 1
         /\ ~given => PieceLen(at, k, whole, n + 1) >= n + 1
<1>1. /\ IsTotals(at, sizes, n) /\ n \in Nat
      /\ \A i \in 1 .. n : sizes[i] \in Requests
      /\ at[n + 1] \in Nat
      /\ request2size(n) \in Nat
      /\ n + 1 <= request2size(n) /\ 4 <= request2size(n)
  BY ListFacts
<1>2. /\ at[1] = 0 /\ \A i \in 1 .. n + 1 : at[i] \in Nat /\ Even(at[i])
      /\ \A i \in 1 .. n : at[i + 1] = at[i] + request2size(sizes[i])
  BY <1>1 DEF IsTotals
<1>3. \A i, j \in 1 .. n + 1 : i < j => at[i] + 4 <= at[j]
  BY <1>1 DEF IsTotals
<1>4. k \in Nat /\ k >= 1 /\ (given => k = n) /\ (~given => k = n + 1) /\ k <= n + 1
  BY <1>1 DEF NumberOfPieces
<1>5. \A i \in 1 .. k : i \in 1 .. n + 1
  BY <1>1, <1>4
<1>6. \A i \in 1 .. k : at[i] + 4 <= whole
  <2> SUFFICES ASSUME NEW i \in 1 .. k PROVE at[i] + 4 <= whole
    OBVIOUS
  <2>1. CASE i = n + 1
    <3>1. ~given
      BY <1>1, <1>4, <2>1
    <3>2. whole >= at[n + 1] + request2size(n)
      BY <3>1
    <3> QED  BY <1>1, <2>1, <3>2
  <2>2. CASE i # n + 1
    <3>1. i < n + 1 /\ i \in 1 .. n + 1 /\ n + 1 \in 1 .. n + 1
      BY <1>1, <1>4, <2>2
    <3>2. at[i] + 4 <= at[n + 1] /\ at[i] \in Nat
      BY <1>2, <1>3, <3>1
    <3>3. whole >= at[n + 1]
      BY <1>1
    <3> QED  BY <1>1, <3>2, <3>3
  <2> QED  BY <2>1, <2>2
<1>7. IsOffsets(at, k, whole)
  <2>1. \A i \in 1 .. k : at[i] \in Nat /\ Even(at[i]) /\ at[i] + 4 <= whole
    BY <1>2, <1>5, <1>6
  <2>2. \A i, j \in 1 .. k : i < j => at[i] + 4 <= at[j]
    BY <1>3, <1>5
  <2> QED  BY <1>2, <1>4, <2>1, <2>2 DEF IsOffsets
<1>8. \A i \in 1 .. n : PieceLen(at, k, whole, i) >= sizes[i] + 1
  <2> SUFFICES ASSUME NEW i \in 1 .. n PROVE PieceLen(at, k, whole, i) >= sizes[i] + 1
    OBVIOUS
  <2>1. PICK req : req = sizes[i]
    OBVIOUS
  <2>2. req \in Nat /\ req < MAX_REQUEST
    <3>1. req \in 0 .. MAX_REQUEST - 1 /\ MAX_REQUEST \in Nat
      BY <1>1, <2>1, Small, SizeFacts DEF Requests
    <3> QED  BY <3>1
  <2>3. request2size(req) \in Nat /\ req + 1 <= request2size(req)
    BY <2>2, RequestFacts
  <2>4. at[i + 1] = at[i] + request2size(req) /\ at[i] \in Nat
    <3>1. i \in 1 .. n + 1
      BY <1>1
    <3> QED  BY <1>2, <2>1, <3>1
  <2>5. CASE i # k
    BY <2>1, <2>2, <2>3, <2>4, <2>5 DEF PieceLen
  <2>6. CASE i = k
    <3>1. i = n
      BY <1>1, <1>4, <2>6
    <3>2. whole >= at[i + 1] /\ at[i + 1] \in Nat
      BY <1>1, <3>1
    <3> QED  BY <2>1, <2>2, <2>3, <2>4, <2>6, <3>2 DEF PieceLen
  <2> QED  BY <2>5, <2>6
<1>9. ~given => PieceLen(at, k, whole, n + 1) >= n + 1
  <2> SUFFICES ASSUME ~given PROVE PieceLen(at, k, whole, n + 1) >= n + 1
    OBVIOUS
  <2>1. whole >= at[n + 1] + request2size(n) /\ k = n + 1
    BY <1>4
  <2> QED  BY <1>1, <2>1 DEF PieceLen
<1> QED  BY <1>7, <1>8, <1>9

-------------------------------------------------------------------------------
(* What independent_calloc makes of a list: nothing, or k chunks in a row. *)
Aggregate(m, B, X, r, sizes, n, at, given, k, v) ==
    /\ v \in Nat /\ B \cap Pieces(v, at, k) = {}
    /\ Goes(m, r.m, B \cup Pieces(v, at, k), B, X)
    /\ \A i, j \in 1 .. k : i # j => v + at[i] # v + at[j]
    /\ \A i \in 1 .. k : v + at[i] \in Nat
    /\ r.mems = [i \in 1 .. n |-> chunk2mem(v + at[i])]
    /\ r.array = IF given THEN NULL ELSE chunk2mem(v + at[n + 1])
    /\ \A i \in 1 .. n : r.m.chunk[v + at[i]].size >= sizes[i] + 1
    /\ ~given => r.m.chunk[v + at[n + 1]].size >= n + 1
NoAggregate(m, B, X, r) == r.mems = <<>> /\ r.array = NULL /\ Goes(m, r.m, B, B, X)
(* After another step, too. *)
LEMMA AggregateAfter ==
  ASSUME NEW l \in State, NEW m, NEW B, NEW X, Goes(l, m, B, B, X), NEW r, NEW sizes, NEW n,
         NEW at, NEW given, NEW k, NEW v, Aggregate(m, B, X, r, sizes, n, at, given, k, v)
  PROVE  Aggregate(l, B, X, r, sizes, n, at, given, k, v)
<1>1. PICK C : C = B \cup Pieces(v, at, k)
  OBVIOUS
<1>2. Goes(m, r.m, C, B, X)
  BY <1>1 DEF Aggregate
<1>3. Goes(l, r.m, C, B, X)
  BY <1>2, GoesTrans
<1> QED  BY <1>1, <1>3 DEF Aggregate

(* A chunk got is cut up.                                                  *)
LEMMA CutUpAggregate ==
  ASSUME NEW m, NEW B, NEW X, Sys(m, B, X), NEW sizes, ListOK(sizes),
         NEW n, n = Len(sizes), n >= 1, NEW at, at = offsets(sizes), NEW given \in BOOLEAN,
         NEW k, k = NumberOfPieces(n, given),
         NEW got, NEW v, NEW nb \in Nat, GivesAt(m, B, X, got, nb, v),
         nb >= at[n + 1] + (IF given THEN 0 ELSE request2size(n)),
         NEW r, r = CutUp(got.m, mem2chunk(got.mem), sizes, given)
  PROVE  Aggregate(m, B, X, r, sizes, n, at, given, k, v)
<1>1. PICK g, C : g = got.m /\ C = B \cup {v}
  OBVIOUS
<1>2. /\ v \in Nat /\ v \notin B /\ got.mem = chunk2mem(v) /\ Goes(m, g, C, B, X)
      /\ g.chunk[v].size \in nb .. nb + 3 /\ g.chunk[v].pinuse
  BY <1>1 DEF GivesAt
<1>3. Sys(g, C, X) /\ Keeps(m, g, B) /\ Within(m, g) /\ v \in C /\ g \in State
  <2>1. Sys(g, C, X) /\ Keeps(m, g, B) /\ Within(m, g)
    BY <1>2 DEF Goes
  <2> QED  BY <1>1, <2>1 DEF Sys
<1>4. PICK whole : whole = g.chunk[v].size
  OBVIOUS
<1>5. whole \in Nat /\ v + whole <= BrkLimit
  BY <1>3, <1>4, UsedChunk
<1>6. whole >= nb
  BY <1>2, <1>4
<1>7. n \in Nat /\ at[n + 1] \in Nat /\ request2size(n) \in Nat
  BY ListFacts
<1>8. whole >= at[n + 1] + (IF given THEN 0 ELSE request2size(n))
  <2>1. PICK x : x = at[n + 1] + (IF given THEN 0 ELSE request2size(n))
    OBVIOUS
  <2>2. x \in Nat /\ nb >= x
    BY <1>7, <2>1
  <2>3. whole >= x
    BY <1>5, <1>6, <2>2
  <2> QED  BY <2>1, <2>3
<1>9. /\ IsOffsets(at, k, whole)
      /\ \A i \in 1 .. n : PieceLen(at, k, whole, i) >= sizes[i] + 1
      /\ ~given => PieceLen(at, k, whole, n + 1) >= n + 1
  BY <1>5, <1>8, ListOffsets
<1>10. v + whole \in Addr
  <2>1. v + whole \in 0 .. BrkLimit
    BY <1>2, <1>5, Small
  <2> QED  BY <2>1, Small
<1>11. r = CutUp(g, v, sizes, given)
  BY <1>1, <1>2 DEF mem2chunk, chunk2mem
<1>12. Len(sizes) \in Nat /\ Len(sizes) >= 1 /\ k = NumberOfPieces(Len(sizes), given)
  BY <1>7
<1>13. /\ CutInto(g, r.m, v, at, k, whole)
       /\ r.mems = [i \in 1 .. n |-> chunk2mem(v + at[i])]
       /\ r.array = IF given THEN NULL ELSE chunk2mem(v + at[n + 1])
  BY <1>2, <1>3, <1>4, <1>9, <1>10, <1>11, <1>12, CutUpInto
<1>14. CutGoes(g, r.m, C, v, at, k, X)
  BY <1>2, <1>3, <1>4, <1>9, <1>13, CutIntoGoes
<1>15. Goes(g, r.m, C \cup Pieces(v, at, k), C \ {v}, X) /\ Pieces(v, at, k) \cap (C \ {v}) = {}
  BY <1>14 DEF CutGoes
<1>16. k \in Nat /\ k >= 1 /\ at[1] = 0
  BY <1>9 DEF IsOffsets
<1>17. /\ \A i \in 1 .. k : v + at[i] \in Nat
       /\ \A i, j \in 1 .. k : i # j => v + at[i] # v + at[j]
  BY <1>2, <1>9, <1>10, PieceFacts
<1>18. v \in Pieces(v, at, k)
  <2>1. 1 \in 1 .. k /\ v + at[1] = v
    BY <1>2, <1>16
  <2> QED  BY <2>1 DEF Pieces
<1>19. C \cup Pieces(v, at, k) = B \cup Pieces(v, at, k) /\ C \ {v} = B
  BY <1>1, <1>2, <1>18
<1>20. Goes(m, r.m, B \cup Pieces(v, at, k), B, X)
  <2>1. PICK D, n2 : D = B \cup Pieces(v, at, k) /\ n2 = r.m
    OBVIOUS
  <2>2. Goes(g, n2, D, B, X)
    BY <1>15, <1>19, <2>1
  <2>3. m \in State
    BY DEF Sys
  <2>4. Goes(m, n2, D, B, X)
    BY <1>2, <2>2, <2>3, GoesTrans
  <2> QED  BY <2>1, <2>4
<1>21. ASSUME NEW i \in 1 .. k PROVE r.m.chunk[v + at[i]].size = PieceLen(at, k, whole, i)
  <2>1. CASE i = k
    <3>1. r.m.chunk[v + at[i]] = UsedHeader(whole - at[i])
      BY <1>13, <2>1 DEF CutInto
    <3> QED  BY <2>1, <3>1 DEF PieceLen, UsedHeader, Header
  <2>2. CASE i # k
    <3>1. i \in 1 .. k - 1
      BY <1>16, <2>2
    <3>2. r.m.chunk[v + at[i]] = UsedHeader(at[i + 1] - at[i])
      BY <1>13, <3>1 DEF CutInto
    <3> QED  BY <2>2, <3>2 DEF PieceLen, UsedHeader, Header
  <2> QED  BY <2>1, <2>2
<1>22. n \in Nat /\ n <= k /\ (~given => k = n + 1)
  BY <1>7 DEF NumberOfPieces
<1>23. \A i \in 1 .. n : r.m.chunk[v + at[i]].size >= sizes[i] + 1
  <2> SUFFICES ASSUME NEW i \in 1 .. n PROVE r.m.chunk[v + at[i]].size >= sizes[i] + 1
    OBVIOUS
  <2>1. i \in 1 .. k
    BY <1>16, <1>22
  <2> QED  BY <1>9, <1>21, <2>1
<1>24. ~given => r.m.chunk[v + at[n + 1]].size >= n + 1
  <2> SUFFICES ASSUME ~given PROVE r.m.chunk[v + at[n + 1]].size >= n + 1
    OBVIOUS
  <2>1. n + 1 \in 1 .. k
    BY <1>16, <1>22
  <2> QED  BY <1>9, <1>21, <2>1
<1>25. B \cap Pieces(v, at, k) = {}
  BY <1>15, <1>19
<1> QED  BY <1>2, <1>13, <1>17, <1>20, <1>23, <1>24, <1>25 DEF Aggregate

(* The array alone.                                                        *)
LEMMA ArrayAggregate ==
  ASSUME NEW m, NEW B, NEW X, Sys(m, B, X), NEW sizes, ListOK(sizes),
         NEW n, n = Len(sizes), n = 0, NEW at, at = offsets(sizes), NEW given, given = FALSE,
         NEW k, k = NumberOfPieces(n, given),
         NEW got, NEW v, NEW nb \in Nat, nb >= 1, GivesAt(m, B, X, got, nb, v),
         NEW r, r = NoElements(got)
  PROVE  Aggregate(m, B, X, r, sizes, n, at, given, k, v)
<1>1. /\ v \in Nat /\ v \notin B /\ got.mem = chunk2mem(v) /\ Goes(m, got.m, B \cup {v}, B, X)
      /\ got.m.chunk[v].size \in nb .. nb + 3
  BY DEF GivesAt
<1>2. at[1] = 0
  <2>1. IsTotals(at, sizes, n)
    BY ListFacts
  <2> QED  BY <2>1 DEF IsTotals
<1>3. k = 1 /\ n + 1 = 1
  BY DEF NumberOfPieces
<1>4. r.m = got.m /\ r.mems = <<>> /\ r.array = got.mem
  BY DEF NoElements
<1>5. v + at[1] = v
  BY <1>1, <1>2
<1>6. Pieces(v, at, k) = {v}
  <2>1. 1 .. k = {1}
    BY <1>3
  <2> QED  BY <1>5, <2>1 DEF Pieces
<1>7. \A i, j \in 1 .. k : i = j
  BY <1>3
<1>8. \A i \in 1 .. k : v + at[i] \in Nat
  <2>1. \A i \in 1 .. k : i = 1
    BY <1>3
  <2> QED  BY <1>1, <1>5, <2>1
<1>9. r.mems = [i \in 1 .. n |-> chunk2mem(v + at[i])]
  <2>1. 1 .. n = {}
    OBVIOUS
  <2>2. \A f : DOMAIN f = {} /\ f = [i \in DOMAIN f |-> f[i]] => f = <<>>
    OBVIOUS
  <2> QED  BY <1>4, <2>1, <2>2
<1>10. r.m.chunk[v + at[n + 1]].size >= n + 1
  BY <1>1, <1>3, <1>4, <1>5
<1>11. r.array = IF given THEN NULL ELSE chunk2mem(v + at[n + 1])
  BY <1>1, <1>3, <1>4, <1>5
<1>12. \A i \in 1 .. n : r.m.chunk[v + at[i]].size >= sizes[i] + 1
  OBVIOUS
<1>13. B \cap {v} = {} /\ Goes(m, r.m, B \cup {v}, B, X)
  BY <1>1, <1>4
<1>14. /\ B \cap Pieces(v, at, k) = {} /\ Goes(m, r.m, B \cup Pieces(v, at, k), B, X)
  BY <1>6, <1>13
<1> QED  BY <1>1, <1>7, <1>8, <1>9, <1>10, <1>11, <1>12, <1>14 DEF Aggregate

-------------------------------------------------------------------------------
(* independent_calloc and independent_comalloc.                            *)
LEMMA IallocGoes ==
  ASSUME NEW m0, NEW B, NEW X, Sys(m0, B, X), NEW sizes, ListOK(sizes),
         NEW n, n = Len(sizes), NEW at, at = offsets(sizes), NEW given \in BOOLEAN,
         NEW k, k = NumberOfPieces(n, given), NEW r, r = ialloc(m0, sizes, given)
  PROVE  \/ NoAggregate(m0, B, X, r)
         \/ \E v : Aggregate(m0, B, X, r, sizes, n, at, given, k, v)
<1>1. PICK m : m = ensure_initialization(m0)
  OBVIOUS
<1>2. Goes(m0, m, B, B, X) /\ m0 \in State
  <2>1. Goes(m0, m, B, B, X)
    BY <1>1, EnsureFacts
  <2> QED  BY <2>1 DEF Sys
<1>3. Sys(m, B, X)
  BY <1>2 DEF Goes
<1>4. PICK total, bytes : /\ total = at[n + 1] + (IF given THEN 0 ELSE request2size(n))
                          /\ bytes = IF n = 0 THEN 0 ELSE total - 1
  OBVIOUS
<1>5. /\ n \in Nat /\ at[n + 1] \in Nat /\ at[n + 1] + request2size(n) < MAX_REQUEST
      /\ request2size(n) \in Nat /\ (n >= 1 => at[n + 1] >= 4)
  BY ListFacts
<1>6. total \in Nat /\ total < MAX_REQUEST /\ (n >= 1 => total >= 4)
  <2>1. MAX_REQUEST \in Int
    BY Small, SizeFacts
  <2>2. total = at[n + 1] \/ total = at[n + 1] + request2size(n)
    BY <1>4, <1>5
  <2> QED  BY <1>5, <2>1, <2>2
<1>7. bytes \in Nat /\ bytes < MAX_REQUEST /\ (n >= 1 => bytes + 1 = total)
  BY <1>4, <1>5, <1>6, Small, SizeFacts
<1>8. bytes \in size_t
  <2>1. bytes \in 0 .. MAX_SIZE_T
    BY <1>7, Small, SizeFacts
  <2> QED  BY <2>1, Small
<1>9. PICK got : got = dlmalloc(m, bytes)
  OBVIOUS
<1>10. r = IF n = 0 /\ given THEN NoElements(Failure(m))
           ELSE IF n = 0 \/ got.mem = NULL THEN NoElements(got)
           ELSE CutUp(got.m, mem2chunk(got.mem), sizes, given)
  <2>1. PICK asize : asize = IF given THEN 0 ELSE request2size(n)
    OBVIOUS
  <2>2. asize \in Nat
    BY <1>5, <2>1
  <2>3. bytes = IF n = 0 THEN 0 ELSE at[n + 1] + asize - CHUNK_OVERHEAD
    <3>1. at[n + 1] + asize - CHUNK_OVERHEAD = total - 1
      BY <1>4, <1>5, <2>1, <2>2, Small
    <3> QED  BY <1>4, <3>1
  <2> QED  BY <1>1, <1>9, <2>1, <2>3 DEF ialloc
<1>11. PICK nb : nb = chunk_size_for(bytes)
  OBVIOUS
<1>12. Gives(m, B, X, got, nb)
  BY <1>3, <1>8, <1>9, <1>11, MallocGives
<1>13. nb \in Nat /\ bytes + 1 <= nb
  <2>1. nb = request2size(bytes) /\ bytes + 1 <= nb
    BY <1>7, <1>8, <1>11, ChunkSizeForFacts
  <2>2. request2size(bytes) \in Nat
    BY <1>7, RequestNat
  <2> QED  BY <2>1, <2>2
<1>14. CASE n = 0 /\ given
  <2>1. r = NoElements(Failure(m))
    BY <1>10, <1>14
  <2>2. r.m = m /\ r.mems = <<>> /\ r.array = NULL
    BY <2>1 DEF NoElements, Failure, Result
  <2> QED  BY <1>2, <2>2 DEF NoAggregate
<1>15. CASE ~(n = 0 /\ given) /\ Refuses(m, B, X, got)
  <2>1. got.mem = NULL /\ Goes(m, got.m, B, B, X)
    BY <1>15 DEF Refuses
  <2>2. r = NoElements(got)
    BY <1>10, <1>15, <2>1
  <2>3. r.m = got.m /\ r.mems = <<>> /\ r.array = NULL
    BY <2>1, <2>2 DEF NoElements
  <2>4. Goes(m0, got.m, B, B, X)
    BY <1>2, <2>1, GoesTrans
  <2> QED  BY <2>3, <2>4 DEF NoAggregate
<1>16. CASE ~(n = 0 /\ given) /\ \E v : GivesAt(m, B, X, got, nb, v)
  <2>1. PICK v : GivesAt(m, B, X, got, nb, v)
    BY <1>16
  <2>2. got.mem # NULL
    <3>1. v \in Nat /\ got.mem = v + 2
      BY <2>1 DEF GivesAt, chunk2mem
    <3> QED  BY <3>1, Small
  <2>3. CASE n = 0
    <3>1. r = NoElements(got) /\ given = FALSE
      BY <1>10, <1>16, <2>3
    <3>2. nb >= 1
      BY <1>7, <1>13
    <3>3. Aggregate(m, B, X, r, sizes, n, at, given, k, v)
      BY <1>3, <1>13, <2>1, <2>3, <3>1, <3>2, ArrayAggregate
    <3>4. Aggregate(m0, B, X, r, sizes, n, at, given, k, v)
      BY <1>2, <3>3, AggregateAfter
    <3> QED  BY <3>4
  <2>4. CASE n # 0
    <3>1. r = CutUp(got.m, mem2chunk(got.mem), sizes, given)
      BY <1>10, <2>2, <2>4
    <3>2. n >= 1
      BY <1>5, <2>4
    <3>3. nb >= total
      BY <1>6, <1>7, <1>13, <3>2
    <3>4. nb >= at[n + 1] + (IF given THEN 0 ELSE request2size(n))
      BY <1>4, <3>3
    <3>5. Aggregate(m, B, X, r, sizes, n, at, given, k, v)
      BY <1>3, <1>13, <2>1, <3>1, <3>2, <3>4, CutUpAggregate
    <3>6. Aggregate(m0, B, X, r, sizes, n, at, given, k, v)
      BY <1>2, <3>5, AggregateAfter
    <3> QED  BY <3>6
  <2> QED  BY <2>3, <2>4
<1> QED  BY <1>12, <1>14, <1>15, <1>16 DEF Gives

-------------------------------------------------------------------------------
(* The chunks of the program's blocks, and what is true of its blocks.     *)
ChunksOf(b) == {mem2chunk(mem) : mem \in DOMAIN b}
BlockSet == [size : size_t, held : size_t, aligned : size_t, owners : Nat]
BlockOK(m, mem, block) ==
    /\ mem \in Nat /\ mem >= 2 /\ mem % 2 = 0 /\ mem % block.aligned = 0
    /\ block \in BlockSet /\ block.held <= block.size /\ block.owners = 1
    /\ m.chunk[mem2chunk(mem)].size \in AtLeast(block.size + 1)
LiveOK(m, b) ==
    /\ b = [mem \in DOMAIN b |-> b[mem]]
    /\ \A mem \in DOMAIN b : BlockOK(m, mem, b[mem])

(* What a step may make of the blocks: see AbstractAllocator.              *)
KeptIn(b, c, S) == \A mem \in S : mem \in DOMAIN c /\ c[mem] = b[mem]
Allocates(b, c) ==
    /\ KeptIn(b, c, DOMAIN b)
    /\ \A mem \in DOMAIN c \ DOMAIN b : c[mem].held = c[mem].size
Frees(b, c) == DOMAIN c \subseteq DOMAIN b /\ KeptIn(b, c, DOMAIN c)
Reallocates(b, c) ==
    \E old \in DOMAIN b, new \in DOMAIN c :
        /\ DOMAIN c = (DOMAIN b \ {old}) \cup {new}
        /\ KeptIn(b, c, DOMAIN b \ {old})
        /\ c[new].held = IF c[new].size < b[old].held THEN c[new].size ELSE b[old].held

Holds(m, b, X) == LiveOK(m, b) /\ Sys(m, ChunksOf(b), X)
OpStep(m, b, n, c, X) ==
    /\ Holds(n, c, X) /\ Within(m, n)
    /\ Allocates(b, c) \/ Frees(b, c) \/ Reallocates(b, c)

(* Blocks and chunks correspond.                                           *)
LEMMA ChunkOfBlock ==
  ASSUME NEW m, NEW b, LiveOK(m, b)
  PROVE  /\ \A mem \in DOMAIN b : /\ mem \in Nat /\ mem >= 2
                                  /\ mem2chunk(mem) \in ChunksOf(b)
                                  /\ mem2chunk(mem) \in Nat
                                  /\ chunk2mem(mem2chunk(mem)) = mem
         /\ \A v \in Nat : v \in ChunksOf(b) => chunk2mem(v) \in DOMAIN b
         /\ ChunksOf(b) \subseteq Nat
<1>1. ASSUME NEW mem \in DOMAIN b
      PROVE  /\ mem \in Nat /\ mem >= 2 /\ mem2chunk(mem) \in ChunksOf(b)
             /\ mem2chunk(mem) \in Nat /\ chunk2mem(mem2chunk(mem)) = mem
  <2>1. BlockOK(m, mem, b[mem])
    BY DEF LiveOK
  <2>2. mem \in Nat /\ mem >= 2
    BY <2>1 DEF BlockOK
  <2> QED  BY <2>2 DEF ChunksOf, mem2chunk, chunk2mem
<1>2. ASSUME NEW v \in Nat, v \in ChunksOf(b) PROVE chunk2mem(v) \in DOMAIN b
  <2>1. PICK mem \in DOMAIN b : v = mem2chunk(mem)
    BY <1>2 DEF ChunksOf
  <2>2. chunk2mem(v) = mem
    BY <1>1, <2>1
  <2> QED  BY <2>2
<1>3. ChunksOf(b) \subseteq Nat
  BY <1>1 DEF ChunksOf
<1> QED  BY <1>1, <1>2, <1>3

(* Blocks whose chunks keep their size are as good as before.              *)
LEMMA BlocksKept ==
  ASSUME NEW m, NEW b, LiveOK(m, b), NEW S, S \subseteq DOMAIN b, NEW n, NEW W,
         Keeps(m, n, W), \A mem \in S : mem2chunk(mem) \in W
  PROVE  \A mem \in S : BlockOK(n, mem, b[mem])
<1> SUFFICES ASSUME NEW mem \in S PROVE BlockOK(n, mem, b[mem])
  OBVIOUS
<1>1. BlockOK(m, mem, b[mem])
  BY DEF LiveOK
<1>2. n.chunk[mem2chunk(mem)].size = m.chunk[mem2chunk(mem)].size
  BY DEF Keeps
<1> QED  BY <1>1, <1>2 DEF BlockOK

(* A block comes to the others.                                            *)
IsWith(c, b, mem, block) ==
    /\ DOMAIN c = DOMAIN b \cup {mem} /\ c[mem] = block
    /\ \A o \in DOMAIN b : o # mem => c[o] = b[o]
    /\ c = [o \in DOMAIN c |-> c[o]]
(* With is that. *)
LEMMA WithFacts ==
  ASSUME NEW b, NEW mem, NEW block
  PROVE  IsWith(With(b, mem, block), b, mem, block)
BY DEF With, IsWith

(* A block that is right beside those that are kept. *)
LEMMA WithHolds ==
  ASSUME NEW m, NEW b, LiveOK(m, b), NEW S, S \subseteq DOMAIN b, NEW X, NEW n, NEW W,
         Keeps(m, n, W), \A mem \in S : mem2chunk(mem) \in W,
         NEW v \in Nat, NEW block, BlockOK(n, chunk2mem(v), block),
         NEW rest, rest = [mem \in S |-> b[mem]],
         Sys(n, ChunksOf(rest) \cup {v}, X),
         NEW c, c = With(rest, chunk2mem(v), block)
  PROVE  Holds(n, c, X)
<1>1. PICK mem : mem = chunk2mem(v)
  OBVIOUS
<1>2. DOMAIN rest = S /\ \A o \in S : rest[o] = b[o]
  OBVIOUS
<1>3. /\ DOMAIN c = S \cup {mem} /\ c[mem] = block
      /\ \A o \in S : o # mem => c[o] = b[o]
      /\ c = [o \in DOMAIN c |-> c[o]]
  <2>1. PICK k, e : k = rest /\ e = c
    OBVIOUS
  <2>2. IsWith(With(k, mem, block), k, mem, block)
    BY WithFacts
  <2>3. IsWith(e, k, mem, block)
    BY <1>1, <2>1, <2>2
  <2>4. DOMAIN k = S /\ \A o \in S : k[o] = b[o]
    BY <1>2, <2>1
  <2>5. /\ DOMAIN e = S \cup {mem} /\ e[mem] = block
        /\ \A o \in S : o # mem => e[o] = b[o]
        /\ e = [o \in DOMAIN e |-> e[o]]
    BY <2>3, <2>4 DEF IsWith
  <2> QED  BY <2>1, <2>5
<1>4. \A o \in S : BlockOK(n, o, b[o])
  BY BlocksKept
<1>5. LiveOK(n, c)
  <2>1. \A o \in DOMAIN c : BlockOK(n, o, c[o])
    BY <1>1, <1>3, <1>4
  <2> QED  BY <1>3, <2>1 DEF LiveOK
<1>6. ChunksOf(c) = ChunksOf(rest) \cup {v}
  <2>1. mem2chunk(mem) = v
    BY <1>1 DEF mem2chunk, chunk2mem
  <2> QED  BY <1>2, <1>3, <2>1 DEF ChunksOf
<1> QED  BY <1>5, <1>6 DEF Holds

-------------------------------------------------------------------------------
(* A call that allocates.                                                  *)
OwnersIn(b, mem) == IF mem \in DOMAIN b THEN b[mem].owners ELSE 0
FreshBlock(b, mem, n, a) == [size |-> n, held |-> n, aligned |-> a, owners |-> OwnersIn(b, mem) + 1]
Grant(b, mem, n, a) == IF mem = NULL THEN b ELSE With(b, mem, FreshBlock(b, mem, n, a))

(* A call that gives nothing keeps the blocks. *)
LEMMA SameBlocks ==
  ASSUME NEW m, NEW b, NEW X, Holds(m, b, X), NEW n,
         Goes(m, n, ChunksOf(b), ChunksOf(b), X)
  PROVE  OpStep(m, b, n, b, X)
<1>1. LiveOK(m, b)
  BY DEF Holds
<1>2. PICK W : W = ChunksOf(b)
  OBVIOUS
<1>3. Keeps(m, n, W) /\ Within(m, n) /\ Sys(n, ChunksOf(b), X)
  BY <1>2 DEF Goes
<1>4. \A mem \in DOMAIN b : mem2chunk(mem) \in W
  BY <1>1, <1>2, ChunkOfBlock
<1>5. \A mem \in DOMAIN b : BlockOK(n, mem, b[mem])
  BY <1>1, <1>3, <1>4, BlocksKept
<1>6. LiveOK(n, b)
  BY <1>1, <1>5 DEF LiveOK
<1>7. Allocates(b, b)
  BY DEF Allocates, KeptIn
<1> QED  BY <1>3, <1>6, <1>7 DEF OpStep, Holds

(* A new block is right when its chunk is large enough. *)
LEMMA FreshOK ==
  ASSUME NEW b, NEW v \in Nat, NEW n \in Nat, n < MAX_REQUEST, NEW a \in size_t, Even(v),
         chunk2mem(v) % a = 0, chunk2mem(v) \notin DOMAIN b,
         NEW k, k.chunk[v].size \in AtLeast(n + 1)
  PROVE  BlockOK(k, chunk2mem(v), FreshBlock(b, chunk2mem(v), n, a))
<1>1. PICK mem, block : mem = chunk2mem(v) /\ block = FreshBlock(b, mem, n, a)
  OBVIOUS
<1>2. mem = v + 2 /\ mem \in Nat /\ mem >= 2 /\ mem2chunk(mem) = v
  BY <1>1 DEF chunk2mem, mem2chunk
<1>3. mem % 2 = 0
  BY <1>2 DEF Even
<1>4. n \in size_t
  <2>1. n \in 0 .. MAX_SIZE_T
    BY Small, SizeFacts
  <2> QED  BY <2>1, Small
<1>5. OwnersIn(b, mem) = 0
  BY <1>1 DEF OwnersIn
<1>6. block = [size |-> n, held |-> n, aligned |-> a, owners |-> 1]
  BY <1>1, <1>5 DEF FreshBlock
<1>7. block \in BlockSet /\ block.held <= block.size /\ block.owners = 1
      /\ block.size = n /\ block.aligned = a
  BY <1>4, <1>6 DEF BlockSet
<1>8. mem % block.aligned = 0 /\ k.chunk[mem2chunk(mem)].size \in AtLeast(block.size + 1)
  BY <1>1, <1>2, <1>7
<1>9. BlockOK(k, mem, block)
  BY <1>2, <1>3, <1>7, <1>8 DEF BlockOK
<1> QED  BY <1>1, <1>9

(* A call that hands out a block is a step of the abstract allocator. *)
LEMMA GrantStep ==
  ASSUME NEW m, NEW b, NEW X, Holds(m, b, X), NEW n \in Nat, NEW a \in size_t, NEW r,
         Hands(m, ChunksOf(b), X, r, n, a), NEW c, c = Grant(b, r.mem, n, a)
  PROVE  OpStep(m, b, r.m, c, X)
<1>1. PICK B, k : B = ChunksOf(b) /\ k = r.m
  OBVIOUS
<1>2. LiveOK(m, b) /\ Sys(m, B, X)
  BY <1>1 DEF Holds
<1>3. CASE Refuses(m, B, X, r)
  <2>1. r.mem = NULL /\ Goes(m, k, B, B, X)
    BY <1>1, <1>3 DEF Refuses
  <2>2. c = b
    BY <2>1 DEF Grant
  <2>3. OpStep(m, b, k, b, X)
    BY <1>1, <2>1, SameBlocks
  <2> QED  BY <1>1, <2>2, <2>3
<1>4. CASE ~Refuses(m, B, X, r)
  <2>1. n < MAX_REQUEST /\ \E v : AlignsAt(m, B, X, r, n + 1, a, v)
    BY <1>1, <1>4 DEF Hands
  <2>2. PICK v : AlignsAt(m, B, X, r, n + 1, a, v)
    BY <2>1
  <2>3. /\ v \in Nat /\ v \notin B /\ r.mem = chunk2mem(v) /\ chunk2mem(v) % a = 0
        /\ Goes(m, k, B \cup {v}, B, X) /\ k.chunk[v].size \in AtLeast(n + 1)
    BY <1>1, <2>2 DEF AlignsAt
  <2>4. Sys(k, B \cup {v}, X) /\ Keeps(m, k, B) /\ Within(m, k)
    BY <2>3 DEF Goes
  <2>5. Even(v)
    <3>1. PICK C : C = B \cup {v}
      OBVIOUS
    <3>2. Sys(k, C, X) /\ v \in C
      BY <2>4, <3>1
    <3> QED  BY <3>2, UsedChunk
  <2>6. PICK mem, block : mem = chunk2mem(v) /\ block = FreshBlock(b, mem, n, a)
    OBVIOUS
  <2>7. mem \notin DOMAIN b
    <3>1. mem \in DOMAIN b => mem2chunk(mem) \in B
      BY <1>1, <1>2, ChunkOfBlock
    <3>2. mem2chunk(mem) = v
      BY <2>3, <2>6 DEF mem2chunk, chunk2mem
    <3> QED  BY <2>3, <3>1, <3>2
  <2>8. BlockOK(k, mem, block)
    BY <2>1, <2>3, <2>5, <2>6, <2>7, FreshOK
  <2>9. c = With(b, mem, block)
    <3>1. mem # NULL
      BY <2>3, <2>6, Small DEF chunk2mem
    <3> QED  BY <2>3, <2>6, <3>1 DEF Grant
  <2>10. PICK rest : rest = [o \in DOMAIN b |-> b[o]]
    OBVIOUS
  <2>11. b = rest
    BY <1>2, <2>10 DEF LiveOK
  <2>12. Holds(k, c, X)
    <3>1. ChunksOf(rest) \cup {v} = B \cup {v}
      BY <1>1, <2>11
    <3>2. Sys(k, ChunksOf(rest) \cup {v}, X)
      BY <2>4, <3>1
    <3>3. \A o \in DOMAIN b : mem2chunk(o) \in B
      BY <1>1, <1>2, ChunkOfBlock
    <3>4. PICK S : S = DOMAIN b
      OBVIOUS
    <3>5. S \subseteq DOMAIN b /\ rest = [o \in S |-> b[o]]
      BY <2>10, <3>4
    <3>6. c = With(rest, chunk2mem(v), block)
      BY <2>6, <2>9, <2>11
    <3>7. BlockOK(k, chunk2mem(v), block)
      BY <2>6, <2>8
    <3> QED  BY <1>2, <2>3, <2>4, <3>2, <3>3, <3>4, <3>5, <3>6, <3>7, WithHolds
  <2>13. Allocates(b, c)
    <3>1. IsWith(c, b, mem, block)
      <4>1. IsWith(With(b, mem, block), b, mem, block)
        BY WithFacts
      <4> QED  BY <2>9, <4>1
    <3>2. block.held = block.size
      BY <2>6 DEF FreshBlock
    <3> QED  BY <2>7, <3>1, <3>2 DEF IsWith, Allocates, KeptIn
  <2> QED  BY <1>1, <2>4, <2>12, <2>13 DEF OpStep
<1> QED  BY <1>3, <1>4

-------------------------------------------------------------------------------
(* The blocks but those of S.                                              *)
Rest(b, S) == [o \in DOMAIN b \ S |-> b[o]]
(* Their chunks are the others. *)
LEMMA RestFacts ==
  ASSUME NEW m, NEW b, LiveOK(m, b), NEW S, S \subseteq DOMAIN b, NEW F,
         F = {mem2chunk(o) : o \in S}
  PROVE  /\ ChunksOf(Rest(b, S)) = ChunksOf(b) \ F
         /\ F \subseteq ChunksOf(b)
         /\ \A o \in DOMAIN b \ S : mem2chunk(o) \in ChunksOf(b) \ F
<1>1. \A o \in DOMAIN b : mem2chunk(o) \in ChunksOf(b) /\ chunk2mem(mem2chunk(o)) = o
  BY ChunkOfBlock
<1>2. \A o \in DOMAIN b \ S : mem2chunk(o) \in ChunksOf(b) \ F
  <2> SUFFICES ASSUME NEW o \in DOMAIN b \ S, mem2chunk(o) \in F PROVE FALSE
    BY <1>1
  <2>1. PICK q \in S : mem2chunk(q) = mem2chunk(o)
    OBVIOUS
  <2>2. q = o
    BY <1>1, <2>1
  <2> QED  BY <2>2
<1>3. F \subseteq ChunksOf(b)
  BY <1>1
<1>4. DOMAIN Rest(b, S) = DOMAIN b \ S
  BY DEF Rest
<1>5. ChunksOf(Rest(b, S)) = ChunksOf(b) \ F
  BY <1>2, <1>4 DEF ChunksOf
<1> QED  BY <1>2, <1>3, <1>5

(* Blocks are freed.                                                       *)
LEMMA FewerStep ==
  ASSUME NEW m, NEW b, NEW X, Holds(m, b, X), NEW S, S \subseteq DOMAIN b,
         NEW F, F = {mem2chunk(o) : o \in S}, NEW n,
         Goes(m, n, ChunksOf(b) \ F, ChunksOf(b) \ F, X),
         NEW c, c = Rest(b, S)
  PROVE  OpStep(m, b, n, c, X)
<1>1. LiveOK(m, b)
  BY DEF Holds
<1>2. /\ ChunksOf(c) = ChunksOf(b) \ F
      /\ \A o \in DOMAIN b \ S : mem2chunk(o) \in ChunksOf(b) \ F
  BY <1>1, RestFacts
<1>3. PICK W, D : W = ChunksOf(b) \ F /\ D = DOMAIN b \ S
  OBVIOUS
<1>4. Sys(n, W, X) /\ Keeps(m, n, W) /\ Within(m, n)
  BY <1>3 DEF Goes
<1>5. DOMAIN c = D /\ (\A o \in D : c[o] = b[o]) /\ c = [o \in DOMAIN c |-> c[o]]
  BY <1>3 DEF Rest
<1>6. \A o \in D : BlockOK(n, o, b[o])
  <2>1. D \subseteq DOMAIN b /\ \A o \in D : mem2chunk(o) \in W
    BY <1>2, <1>3
  <2> QED  BY <1>1, <1>4, <2>1, BlocksKept
<1>7. LiveOK(n, c)
  BY <1>5, <1>6 DEF LiveOK
<1>8. Frees(b, c)
  BY <1>3, <1>5 DEF Frees, KeptIn
<1>9. Sys(n, ChunksOf(c), X)
  BY <1>2, <1>3, <1>4
<1> QED  BY <1>4, <1>7, <1>8, <1>9 DEF OpStep, Holds

(* free of a block. *)
LEMMA FreeStep ==
  ASSUME NEW m, NEW b, NEW X, Holds(m, b, X), NEW mem \in DOMAIN b,
         NEW n, n = dlfree(m, mem), NEW c, c = Rest(b, {mem})
  PROVE  OpStep(m, b, n, c, X)
<1>1. LiveOK(m, b) /\ Sys(m, ChunksOf(b), X)
  BY DEF Holds
<1>2. PICK p : p = mem2chunk(mem)
  OBVIOUS
<1>3. p \in ChunksOf(b) /\ mem = chunk2mem(p)
  BY <1>1, <1>2, ChunkOfBlock
<1>4. n = dlfree(m, chunk2mem(p))
  BY <1>3
<1>5. Goes(m, n, ChunksOf(b) \ {p}, ChunksOf(b) \ {p}, X)
  BY <1>1, <1>3, <1>4, FreeGoes
<1>6. {p} = {mem2chunk(o) : o \in {mem}} /\ {mem} \subseteq DOMAIN b
  BY <1>2
<1> QED  BY <1>5, <1>6, FewerStep

-------------------------------------------------------------------------------
(* A block is replaced by one that holds as much of it as fits.            *)
LesserOf(x, y) == IF x < y THEN x ELSE y
ReplacedBy(m, b, n, X, mem, v, bytes, a) ==
    /\ mem \in DOMAIN b /\ v \in Nat /\ a \in size_t /\ chunk2mem(v) % a = 0
    /\ v \notin ChunksOf(b) \ {mem2chunk(mem)}
    /\ Goes(m, n, (ChunksOf(b) \ {mem2chunk(mem)}) \cup {v}, ChunksOf(b) \ {mem2chunk(mem)}, X)
    /\ bytes \in Nat /\ bytes < MAX_REQUEST /\ n.chunk[v].size \in AtLeast(bytes + 1)
NewBlock(b, mem, bytes, a) ==
    [size |-> bytes, held |-> LesserOf(bytes, b[mem].held), aligned |-> a, owners |-> 1]
(* A block given up for another one is a step. *)
LEMMA ReplaceStep ==
  ASSUME NEW m, NEW b, NEW X, Holds(m, b, X), NEW n, NEW mem, NEW v, NEW bytes, NEW a,
         ReplacedBy(m, b, n, X, mem, v, bytes, a),
         NEW c, c = With(Rest(b, {mem}), chunk2mem(v), NewBlock(b, mem, bytes, a))
  PROVE  OpStep(m, b, n, c, X)
<1>1. PICK p, W, S, F : /\ p = mem2chunk(mem) /\ W = ChunksOf(b) \ {p}
                        /\ S = DOMAIN b \ {mem} /\ F = {mem}
  OBVIOUS
<1>2. /\ mem \in DOMAIN b /\ v \in Nat /\ a \in size_t /\ chunk2mem(v) % a = 0
      /\ v \notin W /\ Goes(m, n, W \cup {v}, W, X)
      /\ bytes \in Nat /\ bytes < MAX_REQUEST /\ n.chunk[v].size \in AtLeast(bytes + 1)
  BY <1>1 DEF ReplacedBy
<1>3. LiveOK(m, b)
  BY DEF Holds
<1>4. Sys(n, W \cup {v}, X) /\ Keeps(m, n, W) /\ Within(m, n)
  BY <1>2 DEF Goes
<1>5. PICK rest : rest = Rest(b, F)
  OBVIOUS
<1>6. ChunksOf(rest) = W /\ \A o \in S : mem2chunk(o) \in W
  <2>1. {p} = {mem2chunk(o) : o \in F} /\ F \subseteq DOMAIN b
    BY <1>1, <1>2
  <2>2. PICK G : G = {mem2chunk(o) : o \in F}
    OBVIOUS
  <2>3. /\ ChunksOf(Rest(b, F)) = ChunksOf(b) \ G
        /\ \A o \in DOMAIN b \ F : mem2chunk(o) \in ChunksOf(b) \ G
    BY <1>3, <2>1, <2>2, RestFacts
  <2> QED  BY <1>1, <1>5, <2>1, <2>2, <2>3
<1>7. rest = [o \in S |-> b[o]]
  BY <1>1, <1>5 DEF Rest
<1>8. PICK block, new : block = NewBlock(b, mem, bytes, a) /\ new = chunk2mem(v)
  OBVIOUS
<1>9. PICK C : C = W \cup {v}
  OBVIOUS
<1>10. Even(v)
  <2>1. Sys(n, C, X) /\ v \in C
    BY <1>4, <1>9
  <2> QED  BY <2>1, UsedChunk
<1>11. new = v + 2 /\ new \in Nat /\ new >= 2 /\ mem2chunk(new) = v
  BY <1>2, <1>8 DEF chunk2mem, mem2chunk
<1>12. new % 2 = 0
  BY <1>2, <1>10, <1>11 DEF Even
<1>13. bytes \in size_t
  <2>1. bytes \in 0 .. MAX_SIZE_T
    BY <1>2, Small, SizeFacts
  <2> QED  BY <2>1, Small
<1>14. b[mem].held \in Nat /\ b[mem].held \in size_t
  <2>1. b[mem] \in BlockSet
    BY <1>2, <1>3 DEF LiveOK, BlockOK
  <2>2. b[mem].held \in size_t
    BY <2>1 DEF BlockSet
  <2> QED  BY <2>2, Small
<1>15. block \in BlockSet /\ block.held <= block.size /\ block.owners = 1
       /\ block.size = bytes /\ block.aligned = a
       /\ block.held = IF bytes < b[mem].held THEN bytes ELSE b[mem].held
  <2>1. LesserOf(bytes, b[mem].held) \in size_t /\ LesserOf(bytes, b[mem].held) <= bytes
    BY <1>2, <1>13, <1>14 DEF LesserOf
  <2> QED  BY <1>2, <1>8, <1>13, <2>1 DEF NewBlock, BlockSet, LesserOf
<1>16. BlockOK(n, new, block)
  <2>1. new % block.aligned = 0 /\ n.chunk[mem2chunk(new)].size \in AtLeast(block.size + 1)
    BY <1>2, <1>8, <1>11, <1>15
  <2> QED  BY <1>11, <1>12, <1>15, <2>1 DEF BlockOK
<1>17. c = With(rest, new, block)
  BY <1>1, <1>5, <1>8
<1>18. Holds(n, c, X)
  <2>1. S \subseteq DOMAIN b
    BY <1>1
  <2>2. BlockOK(n, chunk2mem(v), block) /\ c = With(rest, chunk2mem(v), block)
    BY <1>8, <1>16, <1>17
  <2>3. Sys(n, ChunksOf(rest) \cup {v}, X)
    BY <1>4, <1>6
  <2> QED  BY <1>2, <1>3, <1>4, <1>6, <1>7, <2>1, <2>2, <2>3, WithHolds
<1>19. new \notin S
  <2>1. new \in S => mem2chunk(new) \in W
    BY <1>6
  <2> QED  BY <1>2, <1>11, <2>1
<1>20. IsWith(c, rest, new, block)
  <2>1. IsWith(With(rest, new, block), rest, new, block)
    BY WithFacts
  <2> QED  BY <1>17, <2>1
<1>21. /\ DOMAIN c = S \cup {new} /\ c[new] = block /\ \A o \in S : c[o] = b[o]
  BY <1>7, <1>19, <1>20 DEF IsWith
<1>22. Reallocates(b, c)
  <2>1. mem \in DOMAIN b /\ new \in DOMAIN c /\ DOMAIN c = (DOMAIN b \ {mem}) \cup {new}
    BY <1>1, <1>2, <1>21
  <2>2. KeptIn(b, c, DOMAIN b \ {mem})
    BY <1>1, <1>21 DEF KeptIn
  <2>3. c[new].held = IF c[new].size < b[mem].held THEN c[new].size ELSE b[mem].held
    BY <1>15, <1>21
  <2> QED  BY <2>1, <2>2, <2>3 DEF Reallocates
<1> QED  BY <1>4, <1>18, <1>22 DEF OpStep

-------------------------------------------------------------------------------
(* realloc.                                                                *)
ResizedBlock(b, mem, r, n) ==
    [size |-> n, held |-> LesserOf(b[mem].held, r.copied), aligned |-> MALLOC_ALIGNMENT,
     owners |-> 1 + OwnersIn(b, r.mem) - (IF r.mem = mem THEN 1 ELSE 0)]
Resizing(b, mem, r, n) ==
    IF r.mem = NULL THEN b ELSE With(Rest(b, {mem}), r.mem, ResizedBlock(b, mem, r, n))

(* What is true of a block. *)
LEMMA BlockFacts ==
  ASSUME NEW m, NEW b, LiveOK(m, b), NEW mem \in DOMAIN b
  PROVE  /\ b[mem].held \in Nat /\ b[mem].size \in Nat /\ b[mem].held <= b[mem].size
         /\ b[mem].owners = 1 /\ b[mem].aligned \in size_t /\ mem % b[mem].aligned = 0
         /\ m.chunk[mem2chunk(mem)].size \in AtLeast(b[mem].size + 1)
         /\ mem \in Nat /\ mem >= 2 /\ mem % 2 = 0
         /\ b[mem] = [size |-> b[mem].size, held |-> b[mem].held,
                      aligned |-> b[mem].aligned, owners |-> b[mem].owners]
<1>1. BlockOK(m, mem, b[mem])
  BY DEF LiveOK
<1>2. PICK block : block = b[mem]
  OBVIOUS
<1>3. block \in BlockSet
  BY <1>1, <1>2 DEF BlockOK
<1>4. block.held \in size_t /\ block.size \in size_t /\ block.aligned \in size_t
      /\ block = [size |-> block.size, held |-> block.held,
                  aligned |-> block.aligned, owners |-> block.owners]
  BY <1>3 DEF BlockSet
<1>5. block.held \in Nat /\ block.size \in Nat
  BY <1>4, Small
<1> QED  BY <1>1, <1>2, <1>4, <1>5 DEF BlockOK

(* A chunk at v in the place of that of mem.                               *)
LEMMA ReplacedByMoved ==
  ASSUME NEW m, NEW b, NEW X, Holds(m, b, X), NEW mem \in DOMAIN b, NEW p, p = mem2chunk(mem),
         NEW bytes \in Nat, bytes < MAX_REQUEST, NEW nb, nb = request2size(bytes),
         NEW n, NEW new, NEW v, MovesTo(m, ChunksOf(b), X, n, new, nb, p, v)
  PROVE  ReplacedBy(m, b, n, X, mem, v, bytes, 2) /\ new = chunk2mem(v) /\ new \notin DOMAIN b
<1>1. PICK B : B = ChunksOf(b)
  OBVIOUS
<1>2. /\ v \in Nat /\ v \notin B /\ new = chunk2mem(v)
      /\ Goes(m, n, (B \ {p}) \cup {v}, B \ {p}, X) /\ n.chunk[v].size \in AtLeast(nb)
  BY <1>1 DEF MovesTo
<1>3. PICK C : C = (B \ {p}) \cup {v}
  OBVIOUS
<1>4. Sys(n, C, X) /\ v \in C
  BY <1>2, <1>3 DEF Goes
<1>5. Even(v)
  BY <1>4, UsedChunk
<1>6. chunk2mem(v) % 2 = 0
  BY <1>2, <1>5 DEF Even, chunk2mem
<1>7. bytes + 1 <= nb /\ nb \in Nat
  BY RequestFacts
<1>8. n.chunk[v].size \in AtLeast(bytes + 1)
  BY <1>2, <1>7 DEF AtLeast
<1>9. 2 \in size_t
  <2>1. 2 \in 0 .. MAX_SIZE_T
    BY Small, SizeFacts
  <2> QED  BY <2>1, Small
<1>10. new \notin DOMAIN b
  <2>1. LiveOK(m, b)
    BY DEF Holds
  <2>2. new \in DOMAIN b => mem2chunk(new) \in B
    BY <1>1, <2>1, ChunkOfBlock
  <2>3. mem2chunk(new) = v
    BY <1>2 DEF mem2chunk, chunk2mem
  <2> QED  BY <1>2, <2>2, <2>3
<1>11. v \notin B \ {p}
  BY <1>2
<1> QED  BY <1>1, <1>2, <1>6, <1>8, <1>9, <1>10, <1>11 DEF ReplacedBy

(* The same chunk, larger or smaller.                                      *)
LEMMA ReplacedByItself ==
  ASSUME NEW m, NEW b, NEW X, Holds(m, b, X), NEW mem \in DOMAIN b, NEW p, p = mem2chunk(mem),
         NEW bytes \in Nat, bytes < MAX_REQUEST, NEW nb, nb = request2size(bytes),
         NEW a \in size_t, mem % a = 0,
         NEW n, NEW new, InPlaceAt(m, ChunksOf(b), X, n, new, nb, p)
  PROVE  ReplacedBy(m, b, n, X, mem, p, bytes, a) /\ new = mem /\ mem = chunk2mem(p)
<1>1. PICK B : B = ChunksOf(b)
  OBVIOUS
<1>2. /\ new = chunk2mem(p) /\ Goes(m, n, B, B \ {p}, X) /\ n.chunk[p].size \in AtLeast(nb)
  BY <1>1 DEF InPlaceAt
<1>3. LiveOK(m, b)
  BY DEF Holds
<1>4. p \in B /\ p \in Nat /\ chunk2mem(p) = mem
  BY <1>1, <1>3, ChunkOfBlock
<1>5. bytes + 1 <= nb /\ nb \in Nat
  BY RequestFacts
<1>6. n.chunk[p].size \in AtLeast(bytes + 1)
  BY <1>2, <1>5 DEF AtLeast
<1>7. (B \ {p}) \cup {p} = B
  BY <1>4
<1>8. Goes(m, n, (B \ {p}) \cup {p}, B \ {p}, X)
  BY <1>2, <1>7
<1> QED  BY <1>1, <1>2, <1>4, <1>6, <1>8 DEF ReplacedBy

(* Every block is aligned to two words. *)
LEMMA TwoIsSize ==
  2 \in size_t /\ MALLOC_ALIGNMENT = 2
<1>1. 2 \in 0 .. MAX_SIZE_T
  BY Small, SizeFacts
<1> QED  BY <1>1, Small

(* realloc of a block. *)
LEMMA ReallocStep ==
  ASSUME NEW m, NEW b, NEW X, Holds(m, b, X), NEW mem \in DOMAIN b, NEW bytes \in size_t,
         NEW r, r = dlrealloc(m, mem, bytes), NEW c, c = Resizing(b, mem, r, bytes)
  PROVE  OpStep(m, b, r.m, c, X)
<1>1. PICK B, n, new, p, nb : /\ B = ChunksOf(b) /\ n = r.m /\ new = r.mem
                              /\ p = mem2chunk(mem) /\ nb = request2size(bytes)
  OBVIOUS
<1>2. LiveOK(m, b) /\ Sys(m, B, X)
  BY <1>1 DEF Holds
<1>3. p \in B /\ p \in Nat /\ chunk2mem(p) = mem /\ mem \in Nat /\ mem >= 2
  BY <1>1, <1>2, ChunkOfBlock
<1>4. r = dlrealloc(m, chunk2mem(p), bytes) /\ bytes \in Nat
  BY <1>3, Small
<1>5. \/ Stays(m, B, X, n, new)
      \/ /\ bytes < MAX_REQUEST /\ r.copied = bytes
         /\ InPlaceAt(m, B, X, n, new, nb, p)
      \/ /\ bytes < MAX_REQUEST /\ r.copied = Copied(m, mem, bytes)
         /\ \E v : MovesTo(m, B, X, n, new, nb, p, v)
  <2>1. \/ Stays(m, B, X, r.m, r.mem)
        \/ /\ bytes < MAX_REQUEST /\ r.copied = bytes
           /\ InPlaceAt(m, B, X, r.m, r.mem, nb, p)
        \/ /\ bytes < MAX_REQUEST /\ r.copied = Copied(m, chunk2mem(p), bytes)
           /\ \E v : MovesTo(m, B, X, r.m, r.mem, nb, p, v)
    BY <1>1, <1>2, <1>3, <1>4, ReallocGoes
  <2> QED  BY <1>1, <1>3, <2>1
<1>6. /\ b[mem].held \in Nat /\ b[mem].size \in Nat /\ b[mem].held <= b[mem].size
      /\ b[mem].owners = 1 /\ m.chunk[p].size \in AtLeast(b[mem].size + 1) /\ mem % 2 = 0
  BY <1>1, <1>2, BlockFacts
<1>7. CASE Stays(m, B, X, n, new)
  <2>1. c = b /\ Goes(m, n, B, B, X)
    BY <1>1, <1>7 DEF Stays, Resizing
  <2>2. OpStep(m, b, n, b, X)
    BY <1>1, <2>1, SameBlocks
  <2> QED  BY <1>1, <2>1, <2>2
<1>8. CASE bytes < MAX_REQUEST /\ r.copied = bytes /\ InPlaceAt(m, B, X, n, new, nb, p)
  <2>1. ReplacedBy(m, b, n, X, mem, p, bytes, 2) /\ new = mem
    BY <1>1, <1>4, <1>6, <1>8, TwoIsSize, ReplacedByItself
  <2>2. LesserOf(b[mem].held, r.copied) = LesserOf(bytes, b[mem].held)
    BY <1>4, <1>6, <1>8 DEF LesserOf
  <2>3. OwnersIn(b, new) = 1
    BY <1>6, <2>1 DEF OwnersIn
  <2>4. 1 + OwnersIn(b, new) - (IF new = mem THEN 1 ELSE 0) = 1
    BY <2>1, <2>3
  <2>5. ResizedBlock(b, mem, r, bytes) = NewBlock(b, mem, bytes, 2)
    BY <1>1, <2>2, <2>4, TwoIsSize DEF ResizedBlock, NewBlock
  <2>6. c = With(Rest(b, {mem}), chunk2mem(p), NewBlock(b, mem, bytes, 2))
    <3>1. new # NULL
      BY <1>3, <2>1, Small
    <3> QED  BY <1>1, <1>3, <2>1, <2>5, <3>1 DEF Resizing
  <2>7. OpStep(m, b, n, c, X)
    BY <2>1, <2>6, ReplaceStep
  <2> QED  BY <1>1, <2>7
<1>9. CASE /\ bytes < MAX_REQUEST /\ r.copied = Copied(m, mem, bytes)
           /\ \E v : MovesTo(m, B, X, n, new, nb, p, v)
  <2>1. PICK v : MovesTo(m, B, X, n, new, nb, p, v)
    BY <1>9
  <2>2. ReplacedBy(m, b, n, X, mem, v, bytes, 2) /\ new = chunk2mem(v) /\ new \notin DOMAIN b
    BY <1>1, <1>4, <1>9, <2>1, ReplacedByMoved
  <2>3. LesserOf(b[mem].held, r.copied) = LesserOf(bytes, b[mem].held)
    <3>1. PICK s : s = m.chunk[p].size
      OBVIOUS
    <3>2. s \in Nat /\ s - 1 \in Int /\ s - 1 >= b[mem].held
      <4>1. s \in Nat /\ s >= b[mem].size + 1
        BY <1>6, <3>1 DEF AtLeast
      <4> QED  BY <1>6, <4>1
    <3>3. r.copied = IF s - 1 < bytes THEN s - 1 ELSE bytes
      BY <1>1, <1>9, <3>1, Small DEF Copied, chunksize
    <3> QED  BY <1>4, <1>6, <3>2, <3>3 DEF LesserOf
  <2>4. OwnersIn(b, new) = 0 /\ new # mem
    BY <2>2 DEF OwnersIn
  <2>5. 1 + OwnersIn(b, new) - (IF new = mem THEN 1 ELSE 0) = 1
    BY <2>4
  <2>6. ResizedBlock(b, mem, r, bytes) = NewBlock(b, mem, bytes, 2)
    BY <1>1, <2>3, <2>5, TwoIsSize DEF ResizedBlock, NewBlock
  <2>7. c = With(Rest(b, {mem}), chunk2mem(v), NewBlock(b, mem, bytes, 2))
    <3>1. new # NULL
      <4>1. v \in Nat
        BY <2>2 DEF ReplacedBy
      <4> QED  BY <2>2, <4>1, Small DEF chunk2mem
    <3> QED  BY <1>1, <2>2, <2>6, <3>1 DEF Resizing
  <2>8. OpStep(m, b, n, c, X)
    BY <2>2, <2>7, ReplaceStep
  <2> QED  BY <1>1, <2>8
<1> QED  BY <1>5, <1>7, <1>8, <1>9

(* realloc_in_place.                                                       *)
ResizingInPlace(b, mem, r, n) ==
    IF r.mem = NULL THEN b
    ELSE [b EXCEPT ![mem].size = n, ![mem].held = LesserOf(@, n)]
(* It keeps the address or does nothing. *)
LEMMA InPlaceStep ==
  ASSUME NEW m, NEW b, NEW X, Holds(m, b, X), NEW mem \in DOMAIN b, NEW bytes \in size_t,
         NEW r, r = dlrealloc_in_place(m, mem, bytes), NEW c, c = ResizingInPlace(b, mem, r, bytes)
  PROVE  OpStep(m, b, r.m, c, X)
<1>1. PICK B, n, new, p, nb : /\ B = ChunksOf(b) /\ n = r.m /\ new = r.mem
                              /\ p = mem2chunk(mem) /\ nb = request2size(bytes)
  OBVIOUS
<1>2. LiveOK(m, b) /\ Sys(m, B, X)
  BY <1>1 DEF Holds
<1>3. p \in B /\ p \in Nat /\ chunk2mem(p) = mem /\ mem \in Nat /\ mem >= 2
  BY <1>1, <1>2, ChunkOfBlock
<1>4. r = dlrealloc_in_place(m, chunk2mem(p), bytes) /\ bytes \in Nat
  BY <1>3, Small
<1>5. \/ Stays(m, B, X, n, new)
      \/ bytes < MAX_REQUEST /\ InPlaceAt(m, B, X, n, new, nb, p)
  <2>1. \/ Stays(m, B, X, r.m, r.mem)
        \/ bytes < MAX_REQUEST /\ InPlaceAt(m, B, X, r.m, r.mem, nb, p)
    BY <1>1, <1>2, <1>3, <1>4, ReallocInPlaceGoes
  <2> QED  BY <1>1, <2>1
<1>6. /\ b[mem].held \in Nat /\ b[mem].owners = 1
      /\ b[mem].aligned \in size_t /\ mem % b[mem].aligned = 0
      /\ b[mem] = [size |-> b[mem].size, held |-> b[mem].held,
                   aligned |-> b[mem].aligned, owners |-> b[mem].owners]
  BY <1>2, BlockFacts
<1>7. CASE Stays(m, B, X, n, new)
  <2>1. c = b /\ Goes(m, n, B, B, X)
    BY <1>1, <1>7 DEF Stays, ResizingInPlace
  <2>2. OpStep(m, b, n, b, X)
    BY <1>1, <2>1, SameBlocks
  <2> QED  BY <1>1, <2>1, <2>2
<1>8. CASE bytes < MAX_REQUEST /\ InPlaceAt(m, B, X, n, new, nb, p)
  <2>1. PICK a, h : a = b[mem].aligned /\ h = b[mem].held
    OBVIOUS
  <2>11. a \in size_t /\ mem % a = 0
    BY <1>6, <2>1
  <2>12. InPlaceAt(m, ChunksOf(b), X, n, new, nb, p)
    BY <1>1, <1>8
  <2>2. ReplacedBy(m, b, n, X, mem, p, bytes, a) /\ new = mem
    BY <1>1, <1>4, <1>8, <2>11, <2>12, ReplacedByItself
  <2>3. LesserOf(h, bytes) = LesserOf(bytes, h)
    BY <1>4, <1>6, <2>1 DEF LesserOf
  <2>4. PICK block : block = NewBlock(b, mem, bytes, a)
    OBVIOUS
  <2>5. c = [o \in DOMAIN b |-> IF o = mem THEN block ELSE b[o]]
    <3>1. c = [b EXCEPT ![mem].size = bytes, ![mem].held = LesserOf(@, bytes)]
      <4>1. r.mem # NULL
        BY <1>1, <1>3, <2>2, Small
      <4> QED  BY <4>1 DEF ResizingInPlace
    <3>2. c = [o \in DOMAIN b |->
                  IF o = mem THEN [b[mem] EXCEPT !.size = bytes, !.held = LesserOf(@, bytes)]
                  ELSE b[o]]
      BY <1>2, <3>1 DEF LiveOK
    <3>3. PICK old, k, x : /\ old = b[mem] /\ k = [old EXCEPT !.size = bytes]
                           /\ x = LesserOf(h, bytes)
      OBVIOUS
    <3>4. k = [size |-> bytes, held |-> h, aligned |-> a, owners |-> 1]
      <4>1. old \in BlockSet
        BY <1>2, <3>3 DEF LiveOK, BlockOK
      <4>2. k = [size |-> bytes, held |-> old.held, aligned |-> old.aligned, owners |-> old.owners]
        BY <3>3, <4>1 DEF BlockSet
      <4> QED  BY <1>6, <2>1, <3>3, <4>2
    <3>5. [old EXCEPT !.size = bytes, !.held = x] = [k EXCEPT !.held = x]
      BY <3>3
    <3>6. [k EXCEPT !.held = x] = block
      <4>1. block = [size |-> bytes, held |-> x, aligned |-> a, owners |-> 1]
        BY <2>1, <2>3, <2>4, <3>3 DEF NewBlock
      <4> QED  BY <3>4, <4>1
    <3>7. [old EXCEPT !.size = bytes, !.held = LesserOf(@, bytes)] = block
      <4>1. LesserOf(old.held, bytes) = x
        BY <2>1, <3>3
      <4> QED  BY <3>5, <3>6, <4>1
    <3> QED  BY <3>2, <3>3, <3>7
  <2>6. c = With(Rest(b, {mem}), chunk2mem(p), block)
    <3>1. (DOMAIN b \ {mem}) \cup {mem} = DOMAIN b
      OBVIOUS
    <3>2. With(Rest(b, {mem}), mem, block)
          = [o \in DOMAIN b |-> IF o = mem THEN block ELSE b[o]]
      BY <3>1 DEF With, Rest
    <3> QED  BY <1>3, <2>5, <3>2
  <2>7. OpStep(m, b, n, c, X)
    BY <2>2, <2>4, <2>6, ReplaceStep
  <2> QED  BY <1>1, <2>7
<1> QED  BY <1>5, <1>7, <1>8

-------------------------------------------------------------------------------
(* Several blocks come to the others, one after the other.                 *)
AddingAll(b0, mems, b, sizes) ==
    LET after[i \in 0 .. Len(mems)] ==
            IF i = 0 THEN b0
            ELSE With(after[i - 1], mems[i], FreshBlock(b, mems[i], sizes[i], MALLOC_ALIGNMENT))
    IN after[Len(mems)]
NewMem(mems, n) == {mems[j] : j \in 1 .. n}
AddedAll(c, b0, mems, b, sizes, n) ==
    /\ DOMAIN c = DOMAIN b0 \cup NewMem(mems, n)
    /\ \A j \in 1 .. n : c[mems[j]] = FreshBlock(b, mems[j], sizes[j], MALLOC_ALIGNMENT)
    /\ \A o \in DOMAIN b0 \ NewMem(mems, n) : c[o] = b0[o]
    /\ c = [o \in DOMAIN c |-> c[o]]
(* One more of them. *)
LEMMA AddedOneMore ==
  ASSUME NEW c, NEW b0, NEW mems, NEW b, NEW sizes, NEW n \in Nat, NEW i \in 1 .. n,
         AddedAll(c, b0, mems, b, sizes, i - 1),
         \A j, l \in 1 .. n : mems[j] = mems[l] => j = l
  PROVE  AddedAll(With(c, mems[i], FreshBlock(b, mems[i], sizes[i], MALLOC_ALIGNMENT)),
                  b0, mems, b, sizes, i)
<1>1. PICK mem, block, d : /\ mem = mems[i]
                           /\ block = FreshBlock(b, mems[i], sizes[i], MALLOC_ALIGNMENT)
                           /\ d = With(c, mem, block)
  OBVIOUS
<1>2. IsWith(d, c, mem, block)
  <2>1. IsWith(With(c, mem, block), c, mem, block)
    BY WithFacts
  <2> QED  BY <1>1, <2>1
<1>3. /\ DOMAIN d = DOMAIN c \cup {mem} /\ d[mem] = block
      /\ \A o \in DOMAIN c : o # mem => d[o] = c[o]
      /\ d = [o \in DOMAIN d |-> d[o]]
  BY <1>2 DEF IsWith
<1>4. /\ DOMAIN c = DOMAIN b0 \cup NewMem(mems, i - 1)
      /\ \A j \in 1 .. i - 1 : c[mems[j]] = FreshBlock(b, mems[j], sizes[j], MALLOC_ALIGNMENT)
      /\ \A o \in DOMAIN b0 \ NewMem(mems, i - 1) : c[o] = b0[o]
  BY DEF AddedAll
<1>5. NewMem(mems, i) = NewMem(mems, i - 1) \cup {mem}
  <2>1. 1 .. i = (1 .. i - 1) \cup {i}
    OBVIOUS
  <2> QED  BY <1>1, <2>1 DEF NewMem
<1>6. \A j \in 1 .. i - 1 : mems[j] # mem
  BY <1>1
<1>7. DOMAIN d = DOMAIN b0 \cup NewMem(mems, i)
  BY <1>3, <1>4, <1>5
<1>8. \A j \in 1 .. i : d[mems[j]] = FreshBlock(b, mems[j], sizes[j], MALLOC_ALIGNMENT)
  <2> SUFFICES ASSUME NEW j \in 1 .. i
               PROVE d[mems[j]] = FreshBlock(b, mems[j], sizes[j], MALLOC_ALIGNMENT)
    OBVIOUS
  <2>1. CASE j = i
    BY <1>1, <1>3, <2>1
  <2>2. CASE j # i
    <3>1. j \in 1 .. i - 1
      BY <2>2
    <3>2. mems[j] \in DOMAIN c
      BY <1>4, <3>1 DEF NewMem
    <3> QED  BY <1>3, <1>4, <1>6, <3>1, <3>2
  <2> QED  BY <2>1, <2>2
<1>9. \A o \in DOMAIN b0 \ NewMem(mems, i) : d[o] = b0[o]
  BY <1>3, <1>4, <1>5
<1>10. AddedAll(d, b0, mems, b, sizes, i)
  BY <1>3, <1>7, <1>8, <1>9 DEF AddedAll
<1> QED  BY <1>1, <1>10

(* All of them. *)
LEMMA AddingAllFacts ==
  ASSUME NEW b0, b0 = [o \in DOMAIN b0 |-> b0[o]], NEW mems, NEW n \in Nat, Len(mems) = n,
         NEW b, NEW sizes, \A j, l \in 1 .. n : mems[j] = mems[l] => j = l,
         NEW c, c = AddingAll(b0, mems, b, sizes)
  PROVE  AddedAll(c, b0, mems, b, sizes, n)
<1> DEFINE fresh(i) == FreshBlock(b, mems[i], sizes[i], MALLOC_ALIGNMENT)
           body(f) == [i \in 0 .. n |-> IF i = 0 THEN b0 ELSE With(f[i - 1], mems[i], fresh(i))]
           U == DOMAIN b0 \cup NewMem(mems, n)
           V == {b0[o] : o \in DOMAIN b0} \cup {fresh(i) : i \in 1 .. n}
           S == UNION {[D -> V] : D \in SUBSET U}
           step == [i \in 1 .. n |-> [s \in S |-> With(s, mems[i], fresh(i))]]
           after == CHOOSE f : f = body(f)
<1>1. b0 \in S
  <2>1. b0 \in [DOMAIN b0 -> V] /\ DOMAIN b0 \in SUBSET U
    OBVIOUS
  <2> HIDE DEF U, V
  <2> QED  BY <2>1
<1>2. step \in StepFunctions(S, n)
  <2> SUFFICES ASSUME NEW i \in 1 .. n, NEW s \in S PROVE With(s, mems[i], fresh(i)) \in S
    BY DEF StepFunctions
  <2>1. PICK D \in SUBSET U : s \in [D -> V]
    OBVIOUS
  <2>2. mems[i] \in U /\ fresh(i) \in V
    BY DEF NewMem
  <2>3. PICK mem, block, d : mem = mems[i] /\ block = fresh(i) /\ d = With(s, mem, block)
    OBVIOUS
  <2> HIDE DEF U, V, fresh
  <2>4. d = [o \in D \cup {mem} |-> IF o = mem THEN block ELSE s[o]]
    BY <2>1, <2>3 DEF With
  <2>5. d \in [D \cup {mem} -> V] /\ D \cup {mem} \in SUBSET U
    BY <2>1, <2>2, <2>3, <2>4
  <2> QED  BY <2>3, <2>5
<1>3. c = after[n]
  BY DEF AddingAll
<1> HIDE DEF U, V, S, after, fresh, step
<1>4. PICK g : IsRecursion(g, S, n, b0, step)
  BY <1>1, <1>2, Recursion
<1>5. \A i \in 1 .. n : i \in 0 .. n /\ i - 1 \in 0 .. n /\ i # 0
  OBVIOUS
<1>6. g[0] = b0 /\ g \in [0 .. n -> S]
      /\ \A i \in 1 .. n : g[i] = With(g[i - 1], mems[i], fresh(i))
  BY <1>4, <1>5 DEF IsRecursion, step
<1>7. g = body(g)
  <2>1. \A i \in 0 .. n : g[i] = body(g)[i]
    <3>1. \A i \in 0 .. n : i = 0 \/ i \in 1 .. n
      OBVIOUS
    <3> QED  BY <1>5, <1>6, <3>1
  <2>2. body(g) = [i \in 0 .. n |-> body(g)[i]]
    OBVIOUS
  <2> HIDE DEF body
  <2> QED  BY <1>6, <2>1, <2>2
<1>8. after = body(after)
  <2> HIDE DEF body
  <2> QED  BY <1>7 DEF after
<1> DEFINE T == {i \in 0 .. n : AddedAll(after[i], b0, mems, b, sizes, i)}
<1>9. 0 \in T
  <2>1. after[0] = b0
    <3>1. 0 \in 0 .. n
      OBVIOUS
    <3> QED  BY <1>8, <3>1
  <2>2. NewMem(mems, 0) = {}
    BY DEF NewMem
  <2>3. \A j \in 1 .. 0 : FALSE
    OBVIOUS
  <2>4. AddedAll(b0, b0, mems, b, sizes, 0)
    BY <2>2, <2>3 DEF AddedAll
  <2> QED  BY <2>1, <2>4
<1>10. ASSUME NEW i \in 1 .. n, i - 1 \in T PROVE i \in T
  <2>1. PICK e : e = after[i - 1]
    OBVIOUS
  <2>2. AddedAll(e, b0, mems, b, sizes, i - 1)
    BY <1>10, <2>1
  <2>3. after[i] = With(e, mems[i], fresh(i))
    BY <1>5, <1>8, <2>1
  <2>4. AddedAll(With(e, mems[i], FreshBlock(b, mems[i], sizes[i], MALLOC_ALIGNMENT)),
                 b0, mems, b, sizes, i)
    BY <2>2, AddedOneMore
  <2> QED  BY <2>3, <2>4 DEF fresh
<1>11. n \in T
  <2> HIDE DEF T
  <2>1. \A i \in 0 .. n : i \in T
    BY <1>9, <1>10, IntervalInduction
  <2> QED  BY <2>1
<1> QED  BY <1>3, <1>11

-------------------------------------------------------------------------------
(* independent_calloc: the blocks of the program and those that are new.   *)
WithArray(b, array, n) ==
    IF array = NULL THEN b ELSE With(b, array, FreshBlock(b, array, n, MALLOC_ALIGNMENT))
HasElements(c, b, sizes, n, at, given, k, v) ==
    /\ DOMAIN c = DOMAIN b \cup {chunk2mem(v + at[i]) : i \in 1 .. k}
    /\ \A o \in DOMAIN b : c[o] = b[o]
    /\ \A i \in 1 .. n : c[chunk2mem(v + at[i])]
                          = FreshBlock(b, chunk2mem(v + at[i]), sizes[i], MALLOC_ALIGNMENT)
    /\ ~given => c[chunk2mem(v + at[n + 1])]
                 = FreshBlock(b, chunk2mem(v + at[n + 1]), n, MALLOC_ALIGNMENT)
    /\ c = [o \in DOMAIN c |-> c[o]]
    /\ \A i \in 1 .. k : chunk2mem(v + at[i]) \notin DOMAIN b
(* The blocks afterwards. *)
LEMMA ElementsAdded ==
  ASSUME NEW m, NEW b, NEW X, Holds(m, b, X), NEW sizes, ListOK(sizes), NEW n, n = Len(sizes),
         NEW at, at = offsets(sizes), NEW given \in BOOLEAN, NEW k, k = NumberOfPieces(n, given),
         NEW r, NEW v, Aggregate(m, ChunksOf(b), X, r, sizes, n, at, given, k, v),
         NEW c, c = AddingAll(WithArray(b, r.array, n), r.mems, b, sizes)
  PROVE  HasElements(c, b, sizes, n, at, given, k, v)
<1>1. PICK B, mems, array, b0 : /\ B = ChunksOf(b) /\ mems = r.mems /\ array = r.array
                                /\ b0 = WithArray(b, array, n)
  OBVIOUS
<1>2. /\ v \in Nat /\ B \cap Pieces(v, at, k) = {}
      /\ \A i, j \in 1 .. k : i # j => v + at[i] # v + at[j]
      /\ \A i \in 1 .. k : v + at[i] \in Nat
      /\ mems = [i \in 1 .. n |-> chunk2mem(v + at[i])]
      /\ array = IF given THEN NULL ELSE chunk2mem(v + at[n + 1])
  BY <1>1 DEF Aggregate
<1>3. LiveOK(m, b)
  BY DEF Holds
<1>4. n \in Nat /\ (given => k = n) /\ (~given => k = n + 1) /\ n <= k /\ k \in Nat
  <2>1. n \in Nat
    BY ListFacts
  <2> QED  BY <2>1 DEF NumberOfPieces
<1>5. PICK q : q = [i \in 1 .. k |-> chunk2mem(v + at[i])]
  OBVIOUS
<1>6. /\ \A i \in 1 .. k : q[i] = chunk2mem(v + at[i]) /\ q[i] \in Nat /\ q[i] >= 2
                           /\ q[i] \notin DOMAIN b
      /\ \A i, j \in 1 .. k : i # j => q[i] # q[j]
  <2>1. ASSUME NEW i \in 1 .. k
        PROVE  q[i] = chunk2mem(v + at[i]) /\ q[i] \in Nat /\ q[i] >= 2 /\ q[i] \notin DOMAIN b
    <3>1. PICK p : p = v + at[i]
      OBVIOUS
    <3>2. p \in Nat /\ p \notin B /\ q[i] = p + 2
      BY <1>2, <1>5, <3>1 DEF Pieces, chunk2mem
    <3>3. q[i] \in DOMAIN b => mem2chunk(q[i]) \in B
      BY <1>1, <1>3, ChunkOfBlock
    <3>4. mem2chunk(q[i]) = p
      BY <3>2 DEF mem2chunk
    <3> QED  BY <1>5, <3>2, <3>3, <3>4
  <2>2. ASSUME NEW i \in 1 .. k, NEW j \in 1 .. k, i # j PROVE q[i] # q[j]
    <3>1. PICK x, y : x = v + at[i] /\ y = v + at[j]
      OBVIOUS
    <3>2. x # y /\ x \in Nat /\ y \in Nat /\ q[i] = x + 2 /\ q[j] = y + 2
      BY <1>2, <1>5, <2>2, <3>1 DEF chunk2mem
    <3> QED  BY <3>2
  <2> QED  BY <2>1, <2>2
<1>7. \A i \in 1 .. n : i \in 1 .. k /\ mems[i] = q[i]
  BY <1>2, <1>4, <1>5
<1>8. Len(mems) = n
  <2>1. mems \in Seq(Nat)
    <3>1. \A i \in 1 .. n : mems[i] \in Nat
      BY <1>6, <1>7
    <3>2. mems = [i \in 1 .. n |-> mems[i]]
      BY <1>2
    <3>3. mems \in [1 .. n -> Nat]
      BY <3>1, <3>2
    <3> QED  BY <1>4, <3>3, SeqDef
  <2>2. DOMAIN mems = 1 .. n
    BY <1>2
  <2> QED  BY <1>4, <2>1, <2>2, LenProperties
<1>9. \A j, l \in 1 .. n : mems[j] = mems[l] => j = l
  BY <1>6, <1>7
<1>10. /\ DOMAIN b0 = DOMAIN b \cup (IF given THEN {} ELSE {q[k]})
       /\ \A o \in DOMAIN b : b0[o] = b[o]
       /\ ~given => b0[q[k]] = FreshBlock(b, q[k], n, MALLOC_ALIGNMENT) /\ k \in 1 .. k
       /\ b0 = [o \in DOMAIN b0 |-> b0[o]]
  <2>1. CASE given
    <3>1. b0 = b
      BY <1>1, <1>2, <2>1 DEF WithArray
    <3> QED  BY <1>3, <2>1, <3>1 DEF LiveOK
  <2>2. CASE ~given
    <3>1. k \in 1 .. k /\ k = n + 1
      BY <1>4, <2>2
    <3>2. array = q[k]
      BY <1>2, <1>6, <2>2, <3>1
    <3>3. PICK e, block : e = q[k] /\ block = FreshBlock(b, e, n, MALLOC_ALIGNMENT)
      OBVIOUS
    <3>4. e # NULL /\ e \notin DOMAIN b
      BY <1>6, <3>1, <3>3, Small
    <3>5. IsWith(With(b, e, block), b, e, block)
      BY WithFacts
    <3>6. b0 = With(b, e, block)
      BY <1>1, <3>2, <3>3, <3>4 DEF WithArray
    <3>7. /\ DOMAIN b0 = DOMAIN b \cup {e} /\ b0[e] = block
          /\ \A o \in DOMAIN b : o # e => b0[o] = b[o]
          /\ b0 = [o \in DOMAIN b0 |-> b0[o]]
      BY <3>5, <3>6 DEF IsWith
    <3> QED  BY <2>2, <3>1, <3>3, <3>4, <3>7
  <2> QED  BY <2>1, <2>2
<1>11. AddedAll(c, b0, mems, b, sizes, n)
  <2>1. c = AddingAll(b0, mems, b, sizes)
    BY <1>1
  <2> QED  BY <1>4, <1>8, <1>9, <1>10, <2>1, AddingAllFacts
<1>12. /\ DOMAIN c = DOMAIN b0 \cup NewMem(mems, n)
       /\ \A j \in 1 .. n : c[mems[j]] = FreshBlock(b, mems[j], sizes[j], MALLOC_ALIGNMENT)
       /\ \A o \in DOMAIN b0 \ NewMem(mems, n) : c[o] = b0[o]
       /\ c = [o \in DOMAIN c |-> c[o]]
  BY <1>11 DEF AddedAll
<1>13. NewMem(mems, n) = {q[i] : i \in 1 .. n}
  BY <1>7 DEF NewMem
<1>14. (IF given THEN {} ELSE {q[k]}) \cup {q[i] : i \in 1 .. n} = {q[i] : i \in 1 .. k}
  <2>1. CASE given
    BY <1>4, <2>1
  <2>2. CASE ~given
    <3>1. 1 .. k = (1 .. n) \cup {k}
      BY <1>4, <2>2
    <3> QED  BY <2>2, <3>1
  <2> QED  BY <2>1, <2>2
<1>15. DOMAIN c = DOMAIN b \cup {q[i] : i \in 1 .. k}
  BY <1>10, <1>12, <1>13, <1>14
<1>16. {q[i] : i \in 1 .. k} = {chunk2mem(v + at[i]) : i \in 1 .. k}
  BY <1>6
<1>17. \A o \in DOMAIN b : c[o] = b[o]
  <2>1. \A o \in DOMAIN b : o \notin NewMem(mems, n)
    BY <1>6, <1>7, <1>13
  <2> QED  BY <1>10, <1>12, <2>1
<1>18. \A i \in 1 .. n : c[q[i]] = FreshBlock(b, q[i], sizes[i], MALLOC_ALIGNMENT)
  BY <1>7, <1>12
<1>19. ~given => c[q[k]] = FreshBlock(b, q[k], n, MALLOC_ALIGNMENT)
  <2> SUFFICES ASSUME ~given PROVE c[q[k]] = FreshBlock(b, q[k], n, MALLOC_ALIGNMENT)
    OBVIOUS
  <2>1. k \in 1 .. k /\ \A i \in 1 .. n : i # k
    BY <1>4, <1>10
  <2>2. q[k] \notin NewMem(mems, n)
    BY <1>6, <1>7, <1>13, <2>1
  <2> QED  BY <1>10, <1>12, <2>2
<1>20. ~given => q[k] = chunk2mem(v + at[n + 1])
  BY <1>4, <1>6, <1>10
<1>21. \A i \in 1 .. n : c[chunk2mem(v + at[i])]
                           = FreshBlock(b, chunk2mem(v + at[i]), sizes[i], MALLOC_ALIGNMENT)
  BY <1>6, <1>7, <1>18
<1>22. \A i \in 1 .. k : chunk2mem(v + at[i]) \notin DOMAIN b
  BY <1>6
<1>23. DOMAIN c = DOMAIN b \cup {chunk2mem(v + at[i]) : i \in 1 .. k}
  BY <1>15, <1>16
<1>24. ~given => c[chunk2mem(v + at[n + 1])]
                 = FreshBlock(b, chunk2mem(v + at[n + 1]), n, MALLOC_ALIGNMENT)
  BY <1>19, <1>20
<1> QED  BY <1>12, <1>17, <1>21, <1>22, <1>23, <1>24 DEF HasElements

-------------------------------------------------------------------------------
(* Each of them is right, *)
LEMMA AggregateStep ==
  ASSUME NEW m, NEW b, NEW X, Holds(m, b, X), NEW sizes, ListOK(sizes), NEW n, n = Len(sizes),
         NEW at, at = offsets(sizes), NEW given \in BOOLEAN, NEW k, k = NumberOfPieces(n, given),
         NEW r, NEW v, Aggregate(m, ChunksOf(b), X, r, sizes, n, at, given, k, v),
         NEW c, c = AddingAll(WithArray(b, r.array, n), r.mems, b, sizes)
  PROVE  OpStep(m, b, r.m, c, X)
<1>1. PICK B, N : B = ChunksOf(b) /\ N = r.m
  OBVIOUS
<1>2. PICK P, M : P = Pieces(v, at, k) /\ M = {chunk2mem(v + at[i]) : i \in 1 .. k}
  OBVIOUS
<1>3. /\ v \in Nat /\ B \cap P = {}
      /\ Goes(m, N, B \cup P, B, X)
      /\ \A i \in 1 .. k : v + at[i] \in Nat
      /\ \A i \in 1 .. n : N.chunk[v + at[i]].size >= sizes[i] + 1
      /\ ~given => N.chunk[v + at[n + 1]].size >= n + 1
  BY <1>1, <1>2 DEF Aggregate
<1>4. PICK C : C = B \cup P
  OBVIOUS
<1>5. Sys(N, C, X) /\ Keeps(m, N, B) /\ Within(m, N)
  BY <1>3, <1>4 DEF Goes
<1>6. /\ DOMAIN c = DOMAIN b \cup M
      /\ \A o \in DOMAIN b : c[o] = b[o]
      /\ \A i \in 1 .. n : c[chunk2mem(v + at[i])]
                            = FreshBlock(b, chunk2mem(v + at[i]), sizes[i], MALLOC_ALIGNMENT)
      /\ ~given => c[chunk2mem(v + at[n + 1])]
                   = FreshBlock(b, chunk2mem(v + at[n + 1]), n, MALLOC_ALIGNMENT)
      /\ c = [o \in DOMAIN c |-> c[o]]
      /\ \A i \in 1 .. k : chunk2mem(v + at[i]) \notin DOMAIN b
  <2>1. HasElements(c, b, sizes, n, at, given, k, v)
    BY ElementsAdded
  <2> QED  BY <1>2, <2>1 DEF HasElements
<1>7. /\ n \in Nat /\ n < MAX_REQUEST /\ \A i \in 1 .. n : sizes[i] \in Requests
  BY ListFacts
<1>8. (given => k = n) /\ (~given => k = n + 1) /\ n <= k
  BY <1>7 DEF NumberOfPieces
<1>9. LiveOK(m, b)
  BY DEF Holds
<1>10. ASSUME NEW i \in 1 .. k, NEW s \in Nat, s < MAX_REQUEST,
              N.chunk[v + at[i]].size >= s + 1
       PROVE  BlockOK(N, chunk2mem(v + at[i]),
                      FreshBlock(b, chunk2mem(v + at[i]), s, MALLOC_ALIGNMENT))
  <2>1. PICK p : p = v + at[i]
    OBVIOUS
  <2>2. p \in Nat /\ p \in C /\ chunk2mem(p) \notin DOMAIN b
    BY <1>2, <1>3, <1>4, <1>6, <2>1 DEF Pieces
  <2>3. Even(p) /\ N.chunk[p].size \in Nat
    BY <1>5, <2>2, UsedChunk
  <2>4. N.chunk[p].size \in AtLeast(s + 1)
    BY <1>10, <2>1, <2>3 DEF AtLeast
  <2>5. chunk2mem(p) % 2 = 0
    BY <2>2, <2>3 DEF Even, chunk2mem
  <2>6. BlockOK(N, chunk2mem(p), FreshBlock(b, chunk2mem(p), s, 2))
    BY <1>10, <2>2, <2>3, <2>4, <2>5, TwoIsSize, FreshOK
  <2> QED  BY <2>1, <2>6, TwoIsSize
<1>11. ASSUME NEW i \in 1 .. k
       PROVE  /\ BlockOK(N, chunk2mem(v + at[i]), c[chunk2mem(v + at[i])])
              /\ c[chunk2mem(v + at[i])].held = c[chunk2mem(v + at[i])].size
  <2>1. CASE i \in 1 .. n
    <3>1. PICK s : s = sizes[i]
      OBVIOUS
    <3>2. s \in Nat /\ s < MAX_REQUEST
      <4>1. s \in 0 .. MAX_REQUEST - 1 /\ MAX_REQUEST \in Nat
        BY <1>7, <2>1, <3>1, Small, SizeFacts DEF Requests
      <4> QED  BY <4>1
    <3>3. c[chunk2mem(v + at[i])] = FreshBlock(b, chunk2mem(v + at[i]), s, MALLOC_ALIGNMENT)
      BY <1>6, <2>1, <3>1
    <3>4. N.chunk[v + at[i]].size >= s + 1
      BY <1>3, <2>1, <3>1
    <3>5. BlockOK(N, chunk2mem(v + at[i]),
                  FreshBlock(b, chunk2mem(v + at[i]), s, MALLOC_ALIGNMENT))
      BY <1>10, <3>2, <3>4
    <3> QED  BY <3>3, <3>5 DEF FreshBlock
  <2>2. CASE i \notin 1 .. n
    <3>1. ~given /\ i = n + 1
      BY <1>7, <1>8, <2>2
    <3>2. c[chunk2mem(v + at[i])] = FreshBlock(b, chunk2mem(v + at[i]), n, MALLOC_ALIGNMENT)
      BY <1>6, <3>1
    <3>3. N.chunk[v + at[i]].size >= n + 1
      BY <1>3, <3>1
    <3>4. BlockOK(N, chunk2mem(v + at[i]),
                  FreshBlock(b, chunk2mem(v + at[i]), n, MALLOC_ALIGNMENT))
      BY <1>7, <1>10, <3>3
    <3> QED  BY <3>2, <3>4 DEF FreshBlock
  <2> QED  BY <2>1, <2>2
<1>12. \A o \in DOMAIN b : BlockOK(N, o, b[o])
  <2>1. \A o \in DOMAIN b : mem2chunk(o) \in B
    BY <1>1, <1>9, ChunkOfBlock
  <2>2. PICK S : S = DOMAIN b
    OBVIOUS
  <2>3. S \subseteq DOMAIN b /\ \A o \in S : mem2chunk(o) \in B
    BY <2>1, <2>2
  <2>4. \A o \in S : BlockOK(N, o, b[o])
    BY <1>5, <1>9, <2>3, BlocksKept
  <2> QED  BY <2>2, <2>4
<1>13. LiveOK(N, c)
  <2>1. ASSUME NEW o \in DOMAIN c PROVE BlockOK(N, o, c[o])
    <3>1. CASE o \in DOMAIN b
      BY <1>6, <1>12, <3>1
    <3>2. CASE o \notin DOMAIN b
      <4>1. PICK i \in 1 .. k : o = chunk2mem(v + at[i])
        BY <1>2, <1>6, <3>2
      <4> QED  BY <1>11, <4>1
    <3> QED  BY <3>1, <3>2
  <2> QED  BY <1>6, <2>1 DEF LiveOK
<1>14. ChunksOf(c) = C
  <2>1. \A i \in 1 .. k : mem2chunk(chunk2mem(v + at[i])) = v + at[i]
    <3> SUFFICES ASSUME NEW i \in 1 .. k PROVE mem2chunk(chunk2mem(v + at[i])) = v + at[i]
      OBVIOUS
    <3>1. v + at[i] \in Nat
      BY <1>3
    <3> QED  BY <3>1 DEF mem2chunk, chunk2mem
  <2>2. {mem2chunk(o) : o \in M} = P
    BY <1>2, <2>1 DEF Pieces
  <2>3. ChunksOf(c) = {mem2chunk(o) : o \in DOMAIN b} \cup {mem2chunk(o) : o \in M}
    BY <1>6 DEF ChunksOf
  <2> QED  BY <1>1, <1>4, <2>2, <2>3 DEF ChunksOf
<1>15. Allocates(b, c)
  <2>1. \A o \in DOMAIN c \ DOMAIN b : c[o].held = c[o].size
    <3> SUFFICES ASSUME NEW o \in DOMAIN c \ DOMAIN b PROVE c[o].held = c[o].size
      OBVIOUS
    <3>1. PICK i \in 1 .. k : o = chunk2mem(v + at[i])
      BY <1>2, <1>6
    <3> QED  BY <1>11, <3>1
  <2> QED  BY <1>6, <2>1 DEF Allocates, KeptIn
<1>16. Sys(N, ChunksOf(c), X)
  BY <1>5, <1>14
<1>17. OpStep(m, b, N, c, X)
  BY <1>5, <1>13, <1>15, <1>16 DEF OpStep, Holds
<1> QED  BY <1>1, <1>17

(* and the whole call is a step. *)
LEMMA IndependentStep ==
  ASSUME NEW m, NEW b, NEW X, Holds(m, b, X), NEW sizes, ListOK(sizes),
         NEW given \in BOOLEAN, NEW r, r = ialloc(m, sizes, given),
         NEW c, c = AddingAll(WithArray(b, r.array, Len(sizes)), r.mems, b, sizes)
  PROVE  OpStep(m, b, r.m, c, X)
<1>1. PICK n, at, k, B : /\ n = Len(sizes) /\ at = offsets(sizes) /\ k = NumberOfPieces(n, given)
                         /\ B = ChunksOf(b)
  OBVIOUS
<1>2. Sys(m, B, X) /\ LiveOK(m, b)
  BY <1>1 DEF Holds
<1>3. \/ NoAggregate(m, B, X, r)
      \/ \E v : Aggregate(m, B, X, r, sizes, n, at, given, k, v)
  BY <1>1, <1>2, IallocGoes
<1>4. CASE NoAggregate(m, B, X, r)
  <2>1. r.mems = <<>> /\ r.array = NULL /\ Goes(m, r.m, B, B, X)
    BY <1>4 DEF NoAggregate
  <2>2. c = AddingAll(b, <<>>, b, sizes)
    BY <2>1 DEF WithArray
  <2>3. PICK mems : mems = <<>>
    OBVIOUS
  <2>4. Len(mems) = 0 /\ b = [o \in DOMAIN b |-> b[o]]
    BY <1>2, <2>3 DEF LiveOK
  <2>5. \A j, l \in 1 .. 0 : mems[j] = mems[l] => j = l
    OBVIOUS
  <2>6. AddedAll(c, b, mems, b, sizes, 0)
    BY <2>2, <2>3, <2>4, <2>5, AddingAllFacts
  <2>7. NewMem(mems, 0) = {}
    BY DEF NewMem
  <2>8. c = b
    BY <2>4, <2>6, <2>7 DEF AddedAll
  <2>9. OpStep(m, b, r.m, b, X)
    BY <1>1, <2>1, SameBlocks
  <2> QED  BY <2>8, <2>9
<1>5. CASE \E v : Aggregate(m, B, X, r, sizes, n, at, given, k, v)
  <2>1. PICK v : Aggregate(m, ChunksOf(b), X, r, sizes, n, at, given, k, v)
    BY <1>1, <1>5
  <2>2. c = AddingAll(WithArray(b, r.array, n), r.mems, b, sizes)
    BY <1>1
  <2> QED  BY <1>1, <2>1, <2>2, AggregateStep
<1> QED  BY <1>3, <1>4, <1>5

-------------------------------------------------------------------------------
(* bulk_free of two blocks.                                                *)
IsPair(array, x, y) == array = <<x, y>> \/ array = <<x, NULL, y>>
(* An array of two blocks, with or without a gap. *)
LEMMA PairOK ==
  ASSUME NEW x \in Nat, NEW y \in Nat, x >= 2, y >= 2, x # y, NEW array, IsPair(array, x, y)
  PROVE  ArrayOK(array) /\ Listed(array) = {mem2chunk(x), mem2chunk(y)}
         /\ Range(array) \ {NULL} = {x, y}
<1>1. NULL = 0
  BY Small
<1>2. CASE array = <<x, y>>
  <2>1. array \in Seq(Nat) /\ Len(array) = 2 /\ array[1] = x /\ array[2] = y
        /\ DOMAIN array = 1 .. 2
    BY <1>2
  <2>2. \A j \in 1 .. 2 : j = 1 \/ j = 2
    OBVIOUS
  <2>3. ArrayOK(array)
    BY <2>1, <2>2 DEF ArrayOK
  <2>4. Range(array) = {x, y}
    BY <2>1, <2>2 DEF Range
  <2>5. Listed(array) = {x - 2, y - 2}
    <3>1. \A p \in Nat : p \in Listed(array) <=> x = p + 2 \/ y = p + 2
      BY <2>1, <2>2 DEF Listed, chunk2mem
    <3>2. \A p \in Nat : (x = p + 2 <=> p = x - 2) /\ (y = p + 2 <=> p = y - 2)
      OBVIOUS
    <3>3. x - 2 \in Nat /\ y - 2 \in Nat /\ Listed(array) \subseteq Nat
      BY DEF Listed
    <3> QED  BY <3>1, <3>2, <3>3
  <2> QED  BY <1>1, <2>3, <2>4, <2>5 DEF mem2chunk
<1>3. CASE array = <<x, NULL, y>>
  <2>1. array \in Seq(Nat) /\ Len(array) = 3 /\ array[1] = x /\ array[2] = 0 /\ array[3] = y
        /\ DOMAIN array = 1 .. 3
    BY <1>1, <1>3
  <2>2. \A j \in 1 .. 3 : j = 1 \/ j = 2 \/ j = 3
    OBVIOUS
  <2>3. ArrayOK(array)
    BY <1>1, <2>1, <2>2 DEF ArrayOK
  <2>4. Range(array) = {x, 0, y}
    BY <2>1, <2>2 DEF Range
  <2>5. Listed(array) = {x - 2, y - 2}
    <3>1. \A p \in Nat : p \in Listed(array) <=> x = p + 2 \/ y = p + 2
      BY <2>1, <2>2 DEF Listed, chunk2mem
    <3>2. \A p \in Nat : (x = p + 2 <=> p = x - 2) /\ (y = p + 2 <=> p = y - 2)
      OBVIOUS
    <3>3. x - 2 \in Nat /\ y - 2 \in Nat /\ Listed(array) \subseteq Nat
      BY DEF Listed
    <3> QED  BY <3>1, <3>2, <3>3
  <2> QED  BY <1>1, <2>3, <2>4, <2>5 DEF mem2chunk
<1> QED  BY <1>2, <1>3 DEF IsPair

(* Both blocks are freed. *)
LEMMA BulkFreeStep ==
  ASSUME NEW m, NEW b, NEW X, Holds(m, b, X), NEW x \in DOMAIN b, NEW y \in DOMAIN b, x # y,
         NEW array, IsPair(array, x, y), NEW n, n = internal_bulk_free(m, array),
         NEW c, c = Rest(b, Range(array))
  PROVE  OpStep(m, b, n, c, X)
<1>1. LiveOK(m, b)
  BY DEF Holds
<1>2. PICK B, S, F : B = ChunksOf(b) /\ S = {x, y} /\ F = {mem2chunk(x), mem2chunk(y)}
  OBVIOUS
<1>3. Sys(m, B, X)
  BY <1>2 DEF Holds
<1>4. \A mem \in DOMAIN b : mem \in Nat /\ mem >= 2 /\ mem2chunk(mem) \in B
  BY <1>1, <1>2, ChunkOfBlock
<1>5. ArrayOK(array) /\ Listed(array) = F /\ Range(array) \ {NULL} = S
  BY <1>2, <1>4, PairOK
<1>6. F \subseteq B
  BY <1>2, <1>4
<1>7. Goes(m, n, B \ F, B \ F, X)
  <2>1. F = Listed(array)
    BY <1>5
  <2> QED  BY <1>3, <1>5, <1>6, <2>1, BulkFreeGoes
<1>8. DOMAIN b \ Range(array) = DOMAIN b \ S
  <2>1. NULL \notin DOMAIN b
    BY <1>4, Small
  <2> QED  BY <1>5, <2>1
<1>9. c = Rest(b, S)
  BY <1>8 DEF Rest
<1>10. F = {mem2chunk(o) : o \in S} /\ S \subseteq DOMAIN b
  BY <1>2
<1>11. Goes(m, n, ChunksOf(b) \ F, ChunksOf(b) \ F, X)
  BY <1>2, <1>7
<1> QED  BY <1>9, <1>10, <1>11, FewerStep

-------------------------------------------------------------------------------
(* What the allocator is told, and what others do, changes no block.       *)
LEMMA SettingHolds ==
  ASSUME NEW m, NEW b, NEW X, Holds(m, b, X), NEW n, NEW Y, Sys(n, ChunksOf(b), Y),
         Keeps(m, n, ChunksOf(b))
  PROVE  Holds(n, b, Y)
<1>1. LiveOK(m, b)
  BY DEF Holds
<1>2. \A mem \in DOMAIN b : mem2chunk(mem) \in ChunksOf(b)
  BY <1>1, ChunkOfBlock
<1>3. PICK W, S : W = ChunksOf(b) /\ S = DOMAIN b
  OBVIOUS
<1>4. \A mem \in S : BlockOK(n, mem, b[mem])
  <2>1. Keeps(m, n, W) /\ S \subseteq DOMAIN b /\ \A mem \in S : mem2chunk(mem) \in W
    BY <1>2, <1>3
  <2> QED  BY <1>1, <2>1, BlocksKept
<1>5. LiveOK(n, b)
  BY <1>1, <1>3, <1>4 DEF LiveOK
<1> QED  BY <1>5 DEF Holds

(* A record with these fields is a state. *)
LEMMA RecordInState ==
  ASSUME NEW f1 \in [SmallSizes -> Seq(Addr)], NEW f2 \in [LargeSizes -> Seq(Addr)],
         NEW f3 \in [Addr -> HeaderSet], NEW q \in Seq(SegmentSet), NEW e \in Addr,
         0 \in Addr, NULL \in Addr, 0 \in size_t
  PROVE  [smallmap |-> {}, smallbins |-> f1, treebins |-> f2,
          dv |-> NULL, dvsize |-> 0, top |-> NULL, topsize |-> 0,
          least_addr |-> 0, trim_check |-> 0,
          footprint |-> 0, max_footprint |-> 0, footprint_limit |-> 0,
          noncontiguous |-> FALSE, seg |-> q,
          granularity |-> 0, trim_threshold |-> 0,
          chunk |-> f3, brk |-> e, aborted |-> FALSE] \in State
BY DEF State

(* The first state.                                                        *)
LEMMA FirstHolds ==
  ASSUME NEW t \in 0 .. BrkLimit - Brk0, NEW X, X = Brk0 .. Brk0 + t - 1,
         NEW m, m = [InitialState EXCEPT !.brk = Brk0 + t],
         NEW b, b = [mem \in {} |-> [size |-> 0, held |-> 0, aligned |-> 0, owners |-> 0]]
  PROVE  Holds(m, b, X)
<1>1. Brk0 \in Nat /\ BrkLimit \in Nat /\ t \in Nat /\ Brk0 + t \in Addr
      /\ Brk0 <= Brk0 + t
  <2>1. Brk0 \in Nat /\ BrkLimit \in Nat
    BY Small
  <2>2. t \in Nat /\ Brk0 + t \in 0 .. BrkLimit
    BY <2>1
  <2> QED  BY <2>1, <2>2, Small
<1>2. PICK e : e = Brk0 + t
  OBVIOUS
<1>3. /\ m = [InitialState EXCEPT !.brk = e]
      /\ e \in Addr /\ e \in Nat /\ Brk0 <= e
  BY <1>1, <1>2
<1>4. m = [smallmap |-> {}, smallbins |-> [s \in SmallSizes |-> <<>>],
           treebins |-> [s \in LargeSizes |-> <<>>],
           dv |-> NULL, dvsize |-> 0, top |-> NULL, topsize |-> 0,
           least_addr |-> 0, trim_check |-> 0,
           footprint |-> 0, max_footprint |-> 0, footprint_limit |-> 0,
           noncontiguous |-> FALSE, seg |-> <<>>,
           granularity |-> 0, trim_threshold |-> 0,
           chunk |-> [a \in Addr |-> NoChunk], brk |-> e, aborted |-> FALSE]
  BY <1>3, ZenonT(60) DEF InitialState
<1>5. m \in State
  <2>1. NULL \in Addr /\ 0 \in Addr /\ 0 \in size_t /\ NoChunk \in HeaderSet /\ e \in Addr
    BY <1>3, Small
  <2>2. /\ {} \in SUBSET SmallSizes /\ <<>> \in Seq(SegmentSet)
        /\ [s \in SmallSizes |-> <<>>] \in [SmallSizes -> Seq(Addr)]
        /\ [s \in LargeSizes |-> <<>>] \in [LargeSizes -> Seq(Addr)]
        /\ [a \in Addr |-> NoChunk] \in [Addr -> HeaderSet]
        /\ FALSE \in BOOLEAN
    BY <2>1
  <2>3. PICK f1, f2, f3, q : /\ f1 = [s \in SmallSizes |-> <<>>] /\ f2 = [s \in LargeSizes |-> <<>>]
                             /\ f3 = [a \in Addr |-> NoChunk] /\ q = <<>>
    OBVIOUS
  <2>4. f1 \in [SmallSizes -> Seq(Addr)] /\ f2 \in [LargeSizes -> Seq(Addr)]
        /\ f3 \in [Addr -> HeaderSet] /\ q \in Seq(SegmentSet)
    BY <2>2, <2>3
  <2>5. m = [smallmap |-> {}, smallbins |-> f1, treebins |-> f2,
             dv |-> NULL, dvsize |-> 0, top |-> NULL, topsize |-> 0,
             least_addr |-> 0, trim_check |-> 0,
             footprint |-> 0, max_footprint |-> 0, footprint_limit |-> 0,
             noncontiguous |-> FALSE, seg |-> q,
             granularity |-> 0, trim_threshold |-> 0,
             chunk |-> f3, brk |-> e, aborted |-> FALSE]
    BY <1>4, <2>3
  <2>6. [smallmap |-> {}, smallbins |-> f1, treebins |-> f2,
         dv |-> NULL, dvsize |-> 0, top |-> NULL, topsize |-> 0,
         least_addr |-> 0, trim_check |-> 0,
         footprint |-> 0, max_footprint |-> 0, footprint_limit |-> 0,
         noncontiguous |-> FALSE, seg |-> q,
         granularity |-> 0, trim_threshold |-> 0,
         chunk |-> f3, brk |-> e, aborted |-> FALSE] \in State
    BY <2>1, <2>4, RecordInState
  <2> QED  BY <2>5, <2>6
<1>6. /\ m.top = NULL /\ m.topsize = 0 /\ m.dv = NULL /\ m.dvsize = 0 /\ m.seg = <<>>
      /\ m.smallmap = {} /\ (\A s \in SmallSizes : m.smallbins[s] = <<>>)
      /\ (\A s \in LargeSizes : m.treebins[s] = <<>>)
      /\ m.least_addr = 0 /\ m.aborted = FALSE /\ m.granularity = 0 /\ m.brk = e
      /\ m.footprint = 0 /\ m.max_footprint = 0
  BY <1>4
<1>7. Blank(m) /\ Params(m) /\ ~m.aborted
  BY <1>6 DEF Blank, Params
<1>8. Owned(m.seg) = {}
  BY <1>6 DEF Owned
<1>9. Cardinality(X) = t
  <2>1. PICK lo, hi : lo = Brk0 /\ hi = Brk0 + t - 1
    OBVIOUS
  <2>2. lo \in Int /\ hi \in Int /\ X = lo .. hi
    BY <1>1, <2>1
  <2>3. Cardinality(lo .. hi) = IF lo > hi THEN 0 ELSE hi - lo + 1
    BY <2>2, FS_Interval
  <2> QED  BY <1>1, <2>1, <2>2, <2>3
<1>10. Accounts(m, X)
  <2>1. X = Brk0 .. m.brk - 1
    BY <1>1, <1>2, <1>6
  <2>2. m.footprint + Cardinality(X) = m.brk - Brk0
    BY <1>1, <1>2, <1>6, <1>9
  <2>3. Owned(m.seg) \cup X = Brk0 .. m.brk - 1 /\ Owned(m.seg) \cap X = {}
    BY <1>8, <2>1
  <2>4. Brk0 <= m.brk /\ m.footprint <= m.max_footprint
    BY <1>3, <1>6
  <2> QED  BY <2>2, <2>3, <2>4 DEF Accounts
<1>11. ChunksOf(b) = {}
  BY DEF ChunksOf
<1>12. Sys(m, {}, X)
  BY <1>5, <1>6, <1>7, <1>10 DEF Sys
<1>13. LiveOK(m, b)
  BY DEF LiveOK
<1> QED  BY <1>11, <1>12, <1>13 DEF Holds

-------------------------------------------------------------------------------
(* The inductive invariant, and what every step does besides keeping it.   *)
Inv == program \in Programs /\ Holds(gm, live, foreign)
Advances(m, b, n, c, Y) ==
    /\ Holds(n, c, Y)
    /\ Allocates(b, c) \/ Frees(b, c) \/ Reallocates(b, c)
    /\ n.footprint > m.footprint =>
          n.footprint_limit = 0 \/ n.footprint <= n.footprint_limit
(* A step of the blocks within the limit. *)
LEMMA OpAdvances ==
  ASSUME NEW m, NEW b, NEW n, NEW c, NEW X, Holds(m, b, X), OpStep(m, b, n, c, X)
  PROVE  Advances(m, b, n, c, X)
<1>1. m \in State /\ n \in State
  BY DEF OpStep, Holds, Sys
<1>2. m.footprint \in Nat /\ n.footprint \in Nat
  <2>1. m.footprint \in size_t /\ n.footprint \in size_t
    BY <1>1 DEF State
  <2> QED  BY <2>1, Small
<1>3. Within(m, n)
  BY DEF OpStep
<1>4. n.footprint > m.footprint => n.footprint_limit = 0 \/ n.footprint <= n.footprint_limit
  BY <1>2, <1>3 DEF Within
<1> QED  BY <1>4 DEF OpStep, Advances

(* Whatever others had of memory before the program began. *)
LEMMA InitInv == Init => Inv
<1> SUFFICES ASSUME Init PROVE Inv
  OBVIOUS
<1>1. PICK t : t = program.taken
  OBVIOUS
<1>2. t \in 0 .. BrkLimit - Brk0 /\ program \in Programs
  BY <1>1, ProgramAssumption DEF Init
<1>3. PICK m, b, X : m = gm /\ b = live /\ X = foreign
  OBVIOUS
<1>4. /\ X = Brk0 .. Brk0 + t - 1 /\ m = [InitialState EXCEPT !.brk = Brk0 + t]
      /\ b = [mem \in {} |-> [size |-> 0, held |-> 0, aligned |-> 0, owners |-> 0]]
  BY <1>1, <1>3 DEF Init
<1>5. Holds(m, b, X)
  BY <1>2, <1>4, FirstHolds
<1> QED  BY <1>2, <1>3, <1>5 DEF Inv

(* What comes with the arguments.                                          *)
LEMMA ProgramFacts ==
  ASSUME program \in Programs
  PROVE  /\ \A n \in program.requests : n \in size_t /\ n \in Nat
         /\ \A n \in program.resizes : n \in size_t
         /\ \A n \in program.factors : n \in size_t /\ n \in Nat
         /\ \A n \in program.alignments : n \in size_t /\ n \in Alignable
         /\ \A n \in program.pads : n \in Nat
         /\ \A n \in program.limits : n \in size_t
         /\ \A o \in program.options : o[1] \in {"M_TRIM_THRESHOLD", "M_GRANULARITY"}
                                       /\ o[2] \in size_t
         /\ \A sizes \in program.lists : ListOK(sizes)
         /\ \A n \in 1 .. program.foreign : n \in Nat
<1>1. PICK p : p = program
  OBVIOUS
<1>2. /\ p.requests \subseteq size_t /\ p.resizes \subseteq size_t
      /\ p.factors \subseteq size_t /\ p.alignments \subseteq Alignable
      /\ p.pads \subseteq size_t /\ p.limits \subseteq size_t
      /\ p.options \subseteq {"M_TRIM_THRESHOLD", "M_GRANULARITY"} \X size_t
      /\ p.lists \subseteq Seq(0 .. MAX_REQUEST - 1)
      /\ \A sizes \in p.lists :
             offsets(sizes)[Len(sizes) + 1] + request2size(Len(sizes)) < MAX_REQUEST
      /\ p.foreign \in Nat
  BY <1>1, ProgramAssumption
<1>3. \A n \in size_t : n \in Nat
  BY Small
<1>4. \A sizes \in p.lists : ListOK(sizes)
  BY <1>2 DEF ListOK, Requests
<1>5. \A o \in p.options : o[1] \in {"M_TRIM_THRESHOLD", "M_GRANULARITY"} /\ o[2] \in size_t
  BY <1>2
<1>6. \A n \in 1 .. p.foreign : n \in Nat
  BY <1>2
<1>7. \A n \in p.alignments : n \in size_t /\ n \in Alignable
  BY <1>2, AlignableFacts
<1> QED  BY <1>1, <1>2, <1>3, <1>4, <1>5, <1>6, <1>7

(* An operation that returns a block.                                      *)
LEMMA ReturnsAdvances ==
  ASSUME Inv, NEW r, NEW n \in Nat, NEW a \in size_t, Hands(gm, ChunksOf(live), foreign, r, n, a),
         Returns(r, n, a)
  PROVE  Advances(gm, live, gm', live', foreign') /\ program' = program
<1>1. PICK m, b, X : m = gm /\ b = live /\ X = foreign
  OBVIOUS
<1>2. PICK k, c : k = gm' /\ c = live'
  OBVIOUS
<1>3. Holds(m, b, X) /\ Hands(m, ChunksOf(b), X, r, n, a)
  BY <1>1 DEF Inv
<1>4. k = r.m /\ foreign' = X /\ program' = program
  BY <1>1, <1>2 DEF Returns
<1>5. c = Grant(b, r.mem, n, a)
  <2>1. c = Granted(r.mem, n, a)
    BY <1>2 DEF Returns
  <2> QED  BY <1>1, <2>1 DEF Granted, Grant, FreshBlock, OwnersIn, owners
<1>6. OpStep(m, b, r.m, c, X)
  BY <1>3, <1>5, GrantStep
<1>7. OpStep(m, b, k, c, X)
  BY <1>4, <1>6
<1>8. Advances(m, b, k, c, X)
  BY <1>3, <1>7, OpAdvances
<1> QED  BY <1>1, <1>2, <1>4, <1>8

(* Any operation that keeps the heap.                                      *)
LEMMA StepAdvances ==
  ASSUME Inv, NEW k, NEW c, k = gm', c = live', OpStep(gm, live, k, c, foreign),
         foreign' = foreign
  PROVE  Advances(gm, live, gm', live', foreign')
<1>1. PICK m, b, X : m = gm /\ b = live /\ X = foreign
  OBVIOUS
<1>2. Holds(m, b, X) /\ OpStep(m, b, k, c, X)
  BY <1>1 DEF Inv
<1>3. Advances(m, b, k, c, X)
  BY <1>2, OpAdvances
<1> QED  BY <1>1, <1>3

-------------------------------------------------------------------------------
(* The actions that hand out a block.                                      *)
Goal == Advances(gm, live, gm', live', foreign') /\ program' = program
(* The alignment that is promised is a size. *)
LEMMA AlignedToFacts ==
  ASSUME NEW a \in size_t
  PROVE  Aligned(a) \in size_t /\ Aligned(a) = AlignedTo(a) /\ PageSize \in size_t
<1>1. Aligned(a) = AlignedTo(a)
  BY DEF Aligned, AlignedTo
<1>2. Aligned(a) \in size_t
  BY TwoIsSize DEF Aligned
<1>3. PageSize \in size_t
  <2>1. PageSize \in 0 .. MAX_SIZE_T
    <3>1. SizeRange \in Nat
      BY SizeFacts
    <3> QED  BY <3>1, PageFacts, Small
  <2> QED  BY <2>1, Small
<1> QED  BY <1>1, <1>2, <1>3

(* malloc, calloc, memalign and its relatives. *)
LEMMA HandingActions ==
  ASSUME Inv,
         \/ \E n \in program.requests : Malloc(n)
         \/ \E n, e \in program.factors : Calloc(n, e)
         \/ \E alignment \in program.alignments, n \in program.requests : Memalign(alignment, n)
         \/ \E alignment \in program.alignments, n \in program.requests : PosixMemalign(alignment, n)
         \/ \E n \in program.requests : program.alignments # {} /\ Valloc(n)
         \/ \E n \in program.requests : program.alignments # {} /\ Pvalloc(n)
  PROVE  Goal
<1>1. PICK m, B, X : m = gm /\ B = ChunksOf(live) /\ X = foreign
  OBVIOUS
<1>2. Sys(m, B, X) /\ program \in Programs
  BY <1>1 DEF Inv, Holds
<1>3. ASSUME NEW n \in program.requests PROVE n \in size_t /\ n \in Nat
  BY <1>2, ProgramFacts
<1>4. 2 \in size_t /\ MALLOC_ALIGNMENT = 2
  BY TwoIsSize
<1>5. ASSUME NEW r, NEW n \in Nat, NEW a \in size_t, Hands(m, B, X, r, n, a), Returns(r, n, a)
      PROVE  Goal
  <2>1. Hands(gm, ChunksOf(live), foreign, r, n, a)
    BY <1>1, <1>5
  <2> QED  BY <1>5, <2>1, ReturnsAdvances DEF Goal
<1>6. ASSUME NEW n \in program.requests, Malloc(n) PROVE Goal
  <2>1. PICK r : r = dlmalloc(m, n)
    OBVIOUS
  <2>2. Hands(m, B, X, r, n, 2)
    BY <1>2, <1>3, <2>1, MallocHands
  <2>3. Returns(r, n, 2)
    BY <1>1, <1>4, <1>6, <2>1 DEF Malloc
  <2> QED  BY <1>3, <1>4, <1>5, <2>2, <2>3
<1>7. ASSUME NEW n \in program.factors, NEW e \in program.factors, Calloc(n, e) PROVE Goal
  <2>1. PICK r : r = dlcalloc(m, n, e)
    OBVIOUS
  <2>2. n \in size_t /\ e \in size_t
    BY <1>2, ProgramFacts
  <2>3. n * e \in Nat /\ Hands(m, B, X, r, n * e, 2)
    BY <1>2, <2>1, <2>2, CallocHands
  <2>4. Returns(r, n * e, 2)
    BY <1>1, <1>4, <1>7, <2>1 DEF Calloc
  <2>5. PICK t : t = n * e
    OBVIOUS
  <2>6. t \in Nat /\ Hands(m, B, X, r, t, 2) /\ Returns(r, t, 2)
    BY <2>3, <2>4, <2>5
  <2> QED  BY <1>4, <1>5, <2>6
<1>8. ASSUME NEW al \in program.alignments, NEW n \in program.requests,
             Memalign(al, n) \/ PosixMemalign(al, n)
      PROVE  Goal
  <2>1. PICK r1, r2, a : r1 = dlmemalign(m, al, n) /\ r2 = dlposix_memalign(m, al, n)
                         /\ a = Aligned(al)
    OBVIOUS
  <2>2. al \in size_t /\ al \in Alignable /\ n \in size_t
    BY <1>2, <1>3, ProgramFacts
  <2>3. Hands(m, B, X, r1, n, AlignedTo(al))
    BY <1>2, <2>1, <2>2, MemalignHands
  <2>4. Hands(m, B, X, r2, n, AlignedTo(al))
    BY <1>2, <2>1, <2>2, PosixMemalignHands
  <2>5. a \in size_t /\ a = AlignedTo(al)
    BY <2>1, <2>2, AlignedToFacts
  <2>6. Returns(r1, n, a) \/ Returns(r2, n, a)
    BY <1>1, <1>8, <2>1 DEF Memalign, PosixMemalign
  <2>7. Hands(m, B, X, r1, n, a) /\ Hands(m, B, X, r2, n, a)
    BY <2>3, <2>4, <2>5
  <2> QED  BY <1>3, <1>5, <2>5, <2>6, <2>7
<1>9. ASSUME NEW n \in program.requests, Valloc(n) PROVE Goal
  <2>1. PICK r, a : r = dlvalloc(m, n) /\ a = PageSize
    OBVIOUS
  <2>2. Hands(m, B, X, r, n, PageSize)
    BY <1>2, <1>3, <2>1, VallocHands
  <2>3. Returns(r, n, a)
    BY <1>1, <1>9, <2>1 DEF Valloc
  <2>4. a \in size_t
    BY <1>4, <2>1, AlignedToFacts
  <2>5. Hands(m, B, X, r, n, a)
    BY <2>1, <2>2
  <2> QED  BY <1>3, <1>5, <2>3, <2>4, <2>5
<1>10. ASSUME NEW n \in program.requests, Pvalloc(n) PROVE Goal
  <2>1. PICK r, a, t : r = dlpvalloc(m, n) /\ a = PageSize /\ t = page_align(n)
    OBVIOUS
  <2>2. page_align(n) \in size_t /\ Hands(m, B, X, r, page_align(n), PageSize)
    BY <1>2, <1>3, <2>1, PvallocHands
  <2>3. Returns(r, t, a)
    BY <1>1, <1>10, <2>1 DEF Pvalloc
  <2>4. a \in size_t
    BY <1>4, <2>1, AlignedToFacts
  <2>5. t \in size_t /\ Hands(m, B, X, r, t, a)
    BY <2>1, <2>2
  <2>6. t \in Nat
    BY <2>5, Small
  <2> QED  BY <1>5, <2>3, <2>4, <2>5, <2>6
<1> QED  BY <1>6, <1>7, <1>8, <1>9, <1>10

-------------------------------------------------------------------------------
(* The actions that take blocks back or change them.                       *)
LEMMA FreeAction ==
  ASSUME Inv, NEW mem \in DOMAIN live, Free(mem)
  PROVE  Goal
<1>1. PICK k, c : k = gm' /\ c = live'
  OBVIOUS
<1>2. Holds(gm, live, foreign)
  BY DEF Inv
<1>3. PICK n, d : n = dlfree(gm, mem) /\ d = Rest(live, {mem})
  OBVIOUS
<1>4. OpStep(gm, live, n, d, foreign)
  BY <1>2, <1>3, FreeStep
<1>5. k = n /\ c = d /\ foreign' = foreign /\ program' = program
  BY <1>1, <1>3 DEF Free, Without, Rest
<1>6. OpStep(gm, live, k, c, foreign)
  BY <1>4, <1>5
<1> QED  BY <1>1, <1>5, <1>6, StepAdvances DEF Goal

(* realloc, *)
LEMMA ReallocAction ==
  ASSUME Inv, NEW mem \in DOMAIN live, NEW bytes \in program.resizes, Realloc(mem, bytes)
  PROVE  Goal
<1>1. PICK k, c : k = gm' /\ c = live'
  OBVIOUS
<1>2. Holds(gm, live, foreign) /\ bytes \in size_t
  BY ProgramFacts DEF Inv
<1>3. PICK r, d : r = dlrealloc(gm, mem, bytes) /\ d = Resizing(live, mem, r, bytes)
  OBVIOUS
<1>4. OpStep(gm, live, r.m, d, foreign)
  BY <1>2, <1>3, ReallocStep
<1>5. Resized(r, mem, bytes)
  BY <1>3 DEF Realloc
<1>6. k = r.m /\ c = d /\ foreign' = foreign /\ program' = program
  <2>1. c = Resizing(live, mem, r, bytes)
    BY <1>1, <1>5 DEF Resized, Resizing, ResizedBlock, Rest, Without, OwnersIn, owners,
                      Smaller, LesserOf
  <2> QED  BY <1>1, <1>3, <1>5, <2>1 DEF Resized
<1>7. OpStep(gm, live, k, c, foreign)
  BY <1>4, <1>6
<1> QED  BY <1>1, <1>6, <1>7, StepAdvances DEF Goal

(* realloc_in_place, *)
LEMMA ReallocInPlaceAction ==
  ASSUME Inv, NEW mem \in DOMAIN live, NEW bytes \in program.resizes, ReallocInPlace(mem, bytes)
  PROVE  Goal
<1>1. PICK k, c : k = gm' /\ c = live'
  OBVIOUS
<1>2. Holds(gm, live, foreign) /\ bytes \in size_t
  BY ProgramFacts DEF Inv
<1>3. PICK r, d : r = dlrealloc_in_place(gm, mem, bytes) /\ d = ResizingInPlace(live, mem, r, bytes)
  OBVIOUS
<1>4. OpStep(gm, live, r.m, d, foreign)
  BY <1>2, <1>3, InPlaceStep
<1>5. ResizedInPlace(r, mem, bytes)
  BY <1>3 DEF ReallocInPlace
<1>6. k = r.m /\ c = d /\ foreign' = foreign /\ program' = program
  <2>1. c = ResizingInPlace(live, mem, r, bytes)
    BY <1>1, <1>5 DEF ResizedInPlace, ResizingInPlace, Smaller, LesserOf
  <2> QED  BY <1>1, <1>3, <1>5, <2>1 DEF ResizedInPlace
<1>7. OpStep(gm, live, k, c, foreign)
  BY <1>4, <1>6
<1> QED  BY <1>1, <1>6, <1>7, StepAdvances DEF Goal

(* independent_calloc and independent_comalloc, *)
LEMMA IndependentAction ==
  ASSUME Inv, NEW sizes \in program.lists, NEW given \in BOOLEAN, Independent(sizes, given)
  PROVE  Goal
<1>1. PICK k, c : k = gm' /\ c = live'
  OBVIOUS
<1>2. Holds(gm, live, foreign) /\ ListOK(sizes)
  BY ProgramFacts DEF Inv
<1>3. PICK r, d : /\ r = ialloc(gm, sizes, given)
                  /\ d = AddingAll(WithArray(live, r.array, Len(sizes)), r.mems, live, sizes)
  OBVIOUS
<1>4. OpStep(gm, live, r.m, d, foreign)
  BY <1>2, <1>3, IndependentStep
<1>5. IndependentReturns(r, sizes)
  BY <1>3 DEF Independent
<1>6. k = r.m /\ c = d /\ foreign' = foreign /\ program' = program
  <2>1. c = AddingAll(WithArray(live, r.array, Len(sizes)), r.mems, live, sizes)
    BY <1>1, <1>5 DEF IndependentReturns, AddingAll, WithArray, FreshBlock, OwnersIn, owners
  <2> QED  BY <1>1, <1>3, <1>5, <2>1 DEF IndependentReturns
<1>7. OpStep(gm, live, k, c, foreign)
  BY <1>4, <1>6
<1> QED  BY <1>1, <1>6, <1>7, StepAdvances DEF Goal

(* bulk_free. *)
LEMMA BulkFreeAction ==
  ASSUME Inv, NEW array \in BulkArrays, BulkFree(array)
  PROVE  Goal
<1>1. PICK k, c : k = gm' /\ c = live'
  OBVIOUS
<1>2. Holds(gm, live, foreign)
  BY DEF Inv
<1>3. PICK x \in DOMAIN live, y \in DOMAIN live : x # y /\ IsPair(array, x, y)
  BY DEF BulkArrays, IsPair
<1>4. PICK n, d : n = internal_bulk_free(gm, array) /\ d = Rest(live, Range(array))
  OBVIOUS
<1>5. OpStep(gm, live, n, d, foreign)
  BY <1>2, <1>3, <1>4, BulkFreeStep
<1>6. k = n /\ c = d /\ foreign' = foreign /\ program' = program
  BY <1>1, <1>4 DEF BulkFree, Without, Rest
<1>7. OpStep(gm, live, k, c, foreign)
  BY <1>5, <1>6
<1> QED  BY <1>1, <1>6, <1>7, StepAdvances DEF Goal

-------------------------------------------------------------------------------
(* The actions that leave the blocks alone.                                *)
LEMMA SettingAdvances ==
  ASSUME NEW m, NEW b, NEW X, Holds(m, b, X), NEW n, NEW Y, Sys(n, ChunksOf(b), Y),
         Keeps(m, n, ChunksOf(b)), n.footprint = m.footprint
  PROVE  Advances(m, b, n, b, Y)
<1>1. Holds(n, b, Y)
  BY SettingHolds
<1>2. Allocates(b, b)
  BY DEF Allocates, KeptIn
<1>3. ~(n.footprint > m.footprint)
  <2>1. m \in State
    BY DEF Holds, Sys
  <2>2. m.footprint \in size_t
    BY <2>1 DEF State
  <2>3. m.footprint \in Nat
    BY <2>2, Small
  <2> QED  BY <2>3
<1> QED  BY <1>1, <1>2, <1>3 DEF Advances

(* malloc_trim, *)
LEMMA TrimAction ==
  ASSUME Inv, NEW pad \in program.pads, Trim(pad)
  PROVE  Goal
<1>1. PICK k, c : k = gm' /\ c = live'
  OBVIOUS
<1>2. Holds(gm, live, foreign) /\ pad \in Nat
  BY ProgramFacts DEF Inv
<1>3. PICK n : n = sys_trim(gm, pad)
  OBVIOUS
<1>4. Sys(gm, ChunksOf(live), foreign)
  BY <1>2 DEF Holds
<1>5. Goes(gm, n, ChunksOf(live), ChunksOf(live), foreign)
  BY <1>2, <1>3, <1>4, SysTrimGoes
<1>6. OpStep(gm, live, n, live, foreign)
  BY <1>2, <1>5, SameBlocks
<1>7. k = n /\ c = live /\ foreign' = foreign /\ program' = program
  BY <1>1, <1>3 DEF Trim
<1>8. OpStep(gm, live, k, c, foreign)
  BY <1>6, <1>7
<1> QED  BY <1>1, <1>7, <1>8, StepAdvances DEF Goal

(* malloc_set_footprint_limit, *)
LEMMA SetFootprintLimitAction ==
  ASSUME Inv, NEW bytes \in program.limits, SetFootprintLimit(bytes)
  PROVE  Goal
<1>1. PICK m, b, X : m = gm /\ b = live /\ X = foreign
  OBVIOUS
<1>2. Holds(m, b, X) /\ bytes \in size_t /\ Sys(m, ChunksOf(b), X)
  BY <1>1, ProgramFacts DEF Inv, Holds
<1>3. PICK n : n = dlmalloc_set_footprint_limit(m, bytes)
  OBVIOUS
<1>4. Sys(n, ChunksOf(b), X) /\ n.chunk = m.chunk /\ n.footprint = m.footprint
  BY <1>2, <1>3, SetLimitSys
<1>5. Keeps(m, n, ChunksOf(b))
  BY <1>4 DEF Keeps
<1>6. Advances(m, b, n, b, X)
  BY <1>2, <1>4, <1>5, SettingAdvances
<1>7. gm' = n /\ live' = live /\ foreign' = foreign /\ program' = program
  BY <1>1, <1>3 DEF SetFootprintLimit
<1> QED  BY <1>1, <1>6, <1>7 DEF Goal

(* mallopt, *)
LEMMA MalloptAction ==
  ASSUME Inv, NEW o \in program.options, Mallopt(o[1], o[2])
  PROVE  Goal
<1>1. PICK m, b, X : m = gm /\ b = live /\ X = foreign
  OBVIOUS
<1>2. PICK param, val : param = o[1] /\ val = o[2]
  OBVIOUS
<1>3. /\ Holds(m, b, X) /\ Sys(m, ChunksOf(b), X)
      /\ val \in size_t /\ param \in {"M_TRIM_THRESHOLD", "M_GRANULARITY"}
  BY <1>1, <1>2, ProgramFacts DEF Inv, Holds
<1>4. PICK n : n = change_mparam(m, param, val)
  OBVIOUS
<1>5. Sys(n, ChunksOf(b), X) /\ Keeps(m, n, ChunksOf(b)) /\ n.footprint = m.footprint
  BY <1>3, <1>4, ChangeParamSys
<1>6. Advances(m, b, n, b, X)
  BY <1>3, <1>5, SettingAdvances
<1>7. gm' = n /\ live' = live /\ foreign' = foreign /\ program' = program
  BY <1>1, <1>2, <1>4 DEF Mallopt
<1> QED  BY <1>1, <1>6, <1>7 DEF Goal

(* and others that call sbrk. *)
LEMMA ForeignAction ==
  ASSUME Inv, NEW k \in 1 .. program.foreign, ForeignSbrk(k)
  PROVE  Goal
<1>1. PICK m, b, X : m = gm /\ b = live /\ X = foreign
  OBVIOUS
<1>2. Holds(m, b, X) /\ k \in Nat /\ Sys(m, ChunksOf(b), X)
  BY <1>1, ProgramFacts DEF Inv, Holds
<1>3. PICK n, Y : n = MORECORE(m, k) /\ Y = X \cup (m.brk .. (m.brk + k) - 1)
  OBVIOUS
<1>4. CanMove(m, k)
  BY <1>1 DEF ForeignSbrk
<1>5. Sys(n, ChunksOf(b), Y) /\ n.chunk = m.chunk /\ n.footprint = m.footprint
  BY <1>2, <1>3, <1>4, ForeignSys
<1>6. Keeps(m, n, ChunksOf(b))
  BY <1>5 DEF Keeps
<1>7. Advances(m, b, n, b, Y)
  BY <1>2, <1>5, <1>6, SettingAdvances
<1>8. gm' = n /\ live' = live /\ foreign' = Y /\ program' = program
  <2>1. gm' = MORECORE(gm, k) /\ live' = live /\ program' = program
    BY DEF ForeignSbrk
  <2>2. foreign' = foreign \cup (gm.brk .. gm.brk + k - 1)
    BY DEF ForeignSbrk
  <2>3. gm' = n
    BY <1>1, <1>3, <2>1
  <2>4. foreign' = Y
    <3>1. m.brk \in Nat
      <4>1. m.brk \in Addr
        BY <1>2 DEF Sys, State
      <4> QED  BY <4>1, Small
    <3>2. (m.brk + k) - 1 = m.brk + k - 1
      BY <1>2, <3>1
    <3>3. m.brk .. (m.brk + k) - 1 = gm.brk .. gm.brk + k - 1
      BY <1>1, <3>2
    <3> QED  BY <1>1, <1>3, <2>2, <3>3
  <2> QED  BY <2>1, <2>3, <2>4
<1> QED  BY <1>1, <1>7, <1>8 DEF Goal

-------------------------------------------------------------------------------
(* Every step.                                                             *)
LEMMA NextAdvances ==
  ASSUME Inv, Next
  PROVE  Goal
<1>1. CASE \/ \E n \in program.requests : Malloc(n)
           \/ \E n, e \in program.factors : Calloc(n, e)
           \/ \E alignment \in program.alignments, n \in program.requests : Memalign(alignment, n)
           \/ \E alignment \in program.alignments, n \in program.requests :
                  PosixMemalign(alignment, n)
           \/ \E n \in program.requests : program.alignments # {} /\ Valloc(n)
           \/ \E n \in program.requests : program.alignments # {} /\ Pvalloc(n)
  BY <1>1, HandingActions
<1>2. CASE \E mem \in DOMAIN live : Free(mem)
  BY <1>2, FreeAction
<1>3. CASE \E mem \in DOMAIN live, n \in program.resizes : Realloc(mem, n)
  BY <1>3, ReallocAction
<1>4. CASE \E mem \in DOMAIN live, n \in program.resizes : ReallocInPlace(mem, n)
  BY <1>4, ReallocInPlaceAction
<1>5. CASE \E sizes \in program.lists, given \in BOOLEAN : Independent(sizes, given)
  BY <1>5, IndependentAction
<1>6. CASE \E array \in BulkArrays : program.lists # {} /\ BulkFree(array)
  BY <1>6, BulkFreeAction
<1>7. CASE \E pad \in program.pads : Trim(pad)
  BY <1>7, TrimAction
<1>8. CASE \E bytes \in program.limits : SetFootprintLimit(bytes)
  BY <1>8, SetFootprintLimitAction
<1>9. CASE \E o \in program.options : Mallopt(o[1], o[2])
  BY <1>9, MalloptAction
<1>10. CASE \E n \in 1 .. program.foreign : ForeignSbrk(n)
  BY <1>10, ForeignAction
<1> QED  BY <1>1, <1>2, <1>3, <1>4, <1>5, <1>6, <1>7, <1>8, <1>9, <1>10 DEF Next

(* The invariant is inductive. *)
LEMMA NextInv ==
  ASSUME Inv, [Next]_vars
  PROVE  Inv'
<1>1. CASE Next
  <2>1. Goal
    BY <1>1, NextAdvances
  <2> QED  BY <2>1 DEF Goal, Advances, Inv
<1>2. CASE UNCHANGED vars
  BY <1>2 DEF vars, Inv
<1> QED  BY <1>1, <1>2

(* The program's blocks are chunks of a well-formed heap, at all times. *)
THEOREM InvAlways == Spec => []Inv
<1>1. Inv /\ [Next]_vars => Inv'
  BY NextInv
<1> QED  BY <1>1, InitInv, PTL DEF Spec

(* No call leaves the footprint above the limit that                         *)
(* malloc_set_footprint_limit has set, unless it was above it before and has *)
(* not grown (malloc.c, sys_alloc).                                          *)
THEOREM FootprintLimitedAlways == Spec => FootprintLimited
<1> DEFINE Step == gm'.footprint > gm.footprint =>
                       gm'.footprint_limit = 0 \/ gm'.footprint <= gm'.footprint_limit
<1>1. Inv /\ [Next]_vars => [Step]_vars
  <2> SUFFICES ASSUME Inv, Next PROVE Step
    BY DEF vars
  <2> QED  BY NextAdvances DEF Goal, Advances
<1>2. Spec => [][Step]_vars
  BY <1>1, InvAlways, PTL DEF Spec
<1> QED  BY <1>2 DEF FootprintLimited

-------------------------------------------------------------------------------
(* What the program has is typed.                                          *)
LEMMA TypesHold ==
  ASSUME Inv
  PROVE  TypeOK
<1>1. gm \in State /\ LiveOK(gm, live) /\ Accounts(gm, foreign)
  BY DEF Inv, Holds, Sys
<1>2. gm.brk \in Brk0 .. BrkLimit
  <2>1. gm.brk \in Addr
    BY <1>1 DEF State
  <2> QED  BY <1>1, <2>1, Small DEF Accounts
<1>3. foreign \subseteq Addr
  <2>1. foreign \subseteq Brk0 .. gm.brk - 1
    BY <1>1 DEF Accounts
  <2>2. Brk0 .. gm.brk - 1 \subseteq 0 .. BrkLimit
    BY <1>2, Small
  <2> QED  BY <2>1, <2>2, Small
<1>4. live \in [DOMAIN live -> [size : size_t, held : size_t, aligned : size_t, owners : Nat]]
  <2>1. \A mem \in DOMAIN live : live[mem] \in BlockSet
    BY <1>1 DEF LiveOK, BlockOK
  <2>2. live = [mem \in DOMAIN live |-> live[mem]]
    BY <1>1 DEF LiveOK
  <2> QED  BY <2>1, <2>2 DEF BlockSet
<1>5. PICK m : m = gm
  OBVIOUS
<1>6. m \in State
  BY <1>1, <1>5
<1>7. /\ m.smallmap \subseteq SmallSizes
      /\ m.smallbins \in [SmallSizes -> Seq(Addr)]
      /\ m.treebins \in [LargeSizes -> Seq(Addr)]
      /\ m.dv \in Addr /\ m.top \in Addr
      /\ m.dvsize \in size_t /\ m.topsize \in size_t /\ m.trim_check \in size_t
      /\ m.footprint \in size_t /\ m.max_footprint \in size_t
      /\ m.footprint_limit \in size_t
  BY <1>6 DEF State
<1>8. /\ m.seg \in Seq([base : Addr, size : size_t, record : Addr])
      /\ m.chunk \in [Addr -> [prev_foot : size_t, size : size_t,
                               cinuse : BOOLEAN, pinuse : BOOLEAN]]
  BY <1>6 DEF State, SegmentSet, HeaderSet
<1> QED  BY <1>2, <1>3, <1>4, <1>5, <1>7, <1>8 DEF TypeOK

(* The state has its types (malloc.c, struct malloc_state). *)
THEOREM TypeOKAlways == Spec => []TypeOK
  BY TypesHold, InvAlways, PTL

-------------------------------------------------------------------------------
(* Blocks in use do not overlap.                                           *)
LEMMA BlocksApart ==
  ASSUME NEW m, NEW b, NEW X, Holds(m, b, X),
         NEW mem \in DOMAIN b, NEW o \in DOMAIN b, o # mem
  PROVE  o \notin mem .. mem + b[mem].size - 1
<1>1. LiveOK(m, b) /\ Sys(m, ChunksOf(b), X)
  BY DEF Holds
<1>2. PICK p, q : p = mem2chunk(mem) /\ q = mem2chunk(o)
  OBVIOUS
<1>3. p \in ChunksOf(b) /\ q \in ChunksOf(b) /\ mem \in Nat /\ o \in Nat
      /\ mem = p + 2 /\ o = q + 2 /\ p \in Nat /\ q \in Nat
  BY <1>1, <1>2, ChunkOfBlock DEF chunk2mem
<1>4. PICK z : Heap(m, z, ChunksOf(b) \cup RecordsOf(m.seg))
  BY <1>1, <1>3 DEF Sys, HeapOf
<1>5. p \in DOMAIN z /\ q \in DOMAIN z /\ m.chunk[p].size = z[p] /\ z[p] \in Nat
  <2>1. p \in DOMAIN z /\ q \in DOMAIN z /\ m.chunk[p].size = z[p]
    BY <1>3, <1>4, HeapSizes
  <2>2. PICK F : Layout(z, m.seg, F)
    BY <1>4 DEF Heap, Hole
  <2> QED  BY <2>1, <2>2 DEF Layout
<1>6. PICK E : Layout(z, m.seg, E)
  BY <1>4 DEF Heap, Hole
<1>7. q <= p \/ p + z[p] <= q
  BY <1>5, <1>6 DEF Layout
<1>8. b[mem].size \in Nat /\ m.chunk[p].size \in AtLeast(b[mem].size + 1)
  BY <1>1, <1>2, BlockFacts
<1>9. z[p] >= b[mem].size + 1
  BY <1>5, <1>8 DEF AtLeast
<1> QED  BY <1>3, <1>5, <1>7, <1>8, <1>9

(* The blocks are apart, aligned and in nobody else's hands. *)
LEMMA SoundBlocks == Inv => Promise!Sound
<1> SUFFICES ASSUME Inv PROVE Promise!Sound
  OBVIOUS
<1>1. Holds(gm, live, foreign)
  BY DEF Inv
<1>2. LiveOK(gm, live)
  BY <1>1 DEF Holds
<1> SUFFICES ASSUME NEW mem \in DOMAIN live
             PROVE  /\ mem % MALLOC_ALIGNMENT = 0 /\ mem % live[mem].aligned = 0
                    /\ live[mem].owners = 1
                    /\ \A o \in DOMAIN live \ {mem} : o \notin mem .. mem + live[mem].size - 1
  BY DEF Promise!Sound, Promise!Extent
<1>3. mem % MALLOC_ALIGNMENT = 0 /\ mem % live[mem].aligned = 0 /\ live[mem].owners = 1
  BY <1>2, BlockFacts, TwoIsSize
<1>4. \A o \in DOMAIN live \ {mem} : o \notin mem .. mem + live[mem].size - 1
  BY <1>1, BlocksApart
<1> QED  BY <1>3, <1>4

(* Every call is one of the abstract allocator. *)
LEMMA PromiseStep ==
  ASSUME Inv, Inv', Next
  PROVE  Promise!Next
<1>1. Promise!Sound'
  BY SoundBlocks, PTL
<1>2. Allocates(live, live') \/ Frees(live, live') \/ Reallocates(live, live')
  BY NextAdvances DEF Goal, Advances
<1>6. Promise!Allocate \/ Promise!Free \/ Promise!Reallocate
  <2>1. CASE Allocates(live, live')
    BY <2>1 DEF Promise!Allocate, Promise!Kept, Allocates, KeptIn
  <2>2. CASE Frees(live, live')
    BY <2>2 DEF Promise!Free, Promise!Kept, Frees, KeptIn
  <2>3. CASE Reallocates(live, live')
    BY <2>3 DEF Promise!Reallocate, Promise!Kept, Reallocates, KeptIn
  <2> QED  BY <1>2, <2>1, <2>2, <2>3
<1> QED  BY <1>1, <1>6 DEF Promise!Next

(* The allocator keeps its promise: every block is handed out once, apart    *)
(* from all others and aligned as asked for, keeps its address and contents  *)
(* until it is freed, and realloc carries over what fits (malloc.c, dlmalloc *)
(* to dlbulk_free).                                                          *)
THEOREM KeepsPromiseAlways == Spec => KeepsPromise
<1>1. Init => Promise!Init
  BY DEF Init, Promise!Init
<1>2. Inv /\ Inv' /\ [Next]_vars => [Promise!Next]_live
  BY PromiseStep DEF vars
<1> QED  BY <1>1, <1>2, InvAlways, PTL DEF Spec, KeepsPromise, Promise!Spec

-------------------------------------------------------------------------------
(* What malloc returns passes the check of the code.                       *)
LEMMA InuseChunkChecks ==
  ASSUME NEW m, NEW z, NEW U, Heap(m, z, U), NEW p \in U
  PROVE  /\ ok_address(m, p) /\ is_inuse(m, p) /\ pinuse(m, p + chunksize(m, p))
         /\ p % 2 = 0 /\ chunksize(m, p) = z[p] /\ z[p] % 2 = 0 /\ z[p] >= 4 /\ z[p] \in Nat
<1>1. PICK E : Hole(m, z, U, {}, {}, E)
  BY DEF Heap
<1>2. p \in DOMAIN z
  BY <1>1 DEF Hole
<1>3. /\ m.chunk[p].size = z[p] /\ m.chunk[p].cinuse /\ m.chunk[p + z[p]].pinuse
      /\ p + z[p] # E
  BY <1>1, HoleNextUsed
<1>4. /\ p \in Nat /\ m.least_addr <= p /\ Even(p)
      /\ z[p] \in Nat /\ Even(z[p]) /\ z[p] >= 4
  BY <1>1, <1>2, <1>3, HoleChunk
<1>5. m.least_addr \in Nat
  <2>1. m.least_addr \in Addr
    BY <1>1 DEF Hole, State
  <2> QED  BY <2>1, Small
<1>6. ok_address(m, p)
  BY <1>4, <1>5 DEF ok_address
<1> QED  BY <1>3, <1>4, <1>6 DEF is_inuse, pinuse, chunksize, Even

(* So does the chunk that malloc returns. *)
LEMMA MallocedChunkChecks ==
  ASSUME NEW m, NEW B, NEW X, Sys(m, B, X), NEW bytes \in size_t,
         NEW nb, nb = chunk_size_for(bytes), NEW r, r = dlmalloc(m, bytes), r.mem # NULL
  PROVE  do_check_malloced_chunk(r.m, r.mem, nb)
<1>1. Gives(m, B, X, r, nb)
  BY MallocGives
<1>2. PICK v : GivesAt(m, B, X, r, nb, v)
  BY <1>1 DEF Gives, Refuses
<1>3. PICK n : n = r.m
  OBVIOUS
<1>4. /\ v \in Nat /\ r.mem = chunk2mem(v) /\ Sys(n, B \cup {v}, X)
      /\ n.chunk[v].size \in nb .. nb + 3 /\ n.chunk[v].pinuse
  BY <1>2, <1>3 DEF GivesAt, Goes
<1>5. PICK z : Heap(n, z, (B \cup {v}) \cup RecordsOf(n.seg))
  BY <1>4 DEF Sys, HeapOf
<1>6. /\ ok_address(n, v) /\ is_inuse(n, v) /\ pinuse(n, v + chunksize(n, v))
      /\ v % 2 = 0 /\ chunksize(n, v) = z[v] /\ z[v] % 2 = 0 /\ z[v] >= 4 /\ z[v] \in Nat
  BY <1>5, InuseChunkChecks
<1>7. nb \in Nat
  BY ChunkSizeForFacts DEF ChunkSize
<1>8. z[v] >= nb /\ z[v] < nb + 4
  BY <1>4, <1>6, <1>7 DEF chunksize
<1>9. mem2chunk(r.mem) = v
  BY <1>4 DEF mem2chunk, chunk2mem
<1>10. do_check_inuse_chunk(n, v)
  BY <1>4, <1>6, Small DEF do_check_inuse_chunk, do_check_any_chunk, pinuse
<1> QED  BY <1>3, <1>6, <1>8, <1>9, <1>10, Small DEF do_check_malloced_chunk

(* The same as a step of the program. *)
LEMMA MallocChecks1 ==
  ASSUME Inv, NEW mem \in DOMAIN live' \ DOMAIN live, NEW n \in program.requests, Malloc(n)
  PROVE  do_check_malloced_chunk(gm', mem, chunk_size_for(n))
<1>1. PICK m, B, X : m = gm /\ B = ChunksOf(live) /\ X = foreign
  OBVIOUS
<1>2. Sys(m, B, X) /\ n \in size_t
  BY <1>1, ProgramFacts DEF Inv, Holds
<1>3. PICK r : r = dlmalloc(m, n)
  OBVIOUS
<1>4. Returns(r, n, MALLOC_ALIGNMENT)
  BY <1>1, <1>3 DEF Malloc
<1>5. gm' = r.m /\ live' = Granted(r.mem, n, MALLOC_ALIGNMENT)
  BY <1>4 DEF Returns
<1>6. r.mem # NULL
  BY <1>5 DEF Granted
<1>7. mem = r.mem
  BY <1>5, <1>6 DEF Granted, With
<1>8. PICK nb : nb = chunk_size_for(n)
  OBVIOUS
<1>9. do_check_malloced_chunk(r.m, r.mem, nb)
  BY <1>2, <1>3, <1>6, <1>8, MallocedChunkChecks
<1> QED  BY <1>5, <1>7, <1>8, <1>9

(* do_check_malloced_chunk, which the code runs on what dlmalloc returns     *)
(* when it is built for debugging, holds of every block malloc hands out.    *)
THEOREM CheckMallocedChunkAlways == Spec => CheckMallocedChunk
<1> DEFINE Step == \A mem \in DOMAIN live' \ DOMAIN live, n \in program.requests :
                       Malloc(n) => do_check_malloced_chunk(gm', mem, chunk_size_for(n))
<1>1. Inv => [Step]_vars
  BY MallocChecks1
<1>2. Spec => [][Step]_vars
  BY <1>1, InvAlways, PTL DEF Spec
<1> QED  BY <1>2 DEF CheckMallocedChunk

-------------------------------------------------------------------------------
(* The walk through a segment.                                             *)
EndsWalk(m, s) ==
    {q \in Nat : \/ q < s.base \/ q >= s.base + s.size \/ q = m.top
                 \/ fencepost(m, q) \/ chunksize(m, q) = 0}
NextChunk(m, s) == [q \in Nat \ EndsWalk(m, s) |-> q + chunksize(m, q)]

(* It follows the next chunk until one that ends it. *)
LEMMA ChunksOfWalk ==
  ASSUME NEW m \in State, NEW s \in SegmentSet, EndOf(s) \in Addr
  PROVE  \E W : /\ IsWalk(W, Nat, EndsWalk(m, s), NextChunk(m, s))
                /\ chunks_of(m, s) = W[align_as_chunk(s.base)]
<1> DEFINE ends == EndsWalk(m, s)
           next == NextChunk(m, s)
           body(f) == [q \in Nat |->
               IF q < s.base \/ q >= s.base + s.size \/ q = m.top \/ fencepost(m, q)
                  \/ chunksize(m, q) = 0
               THEN {} ELSE {q} \cup f[q + chunksize(m, q)]]
           walk == CHOOSE f : f = body(f)
<1>1. chunks_of(m, s) = walk[align_as_chunk(s.base)]
  BY DEF chunks_of
<1>2. \A q \in Nat : q \in ends <=> \/ q < s.base \/ q >= s.base + s.size \/ q = m.top
                                    \/ fencepost(m, q) \/ chunksize(m, q) = 0
  BY DEF EndsWalk
<1>3. \A q \in Nat \ ends : next[q] = q + chunksize(m, q)
  BY DEF NextChunk
<1>4. next \in [Nat \ ends -> Nat]
  <2>1. ASSUME NEW q \in Nat \ ends PROVE q + chunksize(m, q) \in Nat
    <3>1. s.base \in Nat /\ s.size \in Nat /\ s.base + s.size <= BrkLimit
      <4>1. s.base \in Addr /\ s.size \in size_t
        BY DEF SegmentSet
      <4> QED  BY <4>1, Small DEF EndOf
    <3>2. q < s.base + s.size
      BY <1>2, <3>1
    <3>3. q \in 0 .. BrkLimit
      BY <3>1, <3>2, Small
    <3>4. q \in Addr
      BY <3>3, Small
    <3>5. m.chunk[q] \in HeaderSet
      BY <3>4 DEF State
    <3>6. m.chunk[q].size \in size_t
      BY <3>5 DEF HeaderSet
    <3>7. m.chunk[q].size \in Nat
      BY <3>6, Small
    <3> QED  BY <3>7 DEF chunksize
  <2> QED  BY <2>1 DEF NextChunk
<1> HIDE DEF ends, next
<1>5. PICK W \in [Nat -> SUBSET Nat] : IsWalk(W, Nat, ends, next)
  BY <1>4, WalkExists
<1>6. \A f : \A q \in Nat : body(f)[q] = IF q \in ends THEN {} ELSE {q} \cup f[next[q]]
  BY <1>2, <1>3
<1>7. W = body(W)
  <2>1. \A q \in Nat : W[q] = body(W)[q]
    <3> HIDE DEF body
    <3> QED  BY <1>5, <1>6 DEF IsWalk
  <2>2. body(W) = [q \in Nat |-> body(W)[q]]
    OBVIOUS
  <2> HIDE DEF body
  <2> QED  BY <1>5, <2>1, <2>2
<1>8. walk = body(walk)
  <2> HIDE DEF body
  <2> QED  BY <1>7
<1> HIDE DEF walk
<1>9. \A q \in Nat : walk[q] = body(walk)[q]
  BY <1>8
<1>10. IsWalk(walk, Nat, ends, next)
  <2> HIDE DEF body
  <2> QED  BY <1>6, <1>9 DEF IsWalk
<1> QED  BY <1>1, <1>10 DEF ends, next

-------------------------------------------------------------------------------
(* The chunks of a segment.                                                *)
SegChunks(z, seg, i) == {a \in DOMAIN z : seg[i].base <= a /\ a < EndOf(seg[i])}

(* A word is in one segment only. *)
LEMMA SegmentsApart ==
  ASSUME NEW seg, NEW E, NEW lo, NEW hi, Segs(seg, E, lo, hi),
         NEW i \in DOMAIN seg, NEW j \in DOMAIN seg,
         NEW a \in Nat, seg[i].base <= a, a < EndOf(seg[i]),
         seg[j].base <= a, a < EndOf(seg[j])
  PROVE  i = j
<1>1. i \in Nat /\ j \in Nat /\ seg[i].base \in Nat /\ seg[j].base \in Nat
      /\ EndOf(seg[i]) \in Nat /\ EndOf(seg[j]) \in Nat
  <2>1. i \in Nat /\ j \in Nat /\ seg[i].base \in Nat /\ seg[j].base \in Nat
        /\ EndOf(seg[i]) \in Addr /\ EndOf(seg[j]) \in Addr
    BY SegTyped
  <2> QED  BY <2>1, Small
<1>2. \A k, l \in DOMAIN seg : k < l => EndOf(seg[l]) <= seg[k].base
  BY DEF Segs
<1>3. ~(i < j) /\ ~(j < i)
  BY <1>1, <1>2
<1> QED  BY <1>1, <1>3

(* They end before the segment does. *)
LEMMA SegChunkFacts ==
  ASSUME NEW seg, NEW E, NEW lo, NEW hi, Segs(seg, E, lo, hi), NEW z, Layout(z, seg, E),
         NEW i \in DOMAIN seg, NEW a \in SegChunks(z, seg, i)
  PROVE  /\ a \in DOMAIN z /\ a \in Nat /\ z[a] \in Nat /\ z[a] > 0
         /\ a + z[a] <= stop(seg, E, i) /\ stop(seg, E, i) < EndOf(seg[i])
         /\ stop(seg, E, i) \in Nat /\ first(seg, i) <= a
         /\ \A j \in DOMAIN seg : a + z[a] = stop(seg, E, j) => j = i
<1>1. a \in DOMAIN z /\ seg[i].base <= a /\ a < EndOf(seg[i])
  BY DEF SegChunks
<1>2. a \in Nat /\ Even(a) /\ z[a] \in Nat /\ z[a] > 0
  BY <1>1 DEF Layout
<1>3. \A k \in DOMAIN seg : /\ stop(seg, E, k) \in Nat /\ stop(seg, E, k) + 2 <= EndOf(seg[k])
                            /\ EndOf(seg[k]) \in Nat /\ seg[k].base \in Nat
                            /\ first(seg, k) \in Nat /\ seg[k].base <= first(seg, k)
                            /\ first(seg, k) < stop(seg, E, k)
  <2>1. \A k \in DOMAIN seg : /\ stop(seg, E, k) \in Nat /\ stop(seg, E, k) + 2 <= EndOf(seg[k])
                              /\ EndOf(seg[k]) \in Addr /\ seg[k].base \in Nat
                              /\ first(seg, k) \in Nat /\ seg[k].base <= first(seg, k)
    BY SegTyped
  <2>2. \A k \in DOMAIN seg : first(seg, k) < stop(seg, E, k)
    BY DEF Segs
  <2> QED  BY <2>1, <2>2, Small
<1>4. first(seg, i) <= a
  BY <1>1, <1>2, SegTyped
<1>5. PICK j \in DOMAIN seg : seg[j].base <= a /\ a + z[a] <= stop(seg, E, j)
  BY <1>1 DEF Layout
<1>6. a < EndOf(seg[j])
  BY <1>2, <1>3, <1>5
<1>7. i = j
  BY <1>1, <1>2, <1>5, <1>6, SegmentsApart
<1>8. ASSUME NEW k \in DOMAIN seg, a + z[a] = stop(seg, E, k) PROVE k = i
  <2>1. PICK e : e = a + z[a]
    OBVIOUS
  <2>2. /\ e \in Nat /\ e <= stop(seg, E, i) /\ e = stop(seg, E, k)
        /\ seg[i].base <= e
    BY <1>1, <1>2, <1>3, <1>5, <1>7, <1>8, <2>1
  <2>3. e < EndOf(seg[i]) /\ seg[k].base <= e /\ e < EndOf(seg[k])
    BY <1>3, <2>2
  <2> QED  BY <2>2, <2>3, SegmentsApart
<1> QED  BY <1>1, <1>2, <1>3, <1>4, <1>5, <1>7, <1>8

(* The last one of them.                                                   *)
LEMMA TopInFirst ==
  ASSUME NEW seg, NEW E, NEW lo, NEW hi, Segs(seg, E, lo, hi), NEW z, Layout(z, seg, E),
         NEW t \in DOMAIN z, t + z[t] = E, NEW i \in DOMAIN seg, t \in SegChunks(z, seg, i)
  PROVE  i = 1
<1>1. 1 \in DOMAIN seg /\ stop(seg, E, 1) = E
  BY DEF Segs, stop
<1> QED  BY <1>1, SegChunkFacts

-------------------------------------------------------------------------------
(* What ends a walk.                                                       *)
LEMMA FencepostEnds ==
  ASSUME NEW m, NEW z, NEW U, NEW E, Hole(m, z, U, {}, {}, E), NEW i \in DOMAIN m.seg, i # 1
  PROVE  fencepost(m, stop(m.seg, E, i))
<1>1. PICK p, q : p = m.seg[i].record /\ q = stop(m.seg, E, i)
  OBVIOUS
<1>2. p \in U /\ z[p] = 6
  BY <1>1, Small DEF Hole, Records
<1>3. q = p + 6
  BY <1>1, Small DEF stop
<1>4. m.chunk[q].size = 1 /\ m.chunk[q].cinuse
  BY <1>1 DEF Hole, Tags
<1>5. m.chunk[q].pinuse
  BY <1>2, <1>3, HoleNextUsed
<1> QED  BY <1>1, <1>4, <1>5 DEF fencepost

WalksUp(C, G, ends, next) ==
    /\ C \in SUBSET Nat /\ G \in SUBSET Nat
    /\ \A q \in G \cap ends : \A c \in C : c < q
    /\ \A q \in G \ ends : /\ q \in C /\ next[q] \in G /\ q < next[q]
                           /\ \A c \in C : c <= q \/ next[q] <= c
SegGoal(z, seg, E, i) ==
    SegChunks(z, seg, i) \cup (IF i = 1 THEN {} ELSE {stop(seg, E, i)})

(* A walk through a segment comes by its chunks, from low to high. *)
LEMMA SegWalksUp ==
  ASSUME NEW m, NEW z, NEW U, NEW E, Hole(m, z, U, {}, {}, E), TopOK(m, z, U, {}, E),
         NEW i \in DOMAIN m.seg
  PROVE  WalksUp(SegChunks(z, m.seg, i) \ {m.top}, SegGoal(z, m.seg, E, i),
                 EndsWalk(m, m.seg[i]), NextChunk(m, m.seg[i]))
<1>0. PICK s, C, G, ends, next :
          /\ s = m.seg[i] /\ C = SegChunks(z, m.seg, i) \ {m.top}
          /\ G = SegGoal(z, m.seg, E, i)
          /\ ends = EndsWalk(m, s) /\ next = NextChunk(m, s)
  OBVIOUS
<1>1. PICK seg, lo, hi, S : /\ seg = m.seg /\ lo = m.least_addr /\ hi = m.brk
                            /\ S = SegChunks(z, seg, i)
  OBVIOUS
<1>2. Segs(seg, E, lo, hi) /\ Layout(z, seg, E) /\ i \in DOMAIN seg /\ s = seg[i]
  BY <1>0, <1>1 DEF Hole
<1>3. \A a \in S : /\ a \in DOMAIN z /\ a \in Nat /\ z[a] \in Nat /\ z[a] > 0
                   /\ a + z[a] <= stop(seg, E, i) /\ stop(seg, E, i) < EndOf(seg[i])
                   /\ stop(seg, E, i) \in Nat /\ first(seg, i) <= a
                   /\ \A j \in DOMAIN seg : a + z[a] = stop(seg, E, j) => j = i
  BY <1>1, <1>2, SegChunkFacts
<1>4. /\ stop(seg, E, i) \in Nat /\ stop(seg, E, i) < EndOf(seg[i]) /\ EndOf(seg[i]) \in Nat
      /\ seg[i].base \in Nat
  <2>1. /\ stop(seg, E, i) \in Nat /\ stop(seg, E, i) + 2 <= EndOf(seg[i])
        /\ EndOf(seg[i]) \in Addr /\ seg[i].base \in Nat
    BY <1>2, SegTyped
  <2> QED  BY <2>1, Small
<1>5. C = S \ {m.top} /\ G = S \cup (IF i = 1 THEN {} ELSE {stop(seg, E, i)})
  BY <1>0, <1>1 DEF SegGoal
<1>6. C \in SUBSET Nat /\ G \in SUBSET Nat
  BY <1>3, <1>4, <1>5
<1>7. m.top \in DOMAIN z /\ m.top + z[m.top] = E
  BY DEF TopOK
<1>8. \A q \in Nat : q \in ends <=> \/ q < s.base \/ q >= s.base + s.size \/ q = m.top
                                    \/ fencepost(m, q) \/ chunksize(m, q) = 0
  BY <1>0 DEF EndsWalk
<1>9. \A q \in S : q \in ends <=> q = m.top
  <2> SUFFICES ASSUME NEW q \in S, q \in ends, q # m.top PROVE FALSE
    BY <1>3, <1>8
  <2>1. q \in DOMAIN z /\ q \in Nat /\ q + z[q] # E
    BY <1>3, <1>7, NotTop
  <2>2. z[q] \in Nat /\ z[q] >= 4
    BY <2>1, HoleChunk
  <2>3. chunksize(m, q) = z[q]
    BY <2>1 DEF Hole, Tags, chunksize
  <2>4. seg[i].base <= q /\ q < EndOf(seg[i])
    BY <1>1 DEF SegChunks
  <2>5. ~(q < s.base) /\ ~(q >= s.base + s.size)
    BY <1>2, <1>4, <2>1, <2>4 DEF EndOf
  <2>6. ~fencepost(m, q) /\ chunksize(m, q) # 0
    BY <2>2, <2>3 DEF fencepost, chunksize
  <2> QED  BY <1>8, <2>1, <2>5, <2>6
<1>10. i # 1 => stop(seg, E, i) \in ends
  BY <1>1, <1>4, <1>8, FencepostEnds
<1>11. ASSUME NEW q \in G \cap ends, NEW c \in C PROVE c < q
  <2>1. c \in S /\ c \in Nat /\ c # m.top
    BY <1>3, <1>5
  <2>2. CASE q \notin S
    <3>1. q = stop(seg, E, i)
      BY <1>5, <2>2
    <3> QED  BY <1>3, <2>1, <3>1
  <2>3. CASE q \in S
    <3>1. q = m.top /\ q \in Nat
      BY <1>3, <1>9, <2>3
    <3>2. i = 1
      BY <1>1, <1>2, <1>7, <2>3, <3>1, TopInFirst
    <3>3. stop(seg, E, i) = E
      BY <3>2 DEF stop
    <3>4. c <= q \/ q + z[q] <= c
      BY <1>2, <1>3, <2>1, <2>3 DEF Layout
    <3>5. c + z[c] <= E /\ z[c] \in Nat /\ z[c] > 0 /\ E \in Nat
      BY <1>3, <1>4, <2>1, <3>3
    <3> QED  BY <1>7, <2>1, <3>1, <3>4, <3>5
  <2> QED  BY <2>2, <2>3
<1>12. ASSUME NEW q \in G \ ends
       PROVE  /\ q \in C /\ next[q] \in G /\ q < next[q]
              /\ \A c \in C : c <= q \/ next[q] <= c
  <2>1. q \in S /\ q # m.top /\ q \in C
    BY <1>5, <1>9, <1>10
  <2>2. q \in DOMAIN z /\ q \in Nat /\ z[q] \in Nat /\ z[q] > 0 /\ q + z[q] # E
    BY <1>3, <1>7, <2>1, NotTop
  <2>3. chunksize(m, q) = z[q]
    BY <2>2 DEF Hole, Tags, chunksize
  <2>4. next[q] = q + z[q]
    BY <1>0, <2>2, <2>3 DEF NextChunk
  <2>5. \A c \in C : c <= q \/ q + z[q] <= c
    BY <1>2, <1>3, <1>5, <2>2 DEF Layout
  <2>6. q + z[q] \in G
    <3>1. q + z[q] \in DOMAIN z \cup Stops(seg, E)
      BY <1>2, <2>2 DEF Layout
    <3>2. CASE q + z[q] \in DOMAIN z
      <4>1. seg[i].base <= q /\ q + z[q] <= stop(seg, E, i)
        BY <1>1, <1>3, <2>1 DEF SegChunks
      <4>2. seg[i].base <= q + z[q] /\ q + z[q] < EndOf(seg[i])
        BY <1>4, <2>2, <4>1
      <4>3. q + z[q] \in S
        BY <1>1, <3>2, <4>2 DEF SegChunks
      <4> QED  BY <1>5, <4>3
    <3>3. CASE q + z[q] \in Stops(seg, E)
      <4>1. PICK j \in DOMAIN seg : q + z[q] = stop(seg, E, j)
        BY <3>3 DEF Stops
      <4>2. j = i
        BY <1>3, <2>1, <4>1
      <4>3. i # 1
        BY <2>2, <4>1, <4>2 DEF stop
      <4> QED  BY <1>5, <4>1, <4>2, <4>3
    <3> QED  BY <3>1, <3>2, <3>3
  <2> QED  BY <2>1, <2>2, <2>4, <2>5, <2>6
<1>13. WalksUp(C, G, ends, next)
  BY <1>6, <1>11, <1>12 DEF WalksUp
<1> QED  BY <1>0, <1>13

-------------------------------------------------------------------------------
(* What the walks come through.                                            *)
LEMMA ChunksOfIs ==
  ASSUME NEW m, NEW z, NEW U, NEW E, Hole(m, z, U, {}, {}, E), TopOK(m, z, U, {}, E),
         NEW i \in DOMAIN m.seg
  PROVE  chunks_of(m, m.seg[i]) = SegChunks(z, m.seg, i) \ {m.top}
<1>1. PICK s, C, G, ends, next :
          /\ s = m.seg[i] /\ C = SegChunks(z, m.seg, i) \ {m.top}
          /\ G = SegGoal(z, m.seg, E, i)
          /\ ends = EndsWalk(m, s) /\ next = NextChunk(m, s)
  OBVIOUS
<1>2. /\ C \in SUBSET Nat /\ G \in SUBSET Nat
      /\ \A q \in G \cap ends : \A c \in C : c < q
      /\ \A q \in G \ ends : /\ q \in C /\ next[q] \in G /\ q < next[q]
                             /\ \A c \in C : c <= q \/ next[q] <= c
  <2>1. WalksUp(C, G, ends, next)
    BY <1>1, SegWalksUp
  <2> QED  BY <2>1 DEF WalksUp
<1>3. m \in State /\ Segs(m.seg, E, m.least_addr, m.brk) /\ Layout(z, m.seg, E)
  BY DEF Hole
<1>4. /\ EndOf(s) \in Addr /\ first(m.seg, i) \in Nat /\ s.base \in Nat
      /\ stop(m.seg, E, i) + 2 <= EndOf(s) /\ stop(m.seg, E, i) \in Nat
      /\ s.base <= first(m.seg, i)
  BY <1>1, <1>3, SegTyped
<1>5. s \in SegmentSet
  <2>1. m.seg \in Seq(SegmentSet)
    BY <1>3 DEF Segs
  <2> QED  BY <1>1, <2>1, ElementOfSeq
<1>6. PICK W : IsWalk(W, Nat, ends, next) /\ chunks_of(m, s) = W[align_as_chunk(s.base)]
  BY <1>1, <1>3, <1>4, <1>5, ChunksOfWalk
<1>7. PICK M : M = EndOf(s)
  OBVIOUS
<1>8. M \in Nat
  BY <1>4, <1>7, Small
<1>9. \A q \in Nat : M <= q => q \in ends
  BY <1>1, <1>7, <1>8 DEF EndsWalk, EndOf
<1>10. \A q \in G : W[q] = {c \in C : q <= c}
  BY <1>2, <1>6, <1>8, <1>9, WalkIs
<1>11. PICK f : f = first(m.seg, i)
  OBVIOUS
<1>12. f \in G
  <2>1. f \in DOMAIN z /\ f < stop(m.seg, E, i)
    BY <1>3, <1>11 DEF Segs, Layout
  <2>2. s.base <= f /\ f < EndOf(s)
    BY <1>4, <1>8, <1>7, <1>11, <2>1
  <2> QED  BY <1>1, <2>1, <2>2 DEF SegChunks, SegGoal
<1>13. \A c \in C : f <= c
  BY <1>1, <1>3, <1>11, SegChunkFacts
<1>14. W[f] = C
  BY <1>10, <1>12, <1>13
<1>15. f = align_as_chunk(s.base)
  BY <1>1, <1>11 DEF first
<1> QED  BY <1>1, <1>6, <1>14, <1>15

(* All chunks that the walks come by are those of the layout but top. *)
LEMMA AllChunksAre ==
  ASSUME NEW m, NEW z, NEW U, Heap(m, z, U)
  PROVE  all_chunks(m) = DOMAIN z \ {m.top}
<1>1. PICK E : Hole(m, z, U, {}, {}, E) /\ TopOK(m, z, U, {}, E)
  BY DEF Heap
<1>2. \A i \in DOMAIN m.seg : chunks_of(m, m.seg[i]) = SegChunks(z, m.seg, i) \ {m.top}
  BY <1>1, ChunksOfIs
<1>3. Range(m.seg) = {m.seg[i] : i \in DOMAIN m.seg}
  BY DEF Range
<1>4. all_chunks(m) = UNION {chunks_of(m, m.seg[i]) : i \in DOMAIN m.seg}
  BY <1>3 DEF all_chunks
<1>5. Segs(m.seg, E, m.least_addr, m.brk) /\ Layout(z, m.seg, E)
  BY <1>1 DEF Hole
<1>6. ASSUME NEW a \in DOMAIN z PROVE \E i \in DOMAIN m.seg : a \in SegChunks(z, m.seg, i)
  <2>1. PICK i \in DOMAIN m.seg : m.seg[i].base <= a /\ a + z[a] <= stop(m.seg, E, i)
    BY <1>5 DEF Layout
  <2>2. a \in Nat /\ z[a] \in Nat /\ z[a] > 0
    BY <1>5 DEF Layout
  <2>3. stop(m.seg, E, i) \in Nat /\ stop(m.seg, E, i) + 2 <= EndOf(m.seg[i])
        /\ EndOf(m.seg[i]) \in Addr
    BY <1>5, SegTyped
  <2>4. EndOf(m.seg[i]) \in Nat
    BY <2>3, Small
  <2>5. a < EndOf(m.seg[i])
    BY <2>1, <2>2, <2>3, <2>4
  <2> QED  BY <2>1, <2>5 DEF SegChunks
<1>7. \A i \in DOMAIN m.seg : SegChunks(z, m.seg, i) \subseteq DOMAIN z
  BY DEF SegChunks
<1> QED  BY <1>2, <1>4, <1>6, <1>7

(* Which chunks are in use.                                                *)
LEMMA UsedAre ==
  ASSUME NEW m, NEW z, NEW U, Heap(m, z, U)
  PROVE  /\ \A q \in DOMAIN z : is_inuse(m, q) <=> q \in U
         /\ {q \in all_chunks(m) : is_inuse(m, q)} = U
         /\ {q \in all_chunks(m) : ~is_inuse(m, q)} = DOMAIN z \ (U \cup {m.top})
<1>1. PICK E : Hole(m, z, U, {}, {}, E) /\ TopOK(m, z, U, {}, E)
  BY DEF Heap
<1>2. U \subseteq DOMAIN z /\ m.top \notin U /\ m.top \in DOMAIN z
  BY HeapSizes
<1>3. ASSUME NEW q \in DOMAIN z PROVE is_inuse(m, q) <=> q \in U
  <2>1. CASE q \in U
    BY <1>1, <2>1, HoleNextUsed DEF is_inuse
  <2>2. CASE q \notin U
    <3>1. ~m.chunk[q].cinuse
      BY <1>1, <1>3, <2>2, HoleFree
    <3>2. m.chunk[q].pinuse
      BY <1>1, <1>3, <2>2, HoleFreePinuse
    <3> QED  BY <2>2, <3>1, <3>2 DEF is_inuse
  <2> QED  BY <2>1, <2>2
<1>4. all_chunks(m) = DOMAIN z \ {m.top}
  BY AllChunksAre
<1> QED  BY <1>2, <1>3, <1>4

(* Before the first call there is none. *)
LEMMA NoChunks ==
  ASSUME NEW m, Blank(m)
  PROVE  all_chunks(m) = {} /\ Range(m.seg) = {}
<1>1. m.seg = <<>>
  BY DEF Blank
<1>2. Range(m.seg) = {}
  BY <1>1 DEF Range
<1> QED  BY <1>2 DEF all_chunks

(* What is in use is the program's or a record's. *)
LEMMA InUseAccountedHolds ==
  ASSUME Inv
  PROVE  InUseAccounted
<1>1. PICK m, b, B, X : m = gm /\ b = live /\ B = ChunksOf(b) /\ X = foreign
  OBVIOUS
<1>2. LiveOK(m, b) /\ Sys(m, B, X)
  BY <1>1 DEF Inv, Holds
<1>3. PICK R : R = {s.record : s \in {t \in Range(m.seg) : t.record # NULL}}
  OBVIOUS
<1>4. {q \in all_chunks(m) : is_inuse(m, q)} = B \cup R
  <2>1. CASE m.top = NULL
    <3>1. B = {} /\ Blank(m)
      BY <1>2, <2>1 DEF Sys
    <3>2. R = {}
      BY <1>3, <3>1, NoChunks
    <3> QED  BY <3>1, <3>2, NoChunks
  <2>2. CASE m.top # NULL
    <3>1. PICK z : Heap(m, z, B \cup RecordsOf(m.seg))
      BY <1>2, <2>2 DEF Sys, HeapOf
    <3>2. {q \in all_chunks(m) : is_inuse(m, q)} = B \cup RecordsOf(m.seg)
      BY <3>1, UsedAre
    <3>3. PICK E : Hole(m, z, B \cup RecordsOf(m.seg), {}, {}, E)
      BY <3>1 DEF Heap
    <3>4. m.seg[1].record = NULL /\ 1 \in DOMAIN m.seg
      BY <3>3 DEF Hole, Segs
    <3>5. \A i \in DOMAIN m.seg \ {1} : m.seg[i].record # NULL
      <4>1. \A i \in DOMAIN m.seg \ {1} : m.seg[i].record \in B \cup RecordsOf(m.seg)
        BY DEF RecordsOf
      <4>2. B \cup RecordsOf(m.seg) \subseteq DOMAIN z
        BY <3>1, HeapSizes
      <4>3. \A a \in DOMAIN z : a # NULL
        BY <3>3, HoleChunk
      <4> QED  BY <4>1, <4>2, <4>3
    <3>6. R = RecordsOf(m.seg)
      BY <1>3, <3>4, <3>5 DEF RecordsOf, Range
    <3> QED  BY <3>2, <3>6
  <2> QED  BY <2>1, <2>2
<1>5. ASSUME NEW mem \in DOMAIN b PROVE b[mem].size <= dlmalloc_usable_size(m, mem)
  <2>1. m.chunk[mem2chunk(mem)].size \in AtLeast(b[mem].size + 1) /\ b[mem].size \in Nat
    BY <1>2, BlockFacts
  <2>2. dlmalloc_usable_size(m, mem) = m.chunk[mem2chunk(mem)].size - 1
    BY Small DEF dlmalloc_usable_size, chunksize
  <2>3. PICK k : k = m.chunk[mem2chunk(mem)].size
    OBVIOUS
  <2>4. k \in Nat /\ k >= b[mem].size + 1
    BY <2>1, <2>3 DEF AtLeast
  <2> QED  BY <2>1, <2>2, <2>3, <2>4
<1> QED  BY <1>1, <1>3, <1>4, <1>5 DEF InUseAccounted, ChunksOf

(* A chunk is marked as in use exactly when the program has its block or it  *)
(* holds a segment's record: nothing leaks and nothing is free that is used  *)
(* (malloc.c, the cinuse bits).                                              *)
THEOREM InUseAccountedAlways == Spec => []InUseAccounted
<1>1. Inv => InUseAccounted
  BY InUseAccountedHolds
<1> QED  BY <1>1, InvAlways, PTL

-------------------------------------------------------------------------------
(* Sums over chunks count their words.                                     *)
SizesOf(m, S) == [q \in S |-> chunksize(m, q)]
SegmentSizes(seg) == [i \in DOMAIN seg |-> seg[i].size]

(* The sums of the checks are those of the induction, *)
LEMMA SizeOfIs ==
  ASSUME NEW m, NEW S
  PROVE  SizeOf(m, S) = SumOver(S, SizesOf(m, S))
<1> DEFINE g == SizesOf(m, S)
           eqn1(h) == [s \in SUBSET S |->
               IF s = {} THEN 0
               ELSE chunksize(m, Chosen(s)) + h[s \ {Chosen(s)}]]
           eqn2(h) == [s \in SUBSET S |->
                         IF s = {} THEN 0 ELSE g[Chosen(s)] + h[s \ {Chosen(s)}]]
<1>1. SizeOf(m, S) = (CHOOSE h : h = eqn1(h))[S]
  BY DEF SizeOf, MapThenSumSet, MapThenFoldSet, Chosen
<1>2. \A h : eqn1(h) = eqn2(h)
  <2>1. \A s \in SUBSET S : s # {} => Chosen(s) \in S
    BY DEF Chosen
  <2>2. \A q \in S : g[q] = chunksize(m, q)
    BY DEF SizesOf
  <2> HIDE DEF g
  <2> QED  BY <2>1, <2>2
<1>3. SumOver(S, g) = (CHOOSE h : h = eqn2(h))[S]
  BY DEF SumOver
<1> HIDE DEF eqn1, eqn2
<1> QED  BY <1>1, <1>2, <1>3

(* over chunks and over segments. *)
LEMMA SegmentsSumIs ==
  ASSUME NEW seg
  PROVE  MapThenSumSet(LAMBDA i : seg[i].size, DOMAIN seg)
         = SumOver(DOMAIN seg, SegmentSizes(seg))
<1> DEFINE D == DOMAIN seg
           g == SegmentSizes(seg)
           eqn1(h) == [s \in SUBSET D |->
               IF s = {} THEN 0 ELSE seg[Chosen(s)].size + h[s \ {Chosen(s)}]]
           eqn2(h) == [s \in SUBSET D |->
                         IF s = {} THEN 0 ELSE g[Chosen(s)] + h[s \ {Chosen(s)}]]
<1>1. MapThenSumSet(LAMBDA i : seg[i].size, D) = (CHOOSE h : h = eqn1(h))[D]
  BY DEF MapThenSumSet, MapThenFoldSet, Chosen
<1>2. \A h : eqn1(h) = eqn2(h)
  <2>1. \A s \in SUBSET D : s # {} => Chosen(s) \in D
    BY DEF Chosen
  <2>2. \A q \in D : g[q] = seg[q].size
    BY DEF SegmentSizes
  <2> HIDE DEF g, D
  <2> QED  BY <2>1, <2>2
<1>3. SumOver(D, g) = (CHOOSE h : h = eqn2(h))[D]
  BY DEF SumOver
<1> HIDE DEF eqn1, eqn2
<1> QED  BY <1>1, <1>2, <1>3

(* The words of some chunks.                                               *)
WordsOfChunks(z) == [a \in DOMAIN z |-> a .. (a + z[a]) - 1]

(* The words of two chunks are apart, and their number is the chunk's size. *)
LEMMA ChunkWords ==
  ASSUME NEW m, NEW z, NEW U, NEW E, Hole(m, z, U, {}, {}, E)
  PROVE  /\ AreApart(WordsOfChunks(z), DOMAIN z)
         /\ \A a \in DOMAIN z : /\ IsFiniteSet(WordsOfChunks(z)[a])
                                /\ Cardinality(WordsOfChunks(z)[a]) = z[a] /\ z[a] \in Nat
                                /\ chunksize(m, a) = z[a]
         /\ IsFiniteSet(DOMAIN z)
<1>1. \A a \in DOMAIN z : a \in Nat /\ z[a] \in Nat /\ z[a] > 0 /\ a <= BrkLimit
  <2>1. \A a \in DOMAIN z : a \in Nat /\ z[a] \in Nat /\ z[a] > 0 /\ a \in Addr
    BY HoleChunk
  <2> QED  BY <2>1, Small
<1>2. AreApart(WordsOfChunks(z), DOMAIN z)
  <2> SUFFICES ASSUME NEW a \in DOMAIN z, NEW b \in DOMAIN z, a # b
               PROVE  (a .. (a + z[a]) - 1) \cap (b .. (b + z[b]) - 1) = {}
    BY DEF AreApart, WordsOfChunks
  <2>1. (b <= a \/ a + z[a] <= b) /\ (a <= b \/ b + z[b] <= a)
    BY DEF Hole, Layout
  <2>2. a \in Nat /\ z[a] \in Nat /\ b \in Nat /\ z[b] \in Nat
    BY <1>1
  <2>3. a + z[a] <= b \/ b + z[b] <= a
    BY <2>1, <2>2
  <2> QED  BY <2>2, <2>3
<1>3. ASSUME NEW a \in DOMAIN z
      PROVE  IsFiniteSet(WordsOfChunks(z)[a]) /\ Cardinality(WordsOfChunks(z)[a]) = z[a]
  <2>1. PICK k, l : k = a /\ l = (a + z[a]) - 1
    OBVIOUS
  <2>2. k \in Int /\ l \in Int /\ ~(k > l) /\ l - k + 1 = z[a]
    BY <1>1, <2>1
  <2>3. IsFiniteSet(k .. l) /\ Cardinality(k .. l) = z[a]
    BY <2>2, FS_Interval
  <2> QED  BY <2>1, <2>3 DEF WordsOfChunks
<1>4. IsFiniteSet(DOMAIN z)
  <2>1. DOMAIN z \in SUBSET Nat /\ BrkLimit \in Nat
    BY <1>1, Small
  <2> QED  BY <1>1, <2>1, FS_BoundedSetOfNaturals
<1>5. \A a \in DOMAIN z : chunksize(m, a) = z[a]
  BY DEF Hole, Tags, chunksize
<1> QED  BY <1>1, <1>2, <1>3, <1>4, <1>5

(* So a sum of sizes counts words. *)
LEMMA SizeOfWords ==
  ASSUME NEW m, NEW z, NEW U, NEW E, Hole(m, z, U, {}, {}, E), NEW S, S \subseteq DOMAIN z
  PROVE  /\ IsFiniteSet(UnionOver(WordsOfChunks(z), S))
         /\ Cardinality(UnionOver(WordsOfChunks(z), S)) = SizeOf(m, S)
         /\ SizeOf(m, S) \in Nat
<1>1. PICK e : e = WordsOfChunks(z)
  OBVIOUS
<1>2. AreApart(e, DOMAIN z)
      /\ (\A a \in DOMAIN z : /\ IsFiniteSet(e[a]) /\ Cardinality(e[a]) = z[a] /\ z[a] \in Nat
                              /\ chunksize(m, a) = z[a])
      /\ IsFiniteSet(DOMAIN z)
  BY <1>1, ChunkWords
<1>3. IsFiniteSet(S)
  BY <1>2, FS_Subset
<1>4. PICK g : g = SizesOf(m, S)
  OBVIOUS
<1>5. g \in [S -> Nat] /\ \A x \in S : IsFiniteSet(e[x]) /\ Cardinality(e[x]) = g[x]
  BY <1>2, <1>4 DEF SizesOf
<1>6. AreApart(e, S)
  BY <1>2 DEF AreApart
<1>7. IsFiniteSet(UnionOver(e, S)) /\ Cardinality(UnionOver(e, S)) = SumOver(S, g)
  BY <1>3, <1>5, <1>6, SumUnion
<1>8. SizeOf(m, S) = SumOver(S, g)
  BY <1>4, SizeOfIs
<1>9. Cardinality(UnionOver(e, S)) \in Nat
  BY <1>7, FS_CardinalityType
<1> QED  BY <1>1, <1>7, <1>8, <1>9

-------------------------------------------------------------------------------
(* Sums of parts, and what the allocator owns.                             *)
LEMMA SizesAdd ==
  ASSUME NEW m, NEW z, NEW U, NEW E, Hole(m, z, U, {}, {}, E),
         NEW S, S \subseteq DOMAIN z, NEW T, T \subseteq DOMAIN z, S \cap T = {}
  PROVE  SizeOf(m, S \cup T) = SizeOf(m, S) + SizeOf(m, T)
         /\ SizeOf(m, S) \in Nat /\ SizeOf(m, T) \in Nat
<1>1. PICK e, A, C : e = WordsOfChunks(z) /\ A = UnionOver(e, S) /\ C = UnionOver(e, T)
  OBVIOUS
<1>2. AreApart(e, DOMAIN z)
  BY <1>1, ChunkWords
<1>3. IsFiniteSet(A) /\ Cardinality(A) = SizeOf(m, S) /\ SizeOf(m, S) \in Nat
  BY <1>1, SizeOfWords
<1>4. IsFiniteSet(C) /\ Cardinality(C) = SizeOf(m, T) /\ SizeOf(m, T) \in Nat
  BY <1>1, SizeOfWords
<1>5. PICK V : V = S \cup T
  OBVIOUS
<1>6. Cardinality(UnionOver(e, V)) = SizeOf(m, V)
  <2>1. V \subseteq DOMAIN z
    BY <1>5
  <2> QED  BY <1>1, <2>1, SizeOfWords
<1>7. UnionOver(e, V) = A \cup C
  BY <1>1, <1>5 DEF UnionOver
<1>8. A \cap C = {}
  <2>1. \A x \in S, y \in T : e[x] \cap e[y] = {}
    <3>1. \A x \in S, y \in T : x # y /\ x \in DOMAIN z /\ y \in DOMAIN z
      OBVIOUS
    <3> QED  BY <1>2, <3>1 DEF AreApart
  <2> QED  BY <1>1, <2>1 DEF UnionOver
<1>9. Cardinality(A \cup C) = Cardinality(A) + Cardinality(C) - Cardinality(A \cap C)
  BY <1>3, <1>4, FS_Union
<1>10. Cardinality(A \cap C) = 0
  BY <1>8, FS_EmptySet
<1>11. PICK k, l, n : k = SizeOf(m, S) /\ l = SizeOf(m, T) /\ n = SizeOf(m, V)
  OBVIOUS
<1>12. k \in Nat /\ l \in Nat /\ n = k + l - 0
  <2>1. n = Cardinality(A \cup C)
    BY <1>6, <1>7, <1>11
  <2> QED  BY <1>3, <1>4, <1>9, <1>10, <1>11, <2>1
<1>13. n = k + l
  BY <1>12
<1> QED  BY <1>5, <1>11, <1>12, <1>13

(* The footprint counts them. *)
LEMMA OwnedFinite ==
  ASSUME NEW m \in State, NEW X, Accounts(m, X)
  PROVE  IsFiniteSet(Owned(m.seg)) /\ IsFiniteSet(X)
         /\ m.footprint = Cardinality(Owned(m.seg)) /\ m.footprint \in Nat
         /\ m.footprint + Cardinality(X) = m.brk - Brk0
<1>1. PICK O : O = Owned(m.seg)
  OBVIOUS
<1>2. O \cup X = Brk0 .. m.brk - 1 /\ O \cap X = {}
      /\ m.footprint + Cardinality(X) = m.brk - Brk0 /\ Brk0 <= m.brk
  BY <1>1 DEF Accounts
<1>3. m.brk \in Nat /\ m.footprint \in Nat /\ Brk0 \in Nat
  <2>1. m.brk \in Addr /\ m.footprint \in size_t
    BY DEF State
  <2> QED  BY <2>1, Small
<1>4. IsFiniteSet(Brk0 .. m.brk - 1) /\ Cardinality(Brk0 .. m.brk - 1) = m.brk - Brk0
  <2>1. PICK k, l : k = Brk0 /\ l = m.brk - 1
    OBVIOUS
  <2>2. k \in Int /\ l \in Int
    BY <1>3, <2>1
  <2>3. IsFiniteSet(k .. l) /\ Cardinality(k .. l) = IF k > l THEN 0 ELSE l - k + 1
    BY <2>2, FS_Interval
  <2> QED  BY <1>2, <1>3, <2>1, <2>3
<1>5. IsFiniteSet(O) /\ IsFiniteSet(X)
  BY <1>2, <1>4, FS_Subset
<1>6. Cardinality(O \cup X) = Cardinality(O) + Cardinality(X) - Cardinality(O \cap X)
  BY <1>5, FS_Union
<1>7. Cardinality(O \cap X) = 0 /\ Cardinality(O) \in Nat /\ Cardinality(X) \in Nat
  BY <1>2, <1>5, FS_EmptySet, FS_CardinalityType
<1>8. m.footprint = Cardinality(O)
  <2>1. PICK k, l, n : k = Cardinality(O) /\ l = Cardinality(X) /\ n = m.brk - Brk0
    OBVIOUS
  <2>2. k \in Nat /\ l \in Nat /\ n \in Int
    BY <1>3, <1>7, <2>1
  <2>3. n = k + l - 0
    BY <1>2, <1>4, <1>6, <1>7, <2>1
  <2>4. m.footprint + l = n
    BY <1>2, <2>1
  <2>5. m.footprint = k
    BY <1>3, <2>2, <2>3, <2>4
  <2> QED  BY <2>1, <2>5
<1> QED  BY <1>1, <1>2, <1>3, <1>5, <1>8

(* The footprint is the sum of the sizes of the segments.                  *)
SegmentsTotal(seg) == MapThenSumSet(LAMBDA i : seg[i].size, DOMAIN seg)

(* Segments do not overlap, *)
LEMMA SegmentsSum ==
  ASSUME NEW seg, NEW E, NEW lo, NEW hi, Segs(seg, E, lo, hi)
  PROVE  SegmentsTotal(seg) = Cardinality(Owned(seg))
<1>1. PICK D, g, e : D = DOMAIN seg /\ g = SegmentSizes(seg) /\ e = [i \in D |-> Extent(seg[i])]
  OBVIOUS
<1>2. \A i \in D : seg[i].base \in Nat /\ seg[i].size \in Nat /\ i \in Nat
  BY <1>1, SegTyped
<1>3. g \in [D -> Nat]
  BY <1>1, <1>2 DEF SegmentSizes
<1>4. \A i \in D : IsFiniteSet(e[i]) /\ Cardinality(e[i]) = g[i]
  <2> SUFFICES ASSUME NEW i \in D PROVE IsFiniteSet(e[i]) /\ Cardinality(e[i]) = g[i]
    OBVIOUS
  <2>1. PICK k, l : k = seg[i].base /\ l = seg[i].base + seg[i].size - 1
    OBVIOUS
  <2>2. k \in Nat /\ seg[i].size \in Nat /\ l = k + seg[i].size - 1
    BY <1>2, <2>1
  <2>3. k \in Int /\ l \in Int /\ (IF k > l THEN 0 ELSE l - k + 1) = seg[i].size
    BY <2>2
  <2>4. IsFiniteSet(k .. l) /\ Cardinality(k .. l) = IF k > l THEN 0 ELSE l - k + 1
    BY <2>3, FS_Interval
  <2>5. e[i] = k .. l
    BY <1>1, <2>1 DEF Extent
  <2> QED  BY <1>1, <2>3, <2>4, <2>5 DEF SegmentSizes
<1>5. AreApart(e, D)
  <2> SUFFICES ASSUME NEW i \in D, NEW j \in D, i # j
               PROVE  Extent(seg[i]) \cap Extent(seg[j]) = {}
    BY <1>1 DEF AreApart
  <2> SUFFICES ASSUME NEW a \in Extent(seg[i]), a \in Extent(seg[j]) PROVE FALSE
    OBVIOUS
  <2>1. /\ seg[i].base \in Nat /\ seg[i].size \in Nat
        /\ seg[j].base \in Nat /\ seg[j].size \in Nat
    BY <1>2
  <2>2. /\ a \in Nat /\ seg[i].base <= a /\ a < seg[i].base + seg[i].size
        /\ seg[j].base <= a /\ a < seg[j].base + seg[j].size
    BY <2>1 DEF Extent
  <2>3. i = j
    BY <1>1, <2>2, SegmentsApart DEF EndOf
  <2> QED  BY <2>3
<1>6. IsFiniteSet(D)
  <2>1. seg \in Seq(SegmentSet)
    BY DEF Segs
  <2>2. Len(seg) \in Nat /\ D = 1 .. Len(seg)
    BY <1>1, <2>1
  <2>3. 1 \in Int /\ Len(seg) \in Int
    BY <2>2
  <2> QED  BY <2>2, <2>3, FS_Interval
<1>7. Cardinality(UnionOver(e, D)) = SumOver(D, g)
  BY <1>3, <1>4, <1>5, <1>6, SumUnion
<1>8. UnionOver(e, D) = Owned(seg)
  BY <1>1 DEF UnionOver, Owned
<1>9. SegmentsTotal(seg) = SumOver(D, g)
  BY <1>1, SegmentsSumIs DEF SegmentsTotal
<1> QED  BY <1>7, <1>8, <1>9

(* and none has no words. *)
LEMMA NoSegmentsSum ==
  ASSUME NEW seg, DOMAIN seg \subseteq {}
  PROVE  SegmentsTotal(seg) = 0 /\ Owned(seg) = {}
<1>1. PICK D, g : D = DOMAIN seg /\ g = SegmentSizes(seg)
  OBVIOUS
<1>2. D = {}
  BY <1>1
<1>3. g \in [D -> Nat] /\ IsFiniteSet(D)
  BY <1>1, <1>2, FS_EmptySet DEF SegmentSizes
<1>4. SumOver(D, g) = 0
  BY <1>2, <1>3, SumZero
<1>5. Owned(seg) = {}
  BY <1>1, <1>2 DEF Owned
<1>6. SegmentsTotal(seg) = SumOver(D, g)
  BY <1>1, SegmentsSumIs DEF SegmentsTotal
<1> QED  BY <1>4, <1>5, <1>6

-------------------------------------------------------------------------------
(* Segments and what others have.                                          *)
LEMMA BreakPartitionedHolds ==
  ASSUME Inv
  PROVE  BreakPartitioned
<1>1. PICK m, B, X : m = gm /\ B = ChunksOf(live) /\ X = foreign
  OBVIOUS
<1>2. Sys(m, B, X)
  BY <1>1 DEF Inv, Holds
<1>3. m \in State /\ Accounts(m, X)
  BY <1>2 DEF Sys
<1>4. /\ m.footprint = Cardinality(Owned(m.seg)) /\ m.footprint + Cardinality(X) = m.brk - Brk0
  BY <1>3, OwnedFinite
<1>5. UNION {Words(s) : s \in Range(m.seg)} = Owned(m.seg)
  BY DEF Words, Range, Owned, Extent
<1>6. Owned(m.seg) \cup X = Brk0 .. m.brk - 1
  BY <1>3 DEF Accounts
<1>7. m.footprint = SegmentsTotal(m.seg)
  <2>1. CASE m.top = NULL
    <3>1. m.seg = <<>>
      BY <1>2, <2>1 DEF Sys, Blank
    <3>2. DOMAIN m.seg \subseteq {}
      BY <3>1
    <3>3. PICK seg : seg = m.seg
      OBVIOUS
    <3>4. DOMAIN seg \subseteq {}
      BY <3>2, <3>3
    <3>5. SegmentsTotal(seg) = 0 /\ Owned(seg) = {}
      BY <3>4, NoSegmentsSum
    <3> QED  BY <1>4, <3>3, <3>5, FS_EmptySet
  <2>2. CASE m.top # NULL
    <3>1. PICK z : Heap(m, z, B \cup RecordsOf(m.seg))
      BY <1>2, <2>2 DEF Sys, HeapOf
    <3>2. PICK E, seg : seg = m.seg /\ Segs(seg, E, m.least_addr, m.brk)
      BY <3>1 DEF Heap, Hole
    <3>3. SegmentsTotal(seg) = Cardinality(Owned(seg))
      BY <3>2, SegmentsSum
    <3> QED  BY <1>4, <3>2, <3>3
  <2> QED  BY <2>1, <2>2
<1>8. /\ (UNION {Words(s) : s \in Range(gm.seg)}) \cup foreign = Brk0 .. gm.brk - 1
      /\ gm.footprint + Cardinality(foreign) = gm.brk - Brk0
  BY <1>1, <1>4, <1>5, <1>6
<1>9. gm.footprint = SegmentsTotal(gm.seg)
  BY <1>1, <1>7
<1> QED  BY <1>8, <1>9 DEF BreakPartitioned, SegmentsTotal

(* Every word below the break is in exactly one segment or belongs to        *)
(* others, and the footprint is what the segments add up to (malloc.c,       *)
(* footprint and seg).                                                       *)
THEOREM BreakPartitionedAlways == Spec => []BreakPartitioned
<1>1. Inv => BreakPartitioned
  BY BreakPartitionedHolds
<1> QED  BY <1>1, InvAlways, PTL

-------------------------------------------------------------------------------
(* The chunks, top and what is reserved behind it are the allocator's.     *)
LEMMA TopPlace ==
  ASSUME NEW m, NEW z, NEW U, NEW E, Hole(m, z, U, {}, {}, E), TopOK(m, z, U, {}, E)
  PROVE  /\ m.top \in DOMAIN z /\ m.top \in Nat /\ E \in Nat /\ m.top + m.topsize = E
         /\ m.topsize \in Nat /\ m.topsize > 0
         /\ 1 \in DOMAIN m.seg /\ m.seg[1].base \in Nat /\ m.seg[1].base <= m.top
         /\ EndOf(m.seg[1]) = E + 10 /\ m.seg[1].size \in Nat
         /\ \A a \in DOMAIN z : a # m.top => a + z[a] <= m.top \/ E + 10 <= a
<1>1. Segs(m.seg, E, m.least_addr, m.brk) /\ Layout(z, m.seg, E)
  BY DEF Hole
<1>2. PICK t, seg : t = m.top /\ seg = m.seg
  OBVIOUS
<1>3. t \in DOMAIN z /\ t + z[t] = E /\ m.topsize = z[t]
  BY <1>2 DEF TopOK
<1>4. t \in Nat /\ z[t] \in Nat /\ z[t] > 0
  BY <1>1, <1>3 DEF Layout
<1>5. 1 \in DOMAIN seg /\ E \in Nat /\ E + 10 = EndOf(seg[1]) /\ seg[1].base \in Nat
      /\ seg[1].size \in Nat
  <2>1. 1 \in DOMAIN seg /\ E \in Nat /\ E + TOP_FOOT_SIZE = EndOf(seg[1])
    BY <1>1, <1>2 DEF Segs
  <2>2. seg[1].base \in Nat /\ seg[1].size \in Nat
    BY <1>1, <1>2, <2>1, SegTyped
  <2> QED  BY <2>1, <2>2, Small
<1>6. PICK i \in DOMAIN seg : seg[i].base <= t /\ t + z[t] <= stop(seg, E, i)
  BY <1>1, <1>2, <1>3 DEF Layout
<1>7. t \in SegChunks(z, seg, i)
  <2>1. stop(seg, E, i) \in Nat /\ stop(seg, E, i) + 2 <= EndOf(seg[i]) /\ EndOf(seg[i]) \in Addr
    BY <1>1, <1>2, SegTyped
  <2>2. EndOf(seg[i]) \in Nat
    BY <2>1, Small
  <2>3. t < EndOf(seg[i])
    BY <1>4, <1>6, <2>1, <2>2
  <2> QED  BY <1>3, <1>6, <2>3 DEF SegChunks
<1>8. i = 1
  BY <1>1, <1>2, <1>3, <1>7, TopInFirst
<1>9. ASSUME NEW a \in DOMAIN z, a # t PROVE a + z[a] <= t \/ E + 10 <= a
  <2>1. a \in Nat /\ z[a] \in Nat /\ z[a] > 0
    BY <1>1 DEF Layout
  <2>2. (t <= a \/ a + z[a] <= t) /\ (a <= t \/ t + z[t] <= a)
    BY <1>1, <1>3 DEF Layout
  <2> SUFFICES ASSUME E <= a, a < E + 10 PROVE FALSE
    BY <1>3, <1>4, <1>5, <1>9, <2>1, <2>2
  <2>3. a \in SegChunks(z, seg, 1)
    BY <1>3, <1>4, <1>5, <1>6, <1>8, <2>1 DEF SegChunks
  <2>4. a + z[a] <= stop(seg, E, 1)
    BY <1>1, <1>2, <1>5, <2>3, SegChunkFacts
  <2>5. stop(seg, E, 1) = E
    BY DEF stop
  <2> QED  BY <1>5, <2>1, <2>4, <2>5
<1> QED  BY <1>2, <1>3, <1>4, <1>5, <1>6, <1>8, <1>9

(* Together they are no more than the segments. *)
LEMMA SizesWithinOwned ==
  ASSUME NEW m, NEW z, NEW U, NEW E, Hole(m, z, U, {}, {}, E), TopOK(m, z, U, {}, E),
         IsFiniteSet(Owned(m.seg))
  PROVE  (m.topsize + 10) + SizeOf(m, DOMAIN z \ {m.top}) <= Cardinality(Owned(m.seg))
<1>1. PICK t, seg, S, e, A, C, O :
          /\ t = m.top /\ seg = m.seg /\ S = DOMAIN z \ {t} /\ e = WordsOfChunks(z)
          /\ A = UnionOver(e, S) /\ C = t .. E + 9 /\ O = Owned(seg)
  OBVIOUS
<1>2. /\ t \in DOMAIN z /\ t \in Nat /\ E \in Nat /\ t + m.topsize = E
      /\ m.topsize \in Nat /\ m.topsize > 0
      /\ 1 \in DOMAIN seg /\ seg[1].base \in Nat /\ seg[1].base <= t
      /\ EndOf(seg[1]) = E + 10 /\ seg[1].size \in Nat
      /\ \A a \in DOMAIN z : a # t => a + z[a] <= t \/ E + 10 <= a
  BY <1>1, TopPlace
<1>3. Segs(seg, E, m.least_addr, m.brk) /\ Layout(z, seg, E)
  BY <1>1 DEF Hole
<1>4. \A a \in DOMAIN z : a \in Nat /\ z[a] \in Nat /\ z[a] > 0
  BY <1>3 DEF Layout
<1>5. IsFiniteSet(A) /\ Cardinality(A) = SizeOf(m, S) /\ SizeOf(m, S) \in Nat
  BY <1>1, SizeOfWords
<1>6. IsFiniteSet(C) /\ Cardinality(C) = m.topsize + 10
  <2>1. PICK l : l = E + 9
    OBVIOUS
  <2>2. t \in Int /\ l \in Int /\ ~(t > l) /\ l - t + 1 = m.topsize + 10
    BY <1>2, <2>1
  <2>3. IsFiniteSet(t .. l) /\ Cardinality(t .. l) = l - t + 1
    BY <2>2, FS_Interval
  <2> QED  BY <1>1, <2>1, <2>2, <2>3
<1>7. A \cap C = {}
  <2> SUFFICES ASSUME NEW a \in S, NEW w \in e[a], w \in C PROVE FALSE
    BY <1>1 DEF UnionOver
  <2>1. a \in DOMAIN z /\ a # t /\ w \in a .. (a + z[a]) - 1
    BY <1>1 DEF WordsOfChunks
  <2>2. a \in Nat /\ z[a] \in Nat /\ (a + z[a] <= t \/ E + 10 <= a)
    BY <1>2, <1>4, <2>1
  <2> QED  BY <1>1, <1>2, <2>1, <2>2
<1>8. A \subseteq O
  <2> SUFFICES ASSUME NEW a \in S, NEW w \in e[a] PROVE w \in O
    BY <1>1 DEF UnionOver
  <2>1. a \in DOMAIN z /\ w \in a .. (a + z[a]) - 1 /\ a \in Nat /\ z[a] \in Nat
    BY <1>1, <1>4 DEF WordsOfChunks
  <2>2. PICK i \in DOMAIN seg : seg[i].base <= a /\ a + z[a] <= stop(seg, E, i)
    BY <1>3, <2>1 DEF Layout
  <2>3. stop(seg, E, i) \in Nat /\ stop(seg, E, i) + 2 <= EndOf(seg[i]) /\ EndOf(seg[i]) \in Addr
        /\ seg[i].base \in Nat /\ seg[i].size \in Nat
    BY <1>3, SegTyped
  <2>4. w \in Nat /\ seg[i].base <= w /\ w < seg[i].base + seg[i].size
    <3>1. EndOf(seg[i]) = seg[i].base + seg[i].size
      BY DEF EndOf
    <3> QED  BY <2>1, <2>2, <2>3, <3>1
  <2>5. w \in Extent(seg[i])
    BY <2>3, <2>4 DEF Extent
  <2> QED  BY <1>1, <2>5 DEF Owned
<1>9. C \subseteq O
  <2> SUFFICES ASSUME NEW w \in C PROVE w \in O
    OBVIOUS
  <2>1. w \in Nat /\ seg[1].base <= w /\ w < seg[1].base + seg[1].size
    BY <1>1, <1>2 DEF EndOf
  <2>2. w \in Extent(seg[1])
    BY <1>2, <2>1 DEF Extent
  <2> QED  BY <1>1, <1>2, <2>2 DEF Owned
<1>10. IsFiniteSet(A \cup C)
       /\ Cardinality(A \cup C) = Cardinality(A) + Cardinality(C) - Cardinality(A \cap C)
  BY <1>5, <1>6, FS_Union
<1>11. Cardinality(A \cap C) = 0
  BY <1>7, FS_EmptySet
<1>12. Cardinality(A \cup C) <= Cardinality(O) /\ Cardinality(O) \in Nat
  BY <1>1, <1>8, <1>9, FS_Subset, FS_CardinalityType
<1>13. PICK k, l, n, o : /\ k = SizeOf(m, S) /\ l = m.topsize + 10
                         /\ n = Cardinality(A \cup C) /\ o = Cardinality(O)
  OBVIOUS
<1>14. k \in Nat /\ l \in Nat /\ n = k + l - 0 /\ n <= o /\ o \in Nat
  BY <1>2, <1>5, <1>6, <1>10, <1>11, <1>12, <1>13
<1>15. l + k <= o
  BY <1>14
<1> QED  BY <1>1, <1>13, <1>15

-------------------------------------------------------------------------------
(* The statistics.                                                         *)
LEMMA HeapTotals ==
  ASSUME NEW m, NEW z, NEW U, Heap(m, z, U), IsFiniteSet(Owned(m.seg)),
         NEW all, NEW free, NEW used,
         all = SizeOf(m, all_chunks(m)),
         free = SizeOf(m, {q \in all_chunks(m) : ~is_inuse(m, q)}),
         used = SizeOf(m, {q \in all_chunks(m) : is_inuse(m, q)})
  PROVE  /\ all \in Nat /\ free \in Nat /\ used \in Nat /\ all = free + used
         /\ m.topsize \in Nat /\ (m.topsize + 10) + all <= Cardinality(Owned(m.seg))
<1>1. PICK E : Hole(m, z, U, {}, {}, E) /\ TopOK(m, z, U, {}, E)
  BY DEF Heap
<1>2. PICK A, F : A = DOMAIN z \ {m.top} /\ F = DOMAIN z \ (U \cup {m.top})
  OBVIOUS
<1>3. U \subseteq DOMAIN z /\ m.top \notin U
  BY HeapSizes
<1>4. A = F \cup U /\ F \cap U = {} /\ F \subseteq DOMAIN z /\ A \subseteq DOMAIN z
  BY <1>2, <1>3
<1>5. SizeOf(m, F \cup U) = SizeOf(m, F) + SizeOf(m, U)
      /\ SizeOf(m, F) \in Nat /\ SizeOf(m, U) \in Nat
  BY <1>1, <1>3, <1>4, SizesAdd
<1>6. all_chunks(m) = A
  BY <1>2, AllChunksAre
<1>7. {q \in all_chunks(m) : is_inuse(m, q)} = U
      /\ {q \in all_chunks(m) : ~is_inuse(m, q)} = F
  BY <1>2, UsedAre
<1>8. all = SizeOf(m, A) /\ free = SizeOf(m, F) /\ used = SizeOf(m, U)
  BY <1>6, <1>7
<1>9. all = free + used /\ free \in Nat /\ used \in Nat
  BY <1>4, <1>5, <1>8
<1>10. (m.topsize + 10) + all <= Cardinality(Owned(m.seg))
  BY <1>1, <1>2, <1>8, SizesWithinOwned
<1>11. m.topsize \in Nat
  BY <1>1, TopPlace
<1> QED  BY <1>9, <1>10, <1>11

(* Nothing adds up to nothing. *)
LEMMA NothingTotals ==
  ASSUME NEW m
  PROVE  SizeOf(m, {}) = 0
<1>1. PICK S, g : S = {} /\ g = SizesOf(m, S)
  OBVIOUS
<1>2. g \in [S -> Nat] /\ IsFiniteSet(S)
  BY <1>1, FS_EmptySet DEF SizesOf
<1>3. SumOver(S, g) = 0
  BY <1>1, <1>2, SumZero
<1> QED  BY <1>1, <1>3, SizeOfIs

(* mallinfo and malloc_stats count the same words. *)
LEMMA StatisticsAgreeHolds ==
  ASSUME Inv
  PROVE  StatisticsAgree
<1>1. PICK m, B, X : m = gm /\ B = ChunksOf(live) /\ X = foreign
  OBVIOUS
<1>2. Sys(m, B, X)
  BY <1>1 DEF Inv, Holds
<1>3. m \in State /\ Accounts(m, X)
  BY <1>2 DEF Sys
<1>4. /\ m.footprint = Cardinality(Owned(m.seg)) /\ m.footprint \in Nat
      /\ IsFiniteSet(Owned(m.seg))
  BY <1>3, OwnedFinite
<1>5. PICK all, free, used :
          /\ all = SizeOf(m, all_chunks(m))
          /\ free = SizeOf(m, {q \in all_chunks(m) : ~is_inuse(m, q)})
          /\ used = SizeOf(m, {q \in all_chunks(m) : is_inuse(m, q)})
  OBVIOUS
<1>6. PICK info, stats : info = internal_mallinfo(m) /\ stats = internal_malloc_stats(m)
  OBVIOUS
<1>7. /\ info.arena + info.hblkhd = m.footprint
      /\ info.uordblks + info.fordblks = m.footprint
      /\ info.uordblks = stats.used
      /\ stats.used = info.hblkhd + used
  <2>1. CASE m.top = NULL
    <3>1. Blank(m)
      BY <1>2, <2>1 DEF Sys
    <3>2. {q \in all_chunks(m) : is_inuse(m, q)} = {} /\ Range(m.seg) = {}
      BY <3>1, NoChunks
    <3>3. used = 0
      BY <1>5, <3>2, NothingTotals
    <3>4. m.footprint = 0
      <4>1. Owned(m.seg) = {}
        <5>1. DOMAIN m.seg \subseteq {}
          BY <3>1 DEF Blank
        <5> QED  BY <5>1 DEF Owned
      <4> QED  BY <1>4, <4>1, FS_EmptySet
    <3>5. info.arena = 0 /\ info.hblkhd = 0 /\ info.uordblks = 0 /\ info.fordblks = 0
      BY <1>6, <2>1 DEF internal_mallinfo, is_initialized
    <3>6. stats.used = 0
      BY <1>6, <2>1 DEF internal_malloc_stats, is_initialized
    <3> QED  BY <3>3, <3>4, <3>5, <3>6
  <2>2. CASE m.top # NULL
    <3>1. PICK z : Heap(m, z, B \cup RecordsOf(m.seg))
      BY <1>2, <2>2 DEF Sys, HeapOf
    <3>2. all \in Nat /\ free \in Nat /\ used \in Nat /\ all = free + used /\ m.topsize \in Nat
      BY <1>4, <1>5, <3>1, HeapTotals
    <3>3. PICK f, t : f = m.footprint /\ t = m.topsize + TOP_FOOT_SIZE
      OBVIOUS
    <3>4. f \in Nat /\ t \in Nat
      BY <1>4, <3>2, <3>3, Small
    <3>5. free_words(m) = t + free
      BY <1>5, <3>3 DEF free_words
    <3>6. /\ info.arena = t + all /\ info.hblkhd = f - (t + all)
          /\ info.uordblks = f - (t + free) /\ info.fordblks = t + free
      BY <1>5, <1>6, <2>2, <3>3, <3>5 DEF internal_mallinfo, is_initialized
    <3>7. stats.used = f - t - free
      BY <1>5, <1>6, <2>2, <3>3 DEF internal_malloc_stats, is_initialized
    <3> QED  BY <3>2, <3>3, <3>4, <3>6, <3>7
  <2> QED  BY <2>1, <2>2
<1> QED  BY <1>1, <1>5, <1>6, <1>7 DEF StatisticsAgree

(* What internal_mallinfo and internal_malloc_stats report adds up: used and *)
(* free words are the footprint, with nothing counted twice (malloc.c).      *)
THEOREM StatisticsAgreeAlways == Spec => []StatisticsAgree
<1>1. Inv => StatisticsAgree
  BY StatisticsAgreeHolds
<1> QED  BY <1>1, InvAlways, PTL

-------------------------------------------------------------------------------
(* The checks of the code hold of a heap.  What finds a chunk in its bin:  *)
(* it finds all that are free but top and dv, and no others.               *)
LEMMA BinFindIs ==
  ASSUME NEW m, NEW z, NEW U, NEW E, Hole(m, z, U, {}, {}, E), TopOK(m, z, U, {}, E),
         NEW p \in DOMAIN z, m.chunk[p].size = z[p]
  PROVE  bin_find(m, p) <=> p \notin U \cup {m.top, m.dv}
<1>1. PICK X : X = U \cup {} \cup {m.top, m.dv}
  OBVIOUS
<1>2. Bins(m, z, X)
  BY <1>1 DEF Hole
<1>3. PICK s : s = z[p]
  OBVIOUS
<1>4. s \in Nat /\ s <= BrkLimit /\ (p + s # E => s >= 4)
  BY <1>3, HoleChunk
<1>5. p \notin X => s >= 4
  <2>1. ASSUME p \notin X PROVE s >= 4
    <3>1. p # m.top
      BY <1>1, <2>1
    <3>2. p + s # E
      BY <1>3, <3>1, NotTop DEF TopOK
    <3> QED  BY <1>4, <3>2
  <2> QED  BY <2>1
<1>6. m.smallbins \in [SmallSizes -> Seq(Addr)] /\ m.treebins \in [LargeSizes -> Seq(Addr)]
  BY DEF Hole, State
<1>7. ASSUME NEW bin \in Seq(Addr), Lists(bin, z, X, s)
      PROVE  (Contains(bin, p) <=> p \notin X) /\ (bin # <<>> <=> Range(bin) # {})
             /\ (p \in Range(bin) <=> p \notin X)
  <2>1. p \in Range(bin) <=> p \notin X
    BY <1>3, <1>7 DEF Lists
  <2>2. Contains(bin, p) <=> p \in Range(bin)
    BY <1>7, BinTyped DEF Contains
  <2>3. bin # <<>> <=> Range(bin) # {}
    BY <1>7, BinTyped
  <2> QED  BY <2>1, <2>2, <2>3
<1>8. bin_find(m, p) = IF is_small(s)
                       THEN s \in m.smallmap /\ Contains(m.smallbins[s], p)
                       ELSE Contains(m.treebins[s], p)
  BY <1>3 DEF bin_find, chunksize
<1>9. CASE is_small(s)
  <2>1. CASE s \in SmallSizes
    <3>1. m.smallbins[s] \in Seq(Addr) /\ Lists(m.smallbins[s], z, X, s)
          /\ (s \in m.smallmap <=> m.smallbins[s] # <<>>)
      BY <1>2, <1>6, <2>1 DEF Bins
    <3> QED  BY <1>1, <1>7, <1>8, <1>9, <3>1
  <2>2. CASE s \notin SmallSizes
    <3>1. ~(s >= 4)
      BY <1>4, <1>9, <2>2, LargeFacts
    <3>2. s \notin m.smallmap
      BY <1>2, <2>2 DEF Bins
    <3> QED  BY <1>1, <1>5, <1>8, <1>9, <3>1, <3>2
  <2> QED  BY <2>1, <2>2
<1>10. CASE ~is_small(s)
  <2>1. s \in LargeSizes
    BY <1>4, <1>10, LargeFacts
  <2>2. m.treebins[s] \in Seq(Addr) /\ Lists(m.treebins[s], z, X, s)
    BY <1>2, <1>6, <2>1 DEF Bins
  <2> QED  BY <1>1, <1>7, <1>8, <1>10, <2>2
<1> QED  BY <1>9, <1>10

(* do_check_any_chunk, *)
LEMMA AnyChunkChecks ==
  ASSUME NEW m, NEW z, NEW U, NEW E, Hole(m, z, U, {}, {}, E), NEW p \in DOMAIN z
  PROVE  do_check_any_chunk(m, p) /\ p % 2 = 0
<1>1. p \in Nat /\ m.least_addr <= p /\ Even(p)
  BY HoleChunk
<1>2. m.least_addr \in Nat
  <2>1. m.least_addr \in Addr
    BY DEF Hole, State
  <2> QED  BY <2>1, Small
<1> QED  BY <1>1, <1>2, Small DEF do_check_any_chunk, ok_address, Even

(* do_check_inuse_chunk *)
LEMMA UsedChunkChecks ==
  ASSUME NEW m, NEW z, NEW U, NEW E, Hole(m, z, U, {}, {}, E), NEW p \in U
  PROVE  do_check_inuse_chunk(m, p)
<1>1. p \in DOMAIN z
  BY DEF Hole
<1>2. do_check_any_chunk(m, p)
  BY <1>1, AnyChunkChecks
<1>3. m.chunk[p].size = z[p] /\ m.chunk[p].cinuse /\ m.chunk[p + z[p]].pinuse
  BY HoleNextUsed
<1>4. ASSUME ~pinuse(m, p)
      PROVE  LET prev == p - m.chunk[p].prev_foot
             IN prev \in Addr /\ prev + chunksize(m, prev) = p
  <2>1. ~m.chunk[p].pinuse
    BY <1>4 DEF pinuse
  <2>2. PICK a \in DOMAIN z \ U : /\ a + z[a] = p /\ m.chunk[p].prev_foot = z[a]
                                  /\ p - z[a] = a
    BY <1>1, <2>1, HolePrev
  <2>3. m.chunk[a].size = z[a]
    BY HoleFree
  <2>4. a \in Addr
    BY HoleChunk
  <2> QED  BY <2>2, <2>3, <2>4 DEF chunksize
<1> QED  BY <1>2, <1>3, <1>4 DEF do_check_inuse_chunk, is_inuse, pinuse, chunksize

(* and do_check_free_chunk. *)
LEMMA FreeChunkChecks ==
  ASSUME NEW m, NEW z, NEW U, NEW E, Hole(m, z, U, {}, {}, E), TopOK(m, z, U, {}, E),
         NEW p \in DOMAIN z \ U
  PROVE  /\ do_check_free_chunk(m, p) /\ m.chunk[p].size = z[p] /\ m.chunk[p].pinuse
         /\ ~m.chunk[p].cinuse /\ ~m.chunk[p + z[p]].pinuse
         /\ p # m.top => p + z[p] \in U
<1>1. do_check_any_chunk(m, p) /\ p % 2 = 0
  BY AnyChunkChecks
<1>2. /\ m.chunk[p].size = z[p] /\ ~m.chunk[p].cinuse /\ ~m.chunk[p + z[p]].pinuse
      /\ p + z[p] # E => m.chunk[p + z[p]].prev_foot = z[p] /\ p + z[p] \in U
  BY HoleFree
<1>3. m.chunk[p].pinuse
  BY HoleFreePinuse
<1>4. ASSUME p # m.top
      PROVE  /\ z[p] \in Nat /\ z[p] >= 4 /\ z[p] % 2 = 0
             /\ m.chunk[p + z[p]].prev_foot = z[p] /\ p + z[p] \in U
             /\ m.chunk[p + z[p]].cinuse
  <2>1. p + z[p] # E
    BY <1>4, NotTop DEF TopOK
  <2>2. z[p] \in Nat /\ z[p] >= 4 /\ Even(z[p])
    BY <2>1, HoleChunk
  <2>3. m.chunk[p + z[p]].cinuse
    BY <1>2, <2>1, HoleNextUsed
  <2> QED  BY <1>2, <2>1, <2>2, <2>3 DEF Even
<1>5. do_check_free_chunk(m, p)
  <2>1. ~is_inuse(m, p) /\ ~pinuse(m, p + z[p]) /\ pinuse(m, p) /\ chunksize(m, p) = z[p]
    BY <1>2, <1>3 DEF is_inuse, pinuse, chunksize
  <2>2. p # m.top => is_inuse(m, p + z[p])
    BY <1>4 DEF is_inuse
  <2> QED  BY <1>1, <1>4, <2>1, <2>2, Small DEF do_check_free_chunk
<1> QED  BY <1>2, <1>3, <1>4, <1>5

-------------------------------------------------------------------------------
(* The bins hold what the code checks that they hold,                      *)
LEMMA SmallBinChecks ==
  ASSUME NEW m, NEW z, NEW U, NEW E, Hole(m, z, U, {}, {}, E), TopOK(m, z, U, {}, E),
         NEW i \in SmallSizes
  PROVE  do_check_smallbin(m, i)
<1>1. PICK bin : bin = m.smallbins[i]
  OBVIOUS
<1>2. bin \in Seq(Addr)
  BY <1>1 DEF Hole, State
<1>3. Bins(m, z, U \cup {} \cup {m.top, m.dv})
  BY DEF Hole
<1>4. /\ Lists(bin, z, U \cup {} \cup {m.top, m.dv}, i)
      /\ i \in m.smallmap <=> bin # <<>>
  BY <1>1, <1>3 DEF Bins
<1>5. ASSUME NEW p \in Range(bin)
      PROVE  /\ do_check_free_chunk(m, p) /\ chunksize(m, p) = i
             /\ do_check_inuse_chunk(m, p + i)
  <2>1. p \in DOMAIN z \ (U \cup {m.top, m.dv}) /\ z[p] = i
    BY <1>4 DEF Lists
  <2>2. do_check_free_chunk(m, p) /\ m.chunk[p].size = i /\ p + i \in U
    BY <2>1, FreeChunkChecks
  <2>3. do_check_inuse_chunk(m, p + i)
    BY <2>2, UsedChunkChecks
  <2> QED  BY <2>2, <2>3 DEF chunksize
<1> QED  BY <1>1, <1>4, <1>5 DEF do_check_smallbin

(* small and large, *)
LEMMA TreeBinChecks ==
  ASSUME NEW m, NEW z, NEW U, NEW E, Hole(m, z, U, {}, {}, E), TopOK(m, z, U, {}, E),
         NEW s \in LargeSizes
  PROVE  do_check_treebin(m, s)
<1>1. PICK bin : bin = m.treebins[s]
  OBVIOUS
<1>2. Bins(m, z, U \cup {} \cup {m.top, m.dv})
  BY DEF Hole
<1>3. Lists(bin, z, U \cup {} \cup {m.top, m.dv}, s)
  BY <1>1, <1>2 DEF Bins
<1>4. s >= MIN_LARGE_SIZE
  BY LargeFacts DEF LargeSizes
<1>5. ASSUME NEW p \in Range(bin)
      PROVE  /\ do_check_any_chunk(m, p) /\ chunksize(m, p) = s
             /\ ~is_inuse(m, p) /\ ~pinuse(m, p + s)
  <2>1. p \in DOMAIN z \ U /\ z[p] = s
    BY <1>3 DEF Lists
  <2>2. /\ m.chunk[p].size = s /\ m.chunk[p].pinuse /\ ~m.chunk[p].cinuse
        /\ ~m.chunk[p + s].pinuse
    BY <2>1, FreeChunkChecks
  <2>3. do_check_any_chunk(m, p)
    BY <2>1, AnyChunkChecks
  <2> QED  BY <2>2, <2>3 DEF chunksize, is_inuse, pinuse
<1> QED  BY <1>1, <1>4, <1>5 DEF do_check_treebin

(* dv and top are what the state says and in no bin,                       *)
LEMMA DvChecks ==
  ASSUME NEW m, NEW z, NEW U, NEW E, Hole(m, z, U, {}, {}, E), TopOK(m, z, U, {}, E),
         DvOK(m, z, U, {}), m.dvsize # 0
  PROVE  /\ do_check_any_chunk(m, m.dv) /\ m.dvsize = chunksize(m, m.dv)
         /\ m.dvsize >= 4 /\ ~bin_find(m, m.dv)
<1>1. m.dv \in DOMAIN z \ U /\ m.dv # m.top /\ m.dvsize = z[m.dv]
  BY DEF DvOK
<1>2. m.chunk[m.dv].size = z[m.dv]
  BY <1>1, FreeChunkChecks
<1>3. ~bin_find(m, m.dv)
  BY <1>1, <1>2, BinFindIs
<1>4. m.dv + z[m.dv] # E
  BY <1>1, NotTop DEF TopOK
<1>5. z[m.dv] >= 4
  BY <1>1, <1>4, HoleChunk
<1>6. do_check_any_chunk(m, m.dv)
  BY <1>1, AnyChunkChecks
<1> QED  BY <1>1, <1>2, <1>3, <1>5, <1>6 DEF chunksize

(* The same of top. *)
LEMMA TopChecks ==
  ASSUME NEW m, NEW z, NEW U, NEW E, Hole(m, z, U, {}, {}, E), TopOK(m, z, U, {}, E)
  PROVE  do_check_top_chunk(m, m.top) /\ ~bin_find(m, m.top)
<1>1. /\ m.top \in DOMAIN z /\ m.top \in Nat /\ E \in Nat /\ m.top + m.topsize = E
      /\ m.topsize \in Nat /\ m.topsize > 0
      /\ 1 \in DOMAIN m.seg /\ m.seg[1].base \in Nat /\ m.seg[1].base <= m.top
      /\ EndOf(m.seg[1]) = E + 10 /\ m.seg[1].size \in Nat
  BY TopPlace
<1>2. m.top \notin U /\ z[m.top] = m.topsize
  BY DEF TopOK
<1>3. /\ m.chunk[m.top].size = m.topsize /\ m.chunk[m.top].pinuse
      /\ ~m.chunk[m.top + m.topsize].pinuse
  BY <1>1, <1>2, FreeChunkChecks
<1>4. ~bin_find(m, m.top)
  BY <1>1, <1>2, <1>3, BinFindIs
<1>5. do_check_any_chunk(m, m.top)
  BY <1>1, AnyChunkChecks
<1>6. m.seg \in Seq(SegmentSet)
  BY DEF Hole, Segs
<1>7. segment_holding(m, m.top) = 1
  BY <1>1, <1>6, HoldingTop
<1>8. PICK b, k, t, s : b = m.seg[1].base /\ k = m.seg[1].size /\ t = m.top /\ s = m.topsize
  OBVIOUS
<1>9. b \in Nat /\ k \in Nat /\ t \in Nat /\ s \in Nat /\ b + k = (t + s) + 10
  BY <1>1, <1>8 DEF EndOf
<1>10. s = b + k - t - TOP_FOOT_SIZE
  BY <1>9, Small
<1>11. s > 0
  BY <1>1, <1>8
<1>12. chunksize(m, t) = s /\ pinuse(m, t) /\ ~pinuse(m, t + s)
  BY <1>3, <1>8 DEF chunksize, pinuse
<1>13. do_check_top_chunk(m, t)
  BY <1>5, <1>7, <1>8, <1>10, <1>11, <1>12 DEF do_check_top_chunk
<1> QED  BY <1>4, <1>8, <1>13

(* and so is what a walk through a segment comes by.                       *)
LEMMA TraversalChecks ==
  ASSUME NEW m, NEW z, NEW U, NEW E, Hole(m, z, U, {}, {}, E), TopOK(m, z, U, {}, E),
         NEW i \in DOMAIN m.seg
  PROVE  traversal_check(m, m.seg[i])
<1>1. PICK C : C = chunks_of(m, m.seg[i])
  OBVIOUS
<1>2. C \subseteq DOMAIN z \ {m.top}
  BY <1>1, ChunksOfIs DEF SegChunks
<1>3. pinuse(m, align_as_chunk(m.seg[i].base))
  BY DEF Hole, Tags, first, pinuse
<1>4. ASSUME NEW q \in C, q \in U
      PROVE  is_inuse(m, q) /\ ~bin_find(m, q) /\ do_check_inuse_chunk(m, q)
  <2>1. m.chunk[q].size = z[q] /\ m.chunk[q].cinuse
    BY <1>4, HoleNextUsed
  <2>2. ~bin_find(m, q)
    BY <1>2, <1>4, <2>1, BinFindIs
  <2>3. do_check_inuse_chunk(m, q)
    BY <1>4, UsedChunkChecks
  <2> QED  BY <2>1, <2>2, <2>3 DEF is_inuse
<1>5. ASSUME NEW q \in C, q \notin U
      PROVE  /\ ~is_inuse(m, q) /\ (q = m.dv \/ bin_find(m, q)) /\ do_check_free_chunk(m, q)
             /\ \A r \in C : r + chunksize(m, r) = q => is_inuse(m, r)
  <2>1. q \in DOMAIN z \ U /\ q # m.top
    BY <1>2, <1>5
  <2>2. /\ do_check_free_chunk(m, q) /\ m.chunk[q].size = z[q] /\ m.chunk[q].pinuse
        /\ ~m.chunk[q].cinuse
    BY <2>1, FreeChunkChecks
  <2>3. q = m.dv \/ bin_find(m, q)
    BY <2>1, <2>2, BinFindIs
  <2>4. ASSUME NEW r \in C, r + chunksize(m, r) = q PROVE is_inuse(m, r)
    <3>1. r \in DOMAIN z /\ r # m.top
      BY <1>2
    <3>2. CASE r \in U
      BY <3>2, HoleNextUsed DEF is_inuse
    <3>3. CASE r \notin U
      <4>1. m.chunk[r].size = z[r] /\ r + z[r] \in U
        BY <3>1, <3>3, FreeChunkChecks
      <4> QED  BY <2>1, <2>4, <4>1 DEF chunksize
    <3> QED  BY <3>2, <3>3
  <2> QED  BY <2>2, <2>3, <2>4 DEF is_inuse
<1> QED  BY <1>1, <1>3, <1>4, <1>5 DEF traversal_check

-------------------------------------------------------------------------------
(* The whole check.                                                        *)
LEMMA HeapChecks ==
  ASSUME NEW m, NEW z, NEW U, Heap(m, z, U), NEW X, Accounts(m, X)
  PROVE  do_check_malloc_state(m)
<1>1. PICK E : Hole(m, z, U, {}, {}, E) /\ TopOK(m, z, U, {}, E) /\ DvOK(m, z, U, {})
  BY DEF Heap
<1>2. m \in State
  BY <1>1 DEF Hole
<1>3. /\ m.footprint = Cardinality(Owned(m.seg)) /\ m.footprint \in Nat
      /\ IsFiniteSet(Owned(m.seg))
  BY <1>2, OwnedFinite
<1>4. PICK all, free, used :
         /\ all = SizeOf(m, all_chunks(m))
         /\ free = SizeOf(m, {q \in all_chunks(m) : ~is_inuse(m, q)})
         /\ used = SizeOf(m, {q \in all_chunks(m) : is_inuse(m, q)})
  OBVIOUS
<1>5. m.topsize \in Nat /\ all \in Nat /\ (m.topsize + 10) + all <= Cardinality(Owned(m.seg))
  BY <1>3, <1>4, HeapTotals
<1>6. m.topsize + TOP_FOOT_SIZE + SizeOf(m, all_chunks(m)) <= m.footprint
  BY <1>3, <1>4, <1>5, Small
<1>7. \A i \in SmallSizes : do_check_smallbin(m, i)
  BY <1>1, SmallBinChecks
<1>8. \A s \in LargeSizes : do_check_treebin(m, s)
  BY <1>1, TreeBinChecks
<1>9. m.dvsize # 0 =>
        /\ do_check_any_chunk(m, m.dv) /\ m.dvsize = chunksize(m, m.dv)
        /\ m.dvsize >= MIN_CHUNK_SIZE /\ ~bin_find(m, m.dv)
  BY <1>1, DvChecks, Small
<1>10. do_check_top_chunk(m, m.top) /\ ~bin_find(m, m.top)
  BY <1>1, TopChecks
<1>11. \A i \in DOMAIN m.seg : traversal_check(m, m.seg[i])
  BY <1>1, TraversalChecks
<1>12. m.footprint <= m.max_footprint
  BY DEF Accounts
<1> QED  BY <1>6, <1>7, <1>8, <1>9, <1>10, <1>11, <1>12 DEF do_check_malloc_state

(* It passes before the first call, too. *)
LEMMA BlankChecks ==
  ASSUME NEW m \in State, Blank(m), m.top = NULL, m.footprint <= m.max_footprint
  PROVE  do_check_malloc_state(m)
<1>1. ASSUME NEW i \in SmallSizes PROVE do_check_smallbin(m, i)
  <2>1. i \notin m.smallmap
    BY DEF Blank
  <2> QED  BY <2>1 DEF do_check_smallbin
<1>2. ASSUME NEW s \in LargeSizes PROVE do_check_treebin(m, s)
  <2>1. m.treebins[s] = <<>>
    BY DEF Blank
  <2>2. Range(m.treebins[s]) = {}
    BY <2>1 DEF Range
  <2> QED  BY <2>2 DEF do_check_treebin
<1>3. m.dvsize = 0 /\ ~is_initialized(m)
  BY DEF Blank, is_initialized
<1> QED  BY <1>1, <1>2, <1>3 DEF do_check_malloc_state

(* At all times. *)
LEMMA CheckMallocStateHolds ==
  ASSUME Inv
  PROVE  CheckMallocState
<1>1. PICK m, B, X : m = gm /\ B = ChunksOf(live) /\ X = foreign
  OBVIOUS
<1>2. Sys(m, B, X)
  BY <1>1 DEF Inv, Holds
<1>3. m \in State /\ Accounts(m, X) /\ ~m.aborted
  BY <1>2 DEF Sys
<1>4. do_check_malloc_state(m)
  <2>1. CASE m.top = NULL
    <3>1. Blank(m)
      BY <1>2, <2>1 DEF Sys
    <3>2. m.footprint <= m.max_footprint
      BY <1>3 DEF Accounts
    <3> QED  BY <1>3, <2>1, <3>1, <3>2, BlankChecks
  <2>2. CASE m.top # NULL
    <3>1. PICK z : Heap(m, z, B \cup RecordsOf(m.seg))
      BY <1>2, <2>2 DEF Sys, HeapOf
    <3> QED  BY <1>3, <3>1, HeapChecks
  <2> QED  BY <2>1, <2>2
<1> QED  BY <1>1, <1>3, <1>4 DEF CheckMallocState

(* The check of the whole heap that the code has for debugging passes      *)
(* after every call, and no call aborts.                                   *)
THEOREM CheckMallocStateAlways == Spec => []CheckMallocState
<1>1. Inv => CheckMallocState
  BY CheckMallocStateHolds
<1> QED  BY <1>1, InvAlways, PTL

-------------------------------------------------------------------------------
(* When malloc asks the system.  What is in no bin because malloc found    *)
(* nothing there that fits:                                                *)
LEMMA NothingSmallFits ==
  ASSUME NEW m, NEW z, NEW U, NEW E, Work(m, z, U, {}, {}, E), NEW nb \in Nat,
         malloc_binned(m, nb, TRUE).mem = NULL, ~(nb <= m.dvsize)
  PROVE  TreeSizes(m) = {} /\ \A i \in m.smallmap : ~(i >= nb)
<1>1. PICK r : r = malloc_binned(m, nb, TRUE) /\ r.mem = 0
  BY Small
<1>2. m.smallmap \subseteq Nat /\ TreeSizes(m) \subseteq Nat
  <2>1. m.smallmap \subseteq SmallSizes
    BY DEF Work, Hole, State
  <2>2. SmallSizes \subseteq Nat /\ LargeSizes \subseteq Nat
    BY LargeFacts, Small DEF SmallSizes, LargeSizes
  <2> QED  BY <2>1, <2>2 DEF TreeSizes
<1>3. {nb, nb + 1} \cap m.smallmap = {}
  <2>1. ASSUME {nb, nb + 1} \cap m.smallmap # {} PROVE FALSE
    <3>1. PICK q : q = malloc_exact(m, nb)
      OBVIOUS
    <3>2. r = q
      BY <1>1, <2>1, <3>1 DEF malloc_binned
    <3>3. Got(m, z, U, q, nb)
      BY <2>1, <3>1, MallocExactFacts
    <3>4. PICK v : v \in Nat /\ q.mem = v + 2
      BY <3>3 DEF Got, chunk2mem
    <3>5. r.mem = v + 2 /\ r.mem = 0
      BY <1>1, <3>2, <3>4
    <3> QED  BY <3>4, <3>5
  <2> QED  BY <2>1
<1>4. ~ \E i \in m.smallmap : i > nb
  <2>1. ASSUME \E i \in m.smallmap : i > nb PROVE FALSE
    <3>1. PICK s : s = Min({i \in m.smallmap : i > nb})
      OBVIOUS
    <3>2. s \in m.smallmap
      <4>1. {i \in m.smallmap : i > nb} \in SUBSET Nat /\ {i \in m.smallmap : i > nb} # {}
        BY <1>2, <2>1
      <4> QED  BY <3>1, <4>1, MinFacts
    <3>3. PICK v : v = Head(m.smallbins[s])
      OBVIOUS
    <3>4. v \in Nat
      BY <3>2, <3>3, SmallBinHead
    <3>5. r = malloc_small_bin(m, nb)
      BY <1>1, <1>3, <2>1 DEF malloc_binned
    <3>6. r.mem = v + 2
      BY <3>1, <3>3, <3>5 DEF malloc_small_bin, TakeChunk, Result, chunk2mem
    <3>7. v + 2 = 0
      BY <1>1, <3>6
    <3> QED  BY <3>4, <3>7
  <2> QED  BY <2>1
<1>5. TreeSizes(m) = {}
  <2>1. ASSUME TreeSizes(m) # {} PROVE FALSE
    <3>1. PICK s : s = Min(TreeSizes(m))
      OBVIOUS
    <3>2. s \in TreeSizes(m)
      BY <1>2, <2>1, <3>1, MinFacts
    <3>3. PICK v : v = Head(m.treebins[s])
      OBVIOUS
    <3>4. v \in Nat
      BY <3>2, <3>3, TreeBinHead
    <3>5. r = tmalloc_small(m, nb)
      BY <1>1, <1>3, <1>4, <2>1 DEF malloc_binned
    <3>6. r.mem = v + 2
      BY <3>1, <3>3, <3>5 DEF tmalloc_small, TakeChunk, Result, chunk2mem
    <3>7. v + 2 = 0
      BY <1>1, <3>6
    <3> QED  BY <3>4, <3>7
  <2> QED  BY <2>1
<1>6. ASSUME NEW i \in m.smallmap PROVE ~(i >= nb)
  <2>1. i \in Nat /\ i # nb /\ ~(i > nb)
    BY <1>2, <1>3, <1>4, <1>6
  <2> QED  BY <2>1
<1> QED  BY <1>5, <1>6

(* The same for a large request. *)
LEMMA NothingLargeFits ==
  ASSUME NEW m, NEW z, NEW U, NEW E, Work(m, z, U, {}, {}, E), NEW nb \in Nat,
         nb <= MAX_SIZE_T,
         malloc_binned(m, nb, FALSE).mem = NULL, ~(nb <= m.dvsize)
  PROVE  \A s \in TreeSizes(m) : ~(s >= nb)
<1>1. PICK r : r = tmalloc_large(m, nb) /\ r.mem = 0
  BY Small DEF malloc_binned
<1>2. TreeSizes(m) \subseteq 0 .. BrkLimit
  BY LargeFacts, Small DEF TreeSizes, LargeSizes
<1>3. m.dvsize \in Nat /\ m.dvsize < nb
  <2>1. m.dvsize \in size_t
    BY DEF Work, Hole, State
  <2>2. m.dvsize \in Nat
    BY <2>1, Small
  <2> QED  BY <2>2
<1>4. ASSUME NEW s0 \in TreeSizes(m), s0 >= nb PROVE FALSE
  <2>1. PICK T : T = {s \in TreeSizes(m) : s >= nb}
    OBVIOUS
  <2>2. T \in SUBSET Nat /\ T # {}
    BY <1>2, <1>4, <2>1, Small
  <2>3. PICK s : s = Min(T)
    OBVIOUS
  <2>4. s \in TreeSizes(m) /\ s >= nb
    BY <2>1, <2>2, <2>3, MinFacts
  <2>5. s \in Nat /\ s <= BrkLimit
    BY <1>2, <2>4, Small
  <2>6. PICK v : v = Head(m.treebins[s])
    OBVIOUS
  <2>7. v \in Nat
    BY <2>4, <2>6, TreeBinHead
  <2>8. s - nb < (m.dvsize - nb) % SizeRange
    <3>1. PICK d, w : d = m.dvsize /\ w = (d - nb) % SizeRange
      OBVIOUS
    <3>2. SizeRange \in Nat /\ SizeRange > 0 /\ MAX_SIZE_T = SizeRange - 1
          /\ BrkLimit \in Nat /\ BrkLimit < SizeRange
      BY SizeFacts, Small
    <3>3. d \in Nat /\ d < nb /\ nb < SizeRange
      BY <1>3, <3>1, <3>2
    <3>4. w = (d - nb) + SizeRange
      <4>1. (d - nb) + SizeRange \in 0 .. SizeRange - 1 /\ d - nb \in Int
        BY <3>2, <3>3
      <4> QED  BY <3>1, <3>2, <3>3, <4>1
    <3>5. s - nb < w
      BY <2>5, <3>2, <3>3, <3>4
    <3> QED  BY <3>1, <3>5
  <2>9. r.mem = v + 2
    BY <1>1, <2>1, <2>2, <2>3, <2>6, <2>8 DEF tmalloc_large, TakeChunk, Result, chunk2mem
  <2> QED  BY <1>1, <2>7, <2>9
<1> QED  BY <1>4

-------------------------------------------------------------------------------
(* A free chunk is dv, or it is in a bin that malloc finds.                *)
LEMMA FreeIsFound ==
  ASSUME NEW m, NEW z, NEW U, NEW E, Work(m, z, U, {}, {}, E),
         NEW q \in DOMAIN z \ U, q # m.top
  PROVE  /\ q = m.dv => z[q] = m.dvsize
         /\ q # m.dv => z[q] \in m.smallmap \/ z[q] \in TreeSizes(m)
         /\ chunksize(m, q) = z[q] /\ z[q] \in Nat /\ Even(z[q])
<1>1. Hole(m, z, U, {}, {}, E) /\ TopOK(m, z, U, {}, E) /\ DvOK(m, z, U, {})
  BY DEF Work
<1>2. /\ m.chunk[q].size = z[q] /\ q + z[q] # E
      /\ z[q] \in Nat /\ Even(z[q]) /\ z[q] >= 4 /\ z[q] <= BrkLimit
  BY <1>1, FreeAmongUsed, HoleChunk
<1>3. q = m.dv => z[q] = m.dvsize
  <2>1. q # NULL
    BY <1>1, HoleChunk
  <2> QED  BY <1>1, <2>1 DEF DvOK
<1>4. ASSUME q # m.dv PROVE z[q] \in m.smallmap \/ z[q] \in TreeSizes(m)
  <2>1. bin_find(m, q)
    BY <1>1, <1>2, <1>4, BinFindIs
  <2>2. CASE is_small(z[q])
    BY <1>2, <2>1, <2>2 DEF bin_find, chunksize
  <2>3. CASE ~is_small(z[q])
    <3>1. z[q] \in LargeSizes
      BY <1>2, <2>3, LargeFacts
    <3>2. Contains(m.treebins[z[q]], q)
      BY <1>2, <2>1, <2>3 DEF bin_find, chunksize
    <3>3. m.treebins[z[q]] # <<>>
      BY <3>2 DEF Contains
    <3> QED  BY <3>1, <3>3 DEF TreeSizes
  <2> QED  BY <2>2, <2>3
<1> QED  BY <1>2, <1>3, <1>4 DEF chunksize

(* No free chunk is large enough. *)
LEMMA NothingFits ==
  ASSUME NEW m, NEW z, NEW U, NEW E, Work(m, z, U, {}, {}, E), NEW bytes \in size_t,
         bytes < MAX_REQUEST, NEW nb, nb = chunk_size_for(bytes),
         malloc_binned(m, nb, bytes <= MAX_SMALL_REQUEST).mem = NULL, ~(nb <= m.dvsize)
  PROVE  \A q \in DOMAIN z \ U : q # m.top => chunksize(m, q) < nb
<1>1. /\ ChunkSize(nb) /\ (bytes <= MAX_SMALL_REQUEST => is_small(nb))
      /\ nb = request2size(bytes) /\ bytes + 1 <= nb
  BY ChunkSizeForFacts
<1>2. bytes \in Nat /\ nb \in Nat /\ nb <= MAX_SIZE_T /\ Even(nb)
  <2>1. bytes \in Nat
    BY Small
  <2> QED  BY <1>1, <2>1, RequestFacts
<1>3. m.dvsize \in Nat
  <2>1. m.dvsize \in size_t
    BY DEF Work, Hole, State
  <2> QED  BY <2>1, Small
<1>4. ASSUME NEW q \in DOMAIN z \ U, q # m.top PROVE chunksize(m, q) < nb
  <2>1. PICK s : s = z[q]
    OBVIOUS
  <2>2. /\ q = m.dv => s = m.dvsize
        /\ q # m.dv => s \in m.smallmap \/ s \in TreeSizes(m)
        /\ chunksize(m, q) = s /\ s \in Nat /\ Even(s)
    BY <1>4, <2>1, FreeIsFound
  <2>3. CASE q = m.dv
    BY <1>2, <1>3, <2>2, <2>3
  <2>4. CASE q # m.dv /\ bytes <= MAX_SMALL_REQUEST
    <3>1. malloc_binned(m, nb, TRUE).mem = NULL
      BY <2>4
    <3>2. TreeSizes(m) = {} /\ \A i \in m.smallmap : ~(i >= nb)
      BY <1>2, <3>1, NothingSmallFits
    <3>3. ~(s >= nb)
      BY <2>2, <2>4, <3>2
    <3> QED  BY <1>2, <2>2, <3>3
  <2>5. CASE q # m.dv /\ ~(bytes <= MAX_SMALL_REQUEST)
    <3>1. malloc_binned(m, nb, FALSE).mem = NULL
      <4>1. (bytes <= MAX_SMALL_REQUEST) = FALSE
        BY <2>5
      <4> QED  BY <4>1, Zenon
    <3>2. \A i \in TreeSizes(m) : ~(i >= nb)
      BY <1>2, <3>1, NothingLargeFits
    <3>3. CASE s \in TreeSizes(m)
      <4>1. ~(s >= nb)
        BY <3>2, <3>3
      <4> QED  BY <1>2, <2>2, <4>1
    <3>4. CASE s \in m.smallmap
      <4>1. s \in SmallSizes
        BY <3>4 DEF Work, Hole, State
      <4>2. s <= MIN_LARGE_SIZE - 1 /\ MIN_LARGE_SIZE \in Nat /\ Even(MIN_LARGE_SIZE)
            /\ MAX_SMALL_REQUEST = MIN_LARGE_SIZE - 3
        BY <2>2, <4>1, LargeFacts, Small DEF SmallSizes
      <4>3. s <= MIN_LARGE_SIZE - 2 /\ nb >= MIN_LARGE_SIZE - 1
        BY <1>1, <1>2, <2>2, <2>5, <4>2 DEF Even
      <4> QED  BY <1>2, <2>2, <4>2, <4>3
    <3> QED  BY <2>2, <2>5, <3>3, <3>4
  <2> QED  BY <2>3, <2>4, <2>5
<1> QED  BY <1>4

(* What was there keeps the break where it is, and so does a request that  *)
(* no chunk is large enough for.                                           *)
LEMMA GotKeepsBreak ==
  ASSUME NEW m, NEW z, NEW U, NEW r, NEW nb, Got(m, z, U, r, nb)
  PROVE  r.m.brk = m.brk
BY DEF Got, Takes, SettlesAt, SameSystem

(* A request that no chunk size can hold is refused. *)
LEMMA HugeKeepsBreak ==
  ASSUME NEW m \in State, NEW r, r = sys_alloc(m, MAX_SIZE_T)
  PROVE  r.m.brk = m.brk
<1>1. PICK n : n = ensure_initialization(m)
  OBVIOUS
<1>2. n.brk = m.brk /\ n.granularity \in Nat
  <2>1. m.granularity \in size_t
    BY DEF State
  <2>2. PageSize \in Nat
    BY PageFacts
  <2>3. CASE m.granularity # 0
    <3>1. n = m
      BY <1>1, <2>3 DEF ensure_initialization
    <3> QED  BY <2>1, <3>1, Small
  <2>4. CASE m.granularity = 0
    <3>1. n = [m EXCEPT !.granularity = PageSize, !.trim_threshold = DEFAULT_TRIM_THRESHOLD]
      BY <1>1, <2>4 DEF ensure_initialization
    <3>2. n.granularity = PageSize /\ n.brk = m.brk
      BY <3>1 DEF State
    <3> QED  BY <2>2, <3>2
  <2> QED  BY <2>3, <2>4
<1>3. PICK a : a = granularity_align(n, MAX_SIZE_T + SYS_ALLOC_PADDING)
  OBVIOUS
<1>4. a <= MAX_SIZE_T
  <2>1. MAX_SIZE_T + SYS_ALLOC_PADDING \in Nat
    BY Small
  <2>2. a \in size_t
    BY <1>2, <1>3, <2>1, AlignUpBounded DEF granularity_align
  <2> QED  BY <2>2, Small
<1>5. r = Failure(n)
  BY <1>1, <1>3, <1>4 DEF sys_alloc
<1> QED  BY <1>2, <1>5 DEF Failure, Result

-------------------------------------------------------------------------------
(* malloc moves the break only if nothing that is there would do.          *)
LEMMA BreakMovedLast ==
  ASSUME NEW m, NEW B, NEW X, Sys(m, B, X), NEW bytes \in size_t,
         NEW r, r = dlmalloc(m, bytes), r.m.brk # m.brk
  PROVE  /\ m.topsize <= request2size(bytes)
         /\ \A q \in all_chunks(m) : ~is_inuse(m, q) => chunksize(m, q) < request2size(bytes)
<1>1. m \in State
  BY DEF Sys
<1>2. PICK nb : nb = chunk_size_for(bytes)
  OBVIOUS
<1>3. /\ ChunkSize(nb) /\ (bytes <= MAX_SMALL_REQUEST => is_small(nb) /\ Even(nb) /\ 4 <= nb)
      /\ bytes < MAX_REQUEST => nb = request2size(bytes)
      /\ bytes >= MAX_REQUEST => nb = MAX_SIZE_T
  BY <1>2, ChunkSizeForFacts
<1>4. nb \in Nat /\ nb > 0 /\ MAX_SIZE_T \in Nat /\ BrkLimit \in Nat /\ 2 * BrkLimit < MAX_SIZE_T
  BY <1>3, SizeFacts, Small DEF ChunkSize
<1>5. m.topsize \in Nat /\ m.dvsize \in Nat
  <2>1. m.topsize \in size_t /\ m.dvsize \in size_t
    BY <1>1 DEF State
  <2> QED  BY <2>1, Small
<1>6. PICK q : q = malloc_binned(m, nb, bytes <= MAX_SMALL_REQUEST)
  OBVIOUS
<1>7. r = OrElse(q, malloc_unbinned(m, nb))
  BY <1>2, <1>6 DEF dlmalloc
<1>8. ASSUME r = sys_alloc(m, nb) PROVE bytes < MAX_REQUEST /\ nb = request2size(bytes)
  <2>1. nb # MAX_SIZE_T
    <3>1. ASSUME nb = MAX_SIZE_T PROVE FALSE
      <4>1. r = sys_alloc(m, MAX_SIZE_T)
        BY <1>8, <3>1
      <4> QED  BY <1>1, <4>1, HugeKeepsBreak
    <3> QED  BY <3>1
  <2>2. bytes \in Nat /\ MAX_REQUEST \in Nat
    BY SizeFacts, Small
  <2> QED  BY <1>3, <2>1, <2>2
<1>9. CASE m.top = NULL
  <2>1. Blank(m) /\ m.topsize = 0 /\ m.dvsize = 0
    BY <1>9 DEF Sys, Blank
  <2>2. q = Failure(m)
    BY <1>1, <1>4, <1>6, <2>1, BlankBinned
  <2>3. ~(nb <= m.dvsize) /\ ~(nb < m.topsize)
    BY <1>4, <2>1
  <2>4. r = sys_alloc(m, nb)
    BY <1>7, <2>2, <2>3 DEF OrElse, malloc_unbinned, Failure, Result
  <2>5. nb = request2size(bytes)
    BY <1>8, <2>4
  <2>6. all_chunks(m) = {}
    BY <2>1, NoChunks
  <2> QED  BY <1>4, <2>1, <2>5, <2>6
<1>10. CASE m.top # NULL
  <2>1. PICK z, U, E : Heap(m, z, U) /\ Work(m, z, U, {}, {}, E)
    BY <1>10, SysHeap
  <2>2. ASSUME NEW p, Got(m, z, U, p, nb) PROVE r # p
    BY <2>2, GotKeepsBreak
  <2>3. (Even(nb) /\ 4 <= nb) \/ nb > BrkLimit
    BY <1>3, <1>4 DEF ChunkSize
  <2>4. q = Failure(m)
    <3>1. q = Failure(m) \/ Got(m, z, U, q, nb)
      BY <1>3, <1>4, <1>6, <2>1, <2>3, MallocBinnedFacts
    <3>2. ASSUME Got(m, z, U, q, nb) PROVE FALSE
      <4>1. PICK v : v \in Nat /\ q.mem = v + 2
        BY <3>2 DEF Got, chunk2mem
      <4>2. q.mem # 0
        BY <4>1
      <4>3. r = q
        BY <1>7, <4>2, Small DEF OrElse
      <4> QED  BY <2>2, <3>2, <4>3
    <3> QED  BY <3>1, <3>2
  <2>5. q.mem = NULL /\ r = malloc_unbinned(m, nb)
    BY <1>7, <2>4 DEF OrElse, Failure, Result
  <2>6. nb <= m.dvsize \/ nb < m.topsize => Even(nb) /\ 4 <= nb
    <3>1. m.dvsize <= BrkLimit /\ m.topsize <= BrkLimit
      BY <1>4, <2>1, FreeSizesBounded
    <3>2. nb <= m.dvsize \/ nb < m.topsize => nb # MAX_SIZE_T
      BY <1>4, <1>5, <3>1
    <3> QED  BY <1>3, <3>2 DEF ChunkSize
  <2>7. ~(nb <= m.dvsize)
    <3>1. ASSUME nb <= m.dvsize PROVE FALSE
      <4>1. r = malloc_dv(m, nb)
        BY <2>5, <3>1 DEF malloc_unbinned
      <4>2. Got(m, z, U, r, nb)
        BY <1>4, <2>1, <2>6, <3>1, <4>1, MallocDvFacts
      <4> QED  BY <2>2, <4>2
    <3> QED  BY <3>1
  <2>8. ~(nb < m.topsize)
    <3>1. ASSUME nb < m.topsize PROVE FALSE
      <4>1. r = split_top(m, nb)
        BY <2>5, <2>7, <3>1 DEF malloc_unbinned
      <4>2. Got(m, z, U, r, nb)
        BY <1>4, <2>1, <2>6, <3>1, <4>1, SplitTopFacts
      <4> QED  BY <2>2, <4>2
    <3> QED  BY <3>1
  <2>9. r = sys_alloc(m, nb)
    BY <2>5, <2>7, <2>8 DEF malloc_unbinned
  <2>10. bytes < MAX_REQUEST /\ nb = request2size(bytes)
    BY <1>8, <2>9
  <2>11. malloc_binned(m, nb, bytes <= MAX_SMALL_REQUEST).mem = NULL
    BY <1>6, <2>5
  <2>12. \A p \in DOMAIN z \ U : p # m.top => chunksize(m, p) < nb
    BY <1>2, <2>1, <2>7, <2>10, <2>11, NothingFits
  <2>13. ASSUME NEW p \in all_chunks(m), ~is_inuse(m, p) PROVE chunksize(m, p) < nb
    <3>1. p \in DOMAIN z /\ p # m.top
      BY <2>1, AllChunksAre
    <3>2. p \notin U
      BY <2>1, <2>13, <3>1, UsedAre
    <3> QED  BY <2>12, <3>1, <3>2
  <2>14. m.topsize <= nb
    BY <1>4, <1>5, <2>8
  <2> QED  BY <2>10, <2>13, <2>14
<1> QED  BY <1>9, <1>10

(* The same of a step of the program. *)
LEMMA SystemAskedLastStep ==
  ASSUME Inv, gm'.brk > gm.brk, NEW n \in program.requests, Malloc(n)
  PROVE  /\ gm.topsize <= request2size(n)
         /\ \A q \in all_chunks(gm) : ~is_inuse(gm, q) => chunksize(gm, q) < request2size(n)
<1>1. PICK m, B, X : m = gm /\ B = ChunksOf(live) /\ X = foreign
  OBVIOUS
<1>2. Sys(m, B, X) /\ n \in size_t
  BY <1>1, ProgramFacts DEF Inv, Holds
<1>3. PICK r : r = dlmalloc(m, n)
  OBVIOUS
<1>4. gm' = r.m
  BY <1>1, <1>3 DEF Malloc, Returns
<1>5. r.m.brk # m.brk
  <2>1. m.brk \in Addr
    BY <1>2 DEF Sys, State
  <2>2. m.brk \in Nat
    BY <2>1, Small
  <2> QED  BY <1>1, <1>4, <2>2
<1>6. /\ m.topsize <= request2size(n)
      /\ \A q \in all_chunks(m) : ~is_inuse(m, q) => chunksize(m, q) < request2size(n)
  BY <1>2, <1>3, <1>5, BreakMovedLast
<1> QED  BY <1>1, <1>6

(* malloc does not grow the heap while it has what it is asked for.        *)
THEOREM SystemAskedLastAlways == Spec => SystemAskedLast
<1> DEFINE Step == gm'.brk > gm.brk =>
                     \A n \in program.requests :
                         Malloc(n) =>
                             /\ gm.topsize <= request2size(n)
                             /\ \A q \in all_chunks(gm) :
                                    ~is_inuse(gm, q) => chunksize(gm, q) < request2size(n)
<1>1. Inv => [Step]_vars
  BY SystemAskedLastStep
<1>2. Spec => [][Step]_vars
  BY <1>1, InvAlways, PTL DEF Spec
<1> QED  BY <1>2 DEF SystemAskedLast
===============================================================================
