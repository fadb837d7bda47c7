------------------------------ MODULE MallocSizes ------------------------------
(***************************************************************************)
(* Sizes and alignments of the allocator (malloc.c), which the test        *)
(* programs are linked with.  The unit is the word of 8 bytes: every size  *)
(* the allocator keeps is a number of words, and malloc_chunk is a word of *)
(* prev_foot, one of head, and two of links that overlay the payload.      *)
(*                                                                         *)
(* size_t is SizeWidth bits wide here, and all arithmetic on requests is   *)
(* modulo 2^SizeWidth, as in the code.                                     *)
(***************************************************************************)
EXTENDS Integers

CONSTANTS
    SizeWidth,          \* bits of a size (of size_t, less the 3 of the word)
    UnsignedWidth,      \* bits of unsigned int
    TREEBIN_SHIFT,      \* log2 of MIN_LARGE_SIZE
    PageSize,           \* malloc_getpagesize
    Unchecked           \* 0xffff + 1: factors below it are multiplied unchecked

ASSUME SizeAssumption ==
    /\ SizeWidth \in Nat /\ SizeWidth >= 6
    /\ TREEBIN_SHIFT \in Nat /\ TREEBIN_SHIFT >= 3 /\ TREEBIN_SHIFT < SizeWidth
    /\ PageSize \in Nat /\ PageSize >= 2
    /\ PageSize \in {2^k : k \in 1 .. SizeWidth - 1}
    /\ Unchecked \in Nat /\ Unchecked * Unchecked <= 2^SizeWidth

ASSUME UnsignedAssumption == UnsignedWidth \in Nat /\ 2^UnsignedWidth \in Nat \ {0}

(* What a power of two is, which the provers do not know. *)
ASSUME PowerAssumption ==
    2^0 = 1 /\ \A k \in 0 .. SizeWidth : 2^(k + 1) = 2 * 2^k

SizeRange == 2^SizeWidth
MAX_SIZE_T == SizeRange - 1
HALF_MAX_SIZE_T == MAX_SIZE_T \div 2
size_t == 0 .. MAX_SIZE_T

MALLOC_ALIGNMENT == 2
CHUNK_OVERHEAD == 1
MIN_CHUNK_SIZE == 4
MIN_LARGE_SIZE == 2^TREEBIN_SHIFT
MAX_SMALL_REQUEST == MIN_LARGE_SIZE - 3
(* compute_tree_index counts units of MIN_LARGE_SIZE in an unsigned int:   *)
(* sizes from here on (2^40 bytes in the build) lose their first digits.   *)
IndexRange == MIN_LARGE_SIZE * 2^UnsignedWidth
MAX_REQUEST == SizeRange - 4 * MIN_CHUNK_SIZE
SegmentRecord == 6      \* pad_request(sizeof(struct malloc_segment))
TOP_FOOT_SIZE == SegmentRecord + MIN_CHUNK_SIZE
SYS_ALLOC_PADDING == TOP_FOOT_SIZE + MALLOC_ALIGNMENT

PowerOf2(n) == \E k \in 0 .. SizeWidth - 1 : n = 2^k

(* S rounded up to a multiple of unit in size_t: S + (unit - 1) may wrap,  *)
(* and a unit of 0, that of mparams before they are set, makes everything  *)
(* 0 ((S - 1) & 0).                                                        *)
align_up(S, unit) ==
    IF unit = 0 THEN 0
    ELSE LET T == (S + unit - 1) % SizeRange IN T - (T % unit)

page_align(S) == align_up(S, PageSize)
align_offset(A) == A % MALLOC_ALIGNMENT
align_as_chunk(A) == A + align_offset(A)

chunk2mem(p) == p + 2
mem2chunk(mem) == mem - 2

-------------------------------------------------------------------------------
(* The size of the chunk for a request: one word more for its head, even. *)
pad_request(req) == align_up(req + CHUNK_OVERHEAD, MALLOC_ALIGNMENT)

request2size(req) ==
    IF req < MIN_CHUNK_SIZE - CHUNK_OVERHEAD THEN MIN_CHUNK_SIZE ELSE pad_request(req)

(* Mutant: the least large size counts as small. *)
is_small_inclusive(s) == s <= MIN_LARGE_SIZE

is_small(s) == s < MIN_LARGE_SIZE

(* What dlcalloc asks dlmalloc for.  The product is checked only if one of *)
(* the factors is large.                                                   *)
calloc_request(n_elements, elem_size) ==
    LET req == (n_elements * elem_size) % SizeRange
    IN IF n_elements = 0 THEN 0
       ELSE IF (n_elements >= Unchecked \/ elem_size >= Unchecked)
               /\ req \div n_elements # elem_size
       THEN MAX_SIZE_T
       ELSE req

(* internal_memalign raises an alignment to a minimal chunk and to a power *)
(* of two: the least one of at least four words that is no less.  Above    *)
(* the largest power of two there is none, and its loop never ends.        *)
Alignable == 0 .. 2^(SizeWidth - 1)

effective_alignment(alignment) ==
    CHOOSE a \in {2^k : k \in 2 .. SizeWidth - 1} :
        /\ a >= alignment
        /\ \A b \in {2^k : k \in 2 .. SizeWidth - 1} : b >= alignment => a <= b
===============================================================================
