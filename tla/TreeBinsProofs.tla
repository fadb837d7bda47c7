----------------------------- MODULE TreeBinsProofs -----------------------------
(***************************************************************************)
(* The tree bins for every set of chunks whose index is taken of all of    *)
(* their size (ChunkAssumption), every set of requests, every width of     *)
(* size_t and of unsigned int and every number of bins: the tries stay     *)
(* well formed, every chunk is found by its size, the queues of            *)
(* AbstractTreeBins are implemented, and a request gets the best fit.  A   *)
(* request may be of any size; one out of the range of the index may look  *)
(* in any bin, and comes back empty (TooLargeNone).                        *)
(*                                                                         *)
(* None of these is inductive.  TreeInv, which is, describes a state by a  *)
(* level for each node and a queue for each size.  Tries: a node agrees    *)
(* with its parent in as many digits as the parent's level, and is the     *)
(* child that its next digit leads to; so what is below a node is exactly  *)
(* what agrees with it, whatever node stands there, and any leaf below may *)
(* replace it.  Rings: the chunks of a size are linked in the order of     *)
(* their queue, and the oldest is the node.  The module proves in turn     *)
(* what digits are of sizes, what a walk down a trie finds, that an        *)
(* insertion and a removal keep TreeInv and change one queue, and that the *)
(* two searches find the least size that is enough.                        *)
(***************************************************************************)
EXTENDS TreeBins, Induction, SequenceTheorems

-------------------------------------------------------------------------------
(* Numbers.                                                                *)
Pow(k) == 2^k

(* What the assumptions say of the powers of two up to the range of size_t. *)
LEMMA PowFacts ==
  /\ SizeWidth \in Nat /\ SizeWidth >= 6
  /\ Pow(0) = 1
  /\ \A k \in 0 .. SizeWidth : Pow(k) \in Nat \ {0}
  /\ \A k \in 0 .. SizeWidth - 1 : Pow(k + 1) = 2 * Pow(k)
  /\ \A j, k \in 0 .. SizeWidth : j <= k => Pow(j) <= Pow(k)
  /\ \A j, k \in 0 .. SizeWidth : j < k => 2 * Pow(j) <= Pow(k)
<1>1. Pow(0) = 1 /\ \A k \in 0 .. SizeWidth : Pow(k + 1) = 2 * Pow(k)
  BY PowerAssumption DEF Pow
<1>2. SizeWidth \in Nat /\ SizeWidth >= 6
  BY SizeAssumption
<1> DEFINE T == {k \in 0 .. SizeWidth : /\ Pow(k) \in Nat \ {0}
                                        /\ \A j \in 0 .. k : Pow(j) \in Nat /\ Pow(j) <= Pow(k)}
<1>3. \A k \in 0 .. SizeWidth : k \in T
  <2>1. 0 \in T
    BY <1>1, <1>2
  <2>2. ASSUME NEW k \in 1 .. SizeWidth, k - 1 \in T PROVE k \in T
    <3>1. Pow(k) = 2 * Pow(k - 1)
      <4>1. k - 1 \in 0 .. SizeWidth /\ k = (k - 1) + 1
        BY <1>2
      <4> QED  BY <4>1, <1>1
    <3>2. Pow(k - 1) \in Nat \ {0} /\ \A j \in 0 .. k - 1 : Pow(j) \in Nat /\ Pow(j) <= Pow(k - 1)
      BY <2>2
    <3>3. Pow(k) \in Nat \ {0}
      BY <3>1, <3>2
    <3>4. ASSUME NEW j \in 0 .. k PROVE Pow(j) \in Nat /\ Pow(j) <= Pow(k)
      <4>1. j = k \/ j \in 0 .. k - 1
        BY <1>2
      <4> QED  BY <4>1, <3>1, <3>2, <3>3
    <3> QED  BY <3>3, <3>4
  <2> HIDE DEF T
  <2> QED  BY <1>2, <2>1, <2>2, IntervalInduction
<1>4. \A j, k \in 0 .. SizeWidth : j <= k => Pow(j) <= Pow(k)
  BY <1>2, <1>3
<1>5. \A k \in 0 .. SizeWidth : Pow(k) \in Nat \ {0}
  BY <1>3
<1>6. ASSUME NEW j \in 0 .. SizeWidth, NEW k \in 0 .. SizeWidth, j < k
      PROVE  2 * Pow(j) <= Pow(k)
  <2>1. j + 1 \in 0 .. SizeWidth /\ j + 1 <= k
    BY <1>2, <1>6
  <2> QED  BY <2>1, <1>1, <1>4
<1> QED  BY <1>1, <1>2, <1>4, <1>5, <1>6

(* The power of a sum. *)
LEMMA PowSum ==
  ASSUME NEW j \in Nat, NEW k \in Nat, j + k <= SizeWidth
  PROVE  Pow(j + k) = Pow(j) * Pow(k)
<1>1. SizeWidth \in Nat /\ Pow(0) = 1 /\ (\A i \in 0 .. SizeWidth : Pow(i) \in Nat \ {0})
      /\ \A i \in 0 .. SizeWidth - 1 : Pow(i + 1) = 2 * Pow(i)
  BY PowFacts
<1> DEFINE T == {i \in 0 .. k : Pow(j + i) = Pow(j) * Pow(i)}
<1>2. 0 \in T
  BY <1>1
<1>3. ASSUME NEW i \in 1 .. k, i - 1 \in T PROVE i \in T
  <2>1. j + i = (j + (i - 1)) + 1 /\ i = (i - 1) + 1 /\ j + (i - 1) \in 0 .. SizeWidth - 1
        /\ i - 1 \in 0 .. SizeWidth - 1 /\ j \in 0 .. SizeWidth
    BY <1>1
  <2>2. Pow(j + i) = 2 * Pow(j + (i - 1)) /\ Pow(i) = 2 * Pow(i - 1)
    BY <1>1, <2>1
  <2>3. Pow(j + (i - 1)) = Pow(j) * Pow(i - 1)
    BY <1>3
  <2>4. Pow(j) \in Nat /\ Pow(i - 1) \in Nat
    BY <1>1, <2>1
  <2>5. 2 * (Pow(j) * Pow(i - 1)) = Pow(j) * (2 * Pow(i - 1))
    BY <2>4
  <2> QED  BY <2>2, <2>3, <2>5
<1>4. \A i \in 0 .. k : i \in T
  <2> HIDE DEF T
  <2> QED  BY <1>2, <1>3, IntervalInduction
<1> QED  BY <1>4

(* The least of a set of numbers. *)
LEMMA MinIs ==
  ASSUME NEW S, NEW m \in S, \A x \in S : x \in Nat /\ m <= x
  PROVE  Min(S) = m
<1> DEFINE P(x) == \A y \in S : x <= y
<1>1. Min(S) = CHOOSE x \in S : P(x)
  BY DEF Min
<1>2. P(m)
  OBVIOUS
<1>3. \A x \in S : P(x) => x = m
  OBVIOUS
<1> HIDE DEF P
<1>4. (CHOOSE x \in S : P(x)) = m
  BY <1>2, <1>3
<1> QED  BY <1>1, <1>4

(* Quotient and remainder, *)
LEMMA DivMod ==
  ASSUME NEW a \in Nat, NEW b \in Nat, b # 0
  PROVE  /\ a \div b \in Nat /\ a % b \in Nat /\ a % b < b
         /\ a = b * (a \div b) + (a % b)
OBVIOUS

(* which are the only ones, *)
LEMMA DivUnique ==
  ASSUME NEW a \in Nat, NEW b \in Nat, NEW q \in Nat, NEW r \in Nat, a = b * q + r, r < b
  PROVE  a \div b = q /\ a % b = r
<1>1. PICK x \in Nat : x = a \div b
  BY DivMod
<1>2. PICK y \in Nat : y = a % b
  BY DivMod
<1>3. a = b * x + y /\ y < b
  BY <1>1, <1>2, DivMod
<1>4. x = q
  <2>1. ASSUME x + 1 <= q PROVE FALSE
    <3>1. b * (x + 1) <= b * q
      BY <2>1
    <3>2. b * (x + 1) = b * x + b
      OBVIOUS
    <3>3. PICK u \in Nat : u = b * x
      OBVIOUS
    <3>4. PICK v \in Nat : v = b * q
      OBVIOUS
    <3> QED  BY <1>3, <3>1, <3>2, <3>3, <3>4
  <2>2. ASSUME q + 1 <= x PROVE FALSE
    <3>1. b * (q + 1) <= b * x
      BY <2>2
    <3>2. b * (q + 1) = b * q + b
      OBVIOUS
    <3>3. PICK u \in Nat : u = b * x
      OBVIOUS
    <3>4. PICK v \in Nat : v = b * q
      OBVIOUS
    <3> QED  BY <1>3, <3>1, <3>2, <3>3, <3>4
  <2> QED  BY <2>1, <2>2
<1>5. y = r
  <2>1. PICK u \in Nat : u = b * q
    OBVIOUS
  <2>2. a = u + r /\ a = u + y
    BY <1>3, <1>4, <2>1
  <2> QED  BY <2>2
<1> QED  BY <1>1, <1>2, <1>4, <1>5

(* do not decrease, *)
LEMMA DivMono ==
  ASSUME NEW a \in Nat, NEW c \in Nat, NEW b \in Nat, b # 0, a \div b < c \div b
  PROVE  a < c
<1>1. PICK x \in Nat : x = a \div b
  BY DivMod
<1>2. PICK y \in Nat : y = c \div b
  BY DivMod
<1>3. PICK r \in Nat : a = b * x + r /\ r < b
  BY <1>1, DivMod
<1>4. PICK s \in Nat : c = b * y + s
  BY <1>2, DivMod
<1>5. b * (x + 1) <= b * y /\ b * (x + 1) = b * x + b
  BY <1>1, <1>2
<1>6. PICK u \in Nat : u = b * x
  OBVIOUS
<1>7. PICK v \in Nat : v = b * y
  OBVIOUS
<1> QED  BY <1>3, <1>4, <1>5, <1>6, <1>7

(* and by a product, in two steps. *)
LEMMA DivDiv ==
  ASSUME NEW a \in Nat, NEW b \in Nat, NEW c \in Nat, b # 0, c # 0
  PROVE  a \div (b * c) = (a \div b) \div c
<1>1. PICK x \in Nat : x = a \div b
  BY DivMod
<1>2. PICK r \in Nat : a = b * x + r /\ r < b
  BY <1>1, DivMod
<1>3. PICK y \in Nat : y = x \div c
  BY DivMod
<1>4. PICK s \in Nat : x = c * y + s /\ s < c
  BY <1>3, DivMod
<1>5. a = (b * c) * y + (b * s + r)
  <2>1. b * (c * y + s) = (b * c) * y + b * s
    OBVIOUS
  <2>2. a = b * (c * y + s) + r
    BY <1>2, <1>4
  <2>3. PICK u \in Nat : u = (b * c) * y
    OBVIOUS
  <2>4. PICK v \in Nat : v = b * s
    OBVIOUS
  <2> QED  BY <2>1, <2>2, <2>3, <2>4
<1>6. b * s + r < b * c
  <2>1. b * (s + 1) <= b * c
    BY <1>4
  <2>2. b * (s + 1) = b * s + b
    OBVIOUS
  <2>3. PICK u \in Nat : u = b * s
    OBVIOUS
  <2>4. PICK v \in Nat : v = b * c
    OBVIOUS
  <2> QED  BY <1>2, <2>1, <2>2, <2>3, <2>4
<1>7. b * c \in Nat /\ b * s + r \in Nat
  OBVIOUS
<1>8. a \div (b * c) = y
  BY <1>5, <1>6, <1>7, DivUnique
<1> QED  BY <1>1, <1>3, <1>8

-------------------------------------------------------------------------------
(* The bins and the digits of a size, of which the index is told.          *)
IsSize(S) == S \in size_t /\ S >= MIN_LARGE_SIZE /\ S < IndexRange

(* How many digits tell the sizes of a bin apart, the first J of them with *)
(* what the bin has fixed, and the digit after these.                      *)
Digits(I) == IF I = NTREEBINS - 1 THEN SizeWidth ELSE I \div 2 + TREEBIN_SHIFT - 1
Prefix(S, I, J) == S \div Pow(Digits(I) - J)
Digit(S, I, J) == Prefix(S, I, J + 1) % 2

(* What a bin has fixed of its sizes. *)
Fixed(I) == IF I = NTREEBINS - 1 THEN 0 ELSE 2 + (I % 2)

(* Logarithms are defined. *)
LEMMA Log2 ==
  ASSUME NEW X \in Nat, X > 0, X < Pow(SizeWidth)
  PROVE  /\ floor_log2(X) \in 0 .. SizeWidth - 1
         /\ Pow(floor_log2(X)) <= X /\ X < Pow(floor_log2(X) + 1)
<1>1. SizeWidth \in Nat /\ Pow(0) = 1 /\ \A i \in 0 .. SizeWidth : Pow(i) \in Nat \ {0}
  BY PowFacts
<1> DEFINE T == {k \in Nat : k <= SizeWidth /\ X < Pow(k)}
<1>2. SizeWidth \in T
  BY <1>1
<1>3. PICK n \in T : \A m \in T : n <= m
  <2>1. T \in SUBSET Nat /\ T # {}
    BY <1>2
  <2> HIDE DEF T
  <2> QED  BY <2>1, LeastNat
<1>4. n # 0
  BY <1>1
<1>5. n - 1 \in 0 .. SizeWidth - 1 /\ n - 1 \notin T /\ (n - 1) + 1 = n
  BY <1>1, <1>3, <1>4
<1>6. Pow(n - 1) <= X /\ X < Pow((n - 1) + 1)
  <2>1. ~(X < Pow(n - 1))
    BY <1>1, <1>5
  <2>2. Pow(n - 1) \in Nat
    BY <1>1, <1>5
  <2> QED  BY <1>5, <2>1, <2>2
<1>7. floor_log2(X) = CHOOSE K \in 0 .. SizeWidth - 1 : Pow(K) <= X /\ X < Pow(K + 1)
  BY DEF floor_log2, Pow
<1> QED  BY <1>5, <1>6, <1>7

(* The sizes of the code. *)
LEMMA SizeNumbers ==
  /\ SizeWidth \in Nat /\ SizeWidth >= 6 /\ SizeRange = Pow(SizeWidth) /\ SizeRange \in Nat
  /\ SizeRange = 2 * Pow(SizeWidth - 1) /\ Pow(SizeWidth - 1) \in Nat \ {0}
  /\ size_t = 0 .. SizeRange - 1
  /\ TREEBIN_SHIFT \in Nat /\ TREEBIN_SHIFT >= 3
  /\ MIN_LARGE_SIZE = Pow(TREEBIN_SHIFT) /\ MIN_LARGE_SIZE \in Nat \ {0}
  /\ NTREEBINS \in Nat /\ NTREEBINS >= 2 /\ NTREEBINS = 2 * (NTREEBINS \div 2)
  /\ NTREEBINS \div 2 \in Nat /\ NTREEBINS \div 2 >= 1
  /\ NTREEBINS \div 2 + TREEBIN_SHIFT <= SizeWidth
<1>1. SizeWidth \in Nat /\ SizeWidth >= 6 /\ (\A i \in 0 .. SizeWidth : Pow(i) \in Nat \ {0})
      /\ \A i \in 0 .. SizeWidth - 1 : Pow(i + 1) = 2 * Pow(i)
  BY PowFacts
<1>2. SizeRange = Pow(SizeWidth) /\ MIN_LARGE_SIZE = Pow(TREEBIN_SHIFT)
  BY DEF SizeRange, MIN_LARGE_SIZE, Pow
<1>3. TREEBIN_SHIFT \in Nat /\ TREEBIN_SHIFT >= 3 /\ TREEBIN_SHIFT < SizeWidth
  BY SizeAssumption
<1>4. SizeWidth - 1 \in 0 .. SizeWidth - 1 /\ (SizeWidth - 1) + 1 = SizeWidth
      /\ SizeWidth \in 0 .. SizeWidth /\ TREEBIN_SHIFT \in 0 .. SizeWidth
      /\ SizeWidth - 1 \in 0 .. SizeWidth
  BY <1>1, <1>3
<1>5. SizeRange = 2 * Pow(SizeWidth - 1) /\ Pow(SizeWidth - 1) \in Nat \ {0}
  BY <1>1, <1>2, <1>4
<1>6. SizeRange \in Nat /\ MIN_LARGE_SIZE \in Nat \ {0}
  BY <1>1, <1>2, <1>4
<1>7. size_t = 0 .. SizeRange - 1
  BY DEF size_t, MAX_SIZE_T
<1>8. NTREEBINS \in Nat /\ NTREEBINS > 0 /\ NTREEBINS % 2 = 0
      /\ NTREEBINS \div 2 + TREEBIN_SHIFT <= SizeWidth
  BY TreeAssumption
<1>9. NTREEBINS >= 2 /\ NTREEBINS = 2 * (NTREEBINS \div 2)
      /\ NTREEBINS \div 2 \in Nat /\ NTREEBINS \div 2 >= 1
  BY <1>8
<1> QED  BY <1>1, <1>2, <1>3, <1>5, <1>6, <1>7, <1>8, <1>9

(* Where the bins begin, and where the bin after begins. *)
LEMMA BinBounds ==
  ASSUME NEW K \in 0 .. (NTREEBINS \div 2) - 1, NEW b \in {0, 1}
  PROVE  /\ 2 * K + b \in Bins
         /\ K + TREEBIN_SHIFT - 1 \in 2 .. SizeWidth - 2
         /\ (2 * K + b) \div 2 = K /\ (2 * K + b) % 2 = b
         /\ minsize_for_tree_index(2 * K + b) = (2 + b) * Pow(K + TREEBIN_SHIFT - 1)
         /\ 2 * K + b # NTREEBINS - 1
              => minsize_for_tree_index(2 * K + b + 1) = (3 + b) * Pow(K + TREEBIN_SHIFT - 1)
<1>1. SizeWidth \in Nat /\ TREEBIN_SHIFT \in Nat /\ TREEBIN_SHIFT >= 3
      /\ NTREEBINS \in Nat /\ NTREEBINS = 2 * (NTREEBINS \div 2) /\ NTREEBINS \div 2 \in Nat
      /\ NTREEBINS \div 2 + TREEBIN_SHIFT <= SizeWidth
  BY SizeNumbers
<1>2. (\A i \in 0 .. SizeWidth : Pow(i) \in Nat \ {0})
      /\ \A i \in 0 .. SizeWidth - 1 : Pow(i + 1) = 2 * Pow(i)
  BY PowFacts
<1>3. 2 * K + b \in 0 .. NTREEBINS - 1 /\ (2 * K + b) \div 2 = K /\ (2 * K + b) % 2 = b
      /\ K + TREEBIN_SHIFT - 1 \in 2 .. SizeWidth - 2 /\ K \in Nat
  BY <1>1
<1>4. PICK d \in 2 .. SizeWidth - 2 : d = K + TREEBIN_SHIFT - 1
  BY <1>3
<1>5. K + TREEBIN_SHIFT = d + 1 /\ d \in 0 .. SizeWidth - 1 /\ d \in 0 .. SizeWidth
      /\ d + 1 \in 0 .. SizeWidth - 1 /\ (d + 1) + 1 = d + 2
  BY <1>1, <1>3, <1>4
<1>6. Pow(d + 1) = 2 * Pow(d) /\ Pow(d + 2) = 4 * Pow(d) /\ Pow(d) \in Nat
  <2>1. Pow(d + 1) = 2 * Pow(d) /\ Pow((d + 1) + 1) = 2 * Pow(d + 1) /\ Pow(d) \in Nat
    BY <1>2, <1>5
  <2> QED  BY <1>5, <2>1
<1>7. \A I \in Nat : minsize_for_tree_index(I)
                       = Pow(I \div 2 + TREEBIN_SHIFT) + (I % 2) * Pow(I \div 2 + TREEBIN_SHIFT - 1)
  BY DEF minsize_for_tree_index, Pow
<1>8. minsize_for_tree_index(2 * K + b) = Pow(d + 1) + b * Pow(d)
  <2>1. PICK I \in Nat : I = 2 * K + b
    BY <1>3
  <2>2. I \div 2 = K /\ I % 2 = b
    BY <1>3, <2>1
  <2>3. minsize_for_tree_index(I) = Pow(K + TREEBIN_SHIFT) + b * Pow(K + TREEBIN_SHIFT - 1)
    BY <1>7, <2>2
  <2> QED  BY <1>4, <1>5, <2>1, <2>3
<1>9. minsize_for_tree_index(2 * K + b) = (2 + b) * Pow(d)
  BY <1>6, <1>8
<1>10. ASSUME 2 * K + b # NTREEBINS - 1 PROVE minsize_for_tree_index(2 * K + b + 1) = (3 + b) * Pow(d)
  <2>1. CASE b = 0
    <3>1. 2 * K + b + 1 \in Nat /\ (2 * K + b + 1) \div 2 = K /\ (2 * K + b + 1) % 2 = 1
      BY <1>3, <2>1
    <3>2. minsize_for_tree_index(2 * K + b + 1) = Pow(d + 1) + 1 * Pow(d)
      BY <1>4, <1>5, <1>7, <3>1
    <3> QED  BY <1>6, <2>1, <3>2
  <2>2. CASE b = 1
    <3>1. 2 * K + b + 1 \in Nat /\ (2 * K + b + 1) \div 2 = K + 1 /\ (2 * K + b + 1) % 2 = 0
      BY <1>3, <2>2
    <3>2. (K + 1) + TREEBIN_SHIFT = d + 2 /\ (K + 1) + TREEBIN_SHIFT - 1 = d + 1
      BY <1>1, <1>3, <1>4
    <3>3. minsize_for_tree_index(2 * K + b + 1) = Pow(d + 2) + 0 * Pow(d + 1)
      BY <1>7, <3>1, <3>2
    <3>4. Pow(d + 1) \in Nat
      BY <1>6
    <3> QED  BY <1>6, <2>2, <3>3, <3>4
  <2> QED  BY <2>1, <2>2
<1> QED  BY <1>3, <1>4, <1>9, <1>10 DEF Bins

(* The index of a size is told from all of its digits. *)
LEMMA IndexKept ==
  ASSUME NEW S, IsSize(S)
  PROVE  (S \div MIN_LARGE_SIZE) % 2^UnsignedWidth = S \div MIN_LARGE_SIZE
<1>1. PICK M \in Nat \ {0} : M = MIN_LARGE_SIZE
  BY SizeNumbers
<1>2. PICK N \in Nat \ {0} : N = 2^UnsignedWidth
  BY UnsignedAssumption
<1>3. S \in Nat /\ S < M * N
  <2>1. size_t = 0 .. SizeRange - 1 /\ SizeRange \in Nat
    BY SizeNumbers
  <2> QED  BY <1>1, <1>2, <2>1 DEF IsSize, IndexRange
<1>4. PICK X \in Nat : X = S \div M
  BY <1>3, DivMod
<1>5. PICK r \in Nat : S = M * X + r
  <2>1. S % M \in Nat /\ S = M * X + (S % M)
    BY <1>3, <1>4, DivMod
  <2> QED  BY <2>1
<1>6. X < N
  <2>1. ASSUME N <= X PROVE FALSE
    <3>1. M * N <= M * X
      BY <2>1
    <3>2. PICK u \in Nat : u = M * N
      OBVIOUS
    <3>3. PICK v \in Nat : v = M * X
      OBVIOUS
    <3> QED  BY <1>3, <1>5, <3>1, <3>2, <3>3
  <2> QED  BY <2>1
<1>7. X % N = X
  BY <1>6
<1> QED  BY <1>1, <1>2, <1>4, <1>7

(* A large size is in the bin of its index, and no other. *)
LEMMA IndexFacts ==
  ASSUME NEW S, IsSize(S), NEW I, I = compute_tree_index(S)
  PROVE  /\ I \in Bins
         /\ S >= minsize_for_tree_index(I)
         /\ I = NTREEBINS - 1 \/ S < minsize_for_tree_index(I + 1)
         /\ Digits(I) \in 2 .. SizeWidth
         /\ Prefix(S, I, 0) = Fixed(I)
<1>1. /\ SizeWidth \in Nat /\ TREEBIN_SHIFT \in Nat /\ TREEBIN_SHIFT >= 3
      /\ NTREEBINS \in Nat /\ NTREEBINS = 2 * (NTREEBINS \div 2) /\ NTREEBINS \div 2 \in Nat
      /\ NTREEBINS \div 2 >= 1 /\ SizeWidth >= 6
      /\ NTREEBINS \div 2 + TREEBIN_SHIFT <= SizeWidth
      /\ size_t = 0 .. SizeRange - 1 /\ SizeRange = Pow(SizeWidth) /\ SizeRange \in Nat
      /\ MIN_LARGE_SIZE = Pow(TREEBIN_SHIFT) /\ MIN_LARGE_SIZE \in Nat \ {0}
  BY SizeNumbers
<1>2. /\ \A i \in 0 .. SizeWidth : Pow(i) \in Nat \ {0}
      /\ \A i \in 0 .. SizeWidth - 1 : Pow(i + 1) = 2 * Pow(i)
      /\ \A i, j \in 0 .. SizeWidth : i <= j => Pow(i) <= Pow(j)
      /\ \A i, j \in 0 .. SizeWidth : i < j => 2 * Pow(i) <= Pow(j)
  BY PowFacts
<1>3. S \in Nat /\ S < Pow(SizeWidth) /\ S >= MIN_LARGE_SIZE
  BY <1>1 DEF IsSize
<1>4. PICK X \in Nat : X = S \div MIN_LARGE_SIZE
  BY <1>1, <1>3, DivMod
<1>5. PICK r \in Nat : S = MIN_LARGE_SIZE * X + r /\ r < MIN_LARGE_SIZE
  BY <1>1, <1>3, <1>4, DivMod
<1>6. X # 0
  BY <1>1, <1>3, <1>5
<1>7. X < Pow(SizeWidth)
  <2>1. 1 * X <= MIN_LARGE_SIZE * X
    BY <1>1
  <2>2. PICK u \in Nat : u = MIN_LARGE_SIZE * X
    BY <1>1
  <2>3. X <= u /\ u <= S
    BY <1>1, <1>3, <1>5, <2>1, <2>2
  <2>4. Pow(SizeWidth) \in Nat
    BY <1>1
  <2> QED  BY <1>3, <2>2, <2>3, <2>4
<1>8. PICK H \in Nat : H = NTREEBINS \div 2
  BY <1>1
<1>9. PICK K \in 0 .. SizeWidth - 1 : K = floor_log2(X) /\ Pow(K) <= X /\ X < Pow(K + 1)
  BY <1>6, <1>7, Log2
<1>10. compute_tree_index(S) =
         IF X = 0 THEN 0
         ELSE IF X > Pow(H) - 1 THEN NTREEBINS - 1
         ELSE 2 * K + ((S \div Pow(K + TREEBIN_SHIFT - 1)) % 2)
  <2>1. X = (S \div MIN_LARGE_SIZE) % 2^UnsignedWidth
    BY <1>4, IndexKept
  <2> QED  BY <1>8, <1>9, <2>1 DEF compute_tree_index, Pow
<1>11. H \in 1 .. SizeWidth /\ NTREEBINS = 2 * H /\ H + TREEBIN_SHIFT <= SizeWidth
       /\ Pow(H) \in Nat \ {0}
  <2>1. H \in 1 .. SizeWidth /\ NTREEBINS = 2 * H /\ H + TREEBIN_SHIFT <= SizeWidth
    BY <1>1, <1>8
  <2>2. H \in 0 .. SizeWidth
    BY <2>1
  <2> QED  BY <1>2, <2>1, <2>2
<1>12. S >= Pow(TREEBIN_SHIFT) * X /\ S < Pow(TREEBIN_SHIFT) * (X + 1)
  <2>1. MIN_LARGE_SIZE * (X + 1) = MIN_LARGE_SIZE * X + MIN_LARGE_SIZE
    BY <1>1
  <2>2. PICK u \in Nat : u = MIN_LARGE_SIZE * X
    BY <1>1
  <2>3. S >= u /\ S < u + MIN_LARGE_SIZE
    <3>1. S = u + r
      BY <1>5, <2>2
    <3>2. MIN_LARGE_SIZE \in Nat
      BY <1>1
    <3> QED  BY <1>5, <3>1, <3>2
  <2> QED  BY <1>1, <2>1, <2>2, <2>3
<1>13. CASE X > Pow(H) - 1
  <2>1. I = NTREEBINS - 1
    BY <1>6, <1>10, <1>13
  <2>2. Pow(TREEBIN_SHIFT) * Pow(H) <= Pow(TREEBIN_SHIFT) * X
    BY <1>1, <1>11, <1>13
  <2>3. Pow(TREEBIN_SHIFT) * Pow(H) = Pow(H + TREEBIN_SHIFT)
    <3>1. Pow(TREEBIN_SHIFT + H) = Pow(TREEBIN_SHIFT) * Pow(H)
      BY <1>1, <1>11, PowSum
    <3> QED  BY <1>1, <1>11, <3>1
  <2>4. Pow(H + TREEBIN_SHIFT) <= S
    <3>1. PICK u \in Nat : u = Pow(TREEBIN_SHIFT) * X
      BY <1>1
    <3>2. Pow(H + TREEBIN_SHIFT) \in Nat
      <4>1. H + TREEBIN_SHIFT \in 0 .. SizeWidth
        BY <1>1, <1>11
      <4> QED  BY <1>2, <4>1
    <3> QED  BY <1>3, <1>12, <2>2, <2>3, <3>1, <3>2
  <2>5. PICK L \in 0 .. (NTREEBINS \div 2) - 1 : L = H - 1
    BY <1>8, <1>11
  <2>6. I = 2 * L + 1
    BY <1>11, <2>1, <2>5
  <2>7. L + TREEBIN_SHIFT - 1 \in 2 .. SizeWidth - 2
        /\ minsize_for_tree_index(2 * L + 1) = (2 + 1) * Pow(L + TREEBIN_SHIFT - 1)
    BY BinBounds
  <2>8. PICK d \in 2 .. SizeWidth - 2 : d = L + TREEBIN_SHIFT - 1
    BY <2>7
  <2>9. H + TREEBIN_SHIFT = d + 2
    BY <1>1, <1>11, <2>5, <2>8
  <2>10. Pow(d + 2) = 4 * Pow(d) /\ Pow(d) \in Nat
    <3>1. d \in 0 .. SizeWidth - 1 /\ d + 1 \in 0 .. SizeWidth - 1 /\ (d + 1) + 1 = d + 2
          /\ d \in 0 .. SizeWidth
      BY <1>1
    <3>2. Pow(d + 1) = 2 * Pow(d) /\ Pow((d + 1) + 1) = 2 * Pow(d + 1) /\ Pow(d) \in Nat
      BY <1>2, <3>1
    <3> QED  BY <3>1, <3>2
  <2>11. S >= minsize_for_tree_index(I)
    BY <1>3, <2>4, <2>6, <2>7, <2>8, <2>9, <2>10
  <2>12. Digits(I) = SizeWidth /\ Fixed(I) = 0
    BY <2>1 DEF Digits, Fixed
  <2>13. Prefix(S, I, 0) = S \div Pow(SizeWidth)
    BY <1>1, <2>12 DEF Prefix
  <2>14. S \div Pow(SizeWidth) = 0
    BY <1>1, <1>2, <1>3, DivUnique
  <2> QED  BY <1>1, <2>1, <2>11, <2>12, <2>13, <2>14 DEF Bins
<1>14. CASE ~(X > Pow(H) - 1)
  <2>1. I = 2 * K + ((S \div Pow(K + TREEBIN_SHIFT - 1)) % 2)
    BY <1>6, <1>10, <1>14
  <2>2. K < H
    <3>1. ASSUME H <= K PROVE FALSE
      <4>1. Pow(H) <= Pow(K) /\ Pow(K) \in Nat
        <5>1. H \in 0 .. SizeWidth /\ K \in 0 .. SizeWidth
          BY <1>1, <1>11
        <5> QED  BY <1>2, <3>1, <5>1
      <4> QED  BY <1>9, <1>11, <1>14, <4>1
    <3> QED  BY <1>11, <3>1
  <2>3. PICK d \in 2 .. SizeWidth - 2 : d = K + TREEBIN_SHIFT - 1
    BY <1>1, <1>11, <2>2
  <2>4. PICK Z \in Nat \ {0} : Z = Pow(d)
    BY <1>1, <1>2
  <2>5. Pow(d + 1) = 2 * Z /\ Pow(d + 2) = 4 * Z
    <3>1. d \in 0 .. SizeWidth - 1 /\ d + 1 \in 0 .. SizeWidth - 1 /\ (d + 1) + 1 = d + 2
      BY <1>1
    <3>2. Pow(d + 1) = 2 * Pow(d) /\ Pow((d + 1) + 1) = 2 * Pow(d + 1)
      BY <1>2, <3>1
    <3> QED  BY <2>4, <3>1, <3>2
  <2>6. Pow(d + 1) = Pow(TREEBIN_SHIFT) * Pow(K) /\ Pow(d + 2) = Pow(TREEBIN_SHIFT) * Pow(K + 1)
    <3>1. TREEBIN_SHIFT + K = d + 1 /\ TREEBIN_SHIFT + (K + 1) = d + 2 /\ K \in Nat /\ K + 1 \in Nat
          /\ d + 2 <= SizeWidth
      BY <1>1, <2>3
    <3>2. Pow(TREEBIN_SHIFT + K) = Pow(TREEBIN_SHIFT) * Pow(K)
      BY <1>1, <3>1, PowSum
    <3>3. Pow(TREEBIN_SHIFT + (K + 1)) = Pow(TREEBIN_SHIFT) * Pow(K + 1)
      BY <1>1, <3>1, PowSum
    <3> QED  BY <3>1, <3>2, <3>3
  <2>7. 2 * Z <= S /\ S < 4 * Z
    <3>1. Pow(K) \in Nat /\ Pow(K + 1) \in Nat /\ Pow(TREEBIN_SHIFT) \in Nat
      <4>1. K \in 0 .. SizeWidth /\ K + 1 \in 0 .. SizeWidth
        BY <1>1
      <4> QED  BY <1>1, <1>2, <4>1
    <3>2. Pow(TREEBIN_SHIFT) * Pow(K) <= Pow(TREEBIN_SHIFT) * X
      BY <1>9, <3>1
    <3>3. Pow(TREEBIN_SHIFT) * (X + 1) <= Pow(TREEBIN_SHIFT) * Pow(K + 1)
      <4>1. X + 1 <= Pow(K + 1)
        BY <1>9, <3>1
      <4> QED  BY <3>1, <4>1
    <3>4. PICK u \in Nat : u = Pow(TREEBIN_SHIFT) * X
      BY <3>1
    <3>5. PICK v \in Nat : v = Pow(TREEBIN_SHIFT) * (X + 1)
      BY <3>1
    <3>6. 2 * Z <= u /\ v <= 4 * Z /\ u <= S /\ S < v
      BY <1>12, <2>5, <2>6, <3>2, <3>3, <3>4, <3>5
    <3> QED  BY <1>3, <3>6
  <2>8. PICK Y \in Nat : Y = S \div Z
    BY <1>3, DivMod
  <2>9. Y \in {2, 3} /\ Y * Z <= S /\ S < (Y + 1) * Z
    <3>1. PICK q \in Nat : S = Z * Y + q /\ q < Z
      BY <1>3, <2>8, DivMod
    <3>2. Y >= 2
      <4>1. ASSUME Y <= 1 PROVE FALSE
        <5>1. Y = 0 \/ Y = 1
          BY <4>1
        <5> QED  BY <2>7, <3>1, <5>1
      <4> QED  BY <4>1
    <3>3. Y <= 3
      <4>1. ASSUME Y >= 4 PROVE FALSE
        <5>1. Z * 4 <= Z * Y
          BY <4>1
        <5>2. PICK u \in Nat : u = Z * Y
          OBVIOUS
        <5> QED  BY <2>7, <3>1, <5>1, <5>2
      <4> QED  BY <4>1
    <3>4. Y = 2 \/ Y = 3
      BY <3>2, <3>3
    <3> QED  BY <3>1, <3>4
  <2>10. PICK b \in {0, 1} : b = Y % 2 /\ Y = 2 + b
    BY <2>9
  <2>11. I = 2 * K + b
    BY <2>1, <2>3, <2>4, <2>8, <2>10
  <2>12. PICK J \in 0 .. (NTREEBINS \div 2) - 1 : J = K
    BY <1>8, <1>11, <2>2
  <2>13. /\ 2 * J + b \in Bins
         /\ (2 * J + b) \div 2 = J /\ (2 * J + b) % 2 = b
         /\ minsize_for_tree_index(2 * J + b) = (2 + b) * Pow(J + TREEBIN_SHIFT - 1)
         /\ 2 * J + b # NTREEBINS - 1
              => minsize_for_tree_index(2 * J + b + 1) = (3 + b) * Pow(J + TREEBIN_SHIFT - 1)
    BY BinBounds
  <2>14. I = 2 * J + b /\ J + TREEBIN_SHIFT - 1 = d
    BY <2>3, <2>11, <2>12
  <2>15. /\ I \in Bins /\ I \div 2 = J /\ I % 2 = b
         /\ minsize_for_tree_index(I) = (2 + b) * Z
         /\ I # NTREEBINS - 1 => minsize_for_tree_index(I + 1) = (3 + b) * Z
    BY <2>4, <2>13, <2>14
  <2>16. S >= minsize_for_tree_index(I)
    BY <2>9, <2>10, <2>15
  <2>17. I = NTREEBINS - 1 \/ S < minsize_for_tree_index(I + 1)
    BY <2>9, <2>10, <2>15
  <2>18. Digits(I) \in 2 .. SizeWidth /\ Prefix(S, I, 0) = Fixed(I)
    <3>1. CASE I = NTREEBINS - 1
      <4>1. Digits(I) = SizeWidth /\ Fixed(I) = 0
        BY <3>1 DEF Digits, Fixed
      <4>2. Prefix(S, I, 0) = S \div Pow(SizeWidth)
        BY <1>1, <4>1 DEF Prefix
      <4>3. S \div Pow(SizeWidth) = 0
        BY <1>1, <1>2, <1>3, DivUnique
      <4> QED  BY <1>1, <4>1, <4>2, <4>3
    <3>2. CASE I # NTREEBINS - 1
      <4>1. Digits(I) = d /\ Fixed(I) = 2 + b
        BY <2>14, <2>15, <3>2 DEF Digits, Fixed
      <4>2. Prefix(S, I, 0) = S \div Pow(d)
        BY <4>1 DEF Prefix
      <4> QED  BY <1>1, <2>4, <2>8, <2>10, <4>1, <4>2
    <3> QED  BY <3>1, <3>2
  <2> QED  BY <2>15, <2>16, <2>17, <2>18
<1> QED  BY <1>13, <1>14

(* The bins are in the order of their sizes. *)
LEMMA IndexMono ==
  ASSUME NEW R, IsSize(R), NEW S, IsSize(S), R <= S
  PROVE  compute_tree_index(R) <= compute_tree_index(S)
<1> DEFINE I == compute_tree_index(R)
           J == compute_tree_index(S)
<1>1. /\ I \in Bins /\ J \in Bins /\ R >= minsize_for_tree_index(I)
      /\ J = NTREEBINS - 1 \/ S < minsize_for_tree_index(J + 1)
  BY IndexFacts
<1> HIDE DEF I, J
<1>2. I \in 0 .. NTREEBINS - 1 /\ J \in 0 .. NTREEBINS - 1 /\ NTREEBINS \in Nat
      /\ NTREEBINS = 2 * (NTREEBINS \div 2) /\ NTREEBINS \div 2 \in Nat
      /\ TREEBIN_SHIFT \in Nat /\ TREEBIN_SHIFT >= 3 /\ SizeWidth \in Nat
      /\ R \in Nat /\ S \in Nat
  BY <1>1, SizeNumbers DEF Bins, IsSize
<1> SUFFICES ASSUME J < I PROVE FALSE
  BY <1>2 DEF I, J
<1>3. S < minsize_for_tree_index(J + 1)
  BY <1>1, <1>2
<1>4. PICK K \in 0 .. (NTREEBINS \div 2) - 1 : K = I \div 2
  BY <1>2
<1>5. PICK b \in {0, 1} : b = I % 2
  BY <1>2
<1>6. PICK L \in 0 .. (NTREEBINS \div 2) - 1 : L = J \div 2
  BY <1>2
<1>7. PICK c \in {0, 1} : c = J % 2
  BY <1>2
<1>8. I = 2 * K + b /\ J = 2 * L + c
  BY <1>2, <1>4, <1>5, <1>6, <1>7
<1>9. /\ K + TREEBIN_SHIFT - 1 \in 2 .. SizeWidth - 2
      /\ minsize_for_tree_index(2 * K + b) = (2 + b) * Pow(K + TREEBIN_SHIFT - 1)
  BY BinBounds
<1>10. /\ L + TREEBIN_SHIFT - 1 \in 2 .. SizeWidth - 2
       /\ 2 * L + c # NTREEBINS - 1
              => minsize_for_tree_index(2 * L + c + 1) = (3 + c) * Pow(L + TREEBIN_SHIFT - 1)
  BY BinBounds
<1>11. PICK d \in 2 .. SizeWidth - 2 : d = K + TREEBIN_SHIFT - 1
  BY <1>9
<1>12. PICK e \in 2 .. SizeWidth - 2 : e = L + TREEBIN_SHIFT - 1
  BY <1>10
<1>13. PICK Y \in Nat : Y = Pow(d)
  BY <1>2, PowFacts
<1>14. PICK Z \in Nat : Z = Pow(e)
  BY <1>2, PowFacts
<1>15. R >= (2 + b) * Y
  BY <1>1, <1>8, <1>9, <1>11, <1>13
<1>16. S < (3 + c) * Z
  <2>1. J # NTREEBINS - 1
    BY <1>2
  <2> QED  BY <1>3, <1>8, <1>10, <1>12, <1>14, <2>1
<1>17. (3 + c) * Z <= (2 + b) * Y
  <2>1. CASE K = L
    <3>1. c = 0 /\ b = 1 /\ Y = Z
      BY <1>8, <1>11, <1>12, <1>13, <1>14, <2>1
    <3> QED  BY <3>1
  <2>2. CASE K # L
    <3>1. e < d
      BY <1>2, <1>8, <1>11, <1>12, <2>2
    <3>2. 2 * Pow(e) <= Pow(d)
      <4>1. e \in 0 .. SizeWidth /\ d \in 0 .. SizeWidth
        BY <1>2
      <4> QED  BY <3>1, <4>1, PowFacts
    <3>3. 2 * Z <= Y
      BY <1>13, <1>14, <3>2
    <3>4. (3 + c) * Z <= 4 * Z /\ 2 * Y <= (2 + b) * Y
      OBVIOUS
    <3>5. PICK u \in Nat : u = (3 + c) * Z
      OBVIOUS
    <3>6. PICK v \in Nat : v = (2 + b) * Y
      OBVIOUS
    <3> QED  BY <3>3, <3>4, <3>5, <3>6
  <2> QED  BY <2>1, <2>2
<1> QED
  <2>1. PICK u \in Nat : u = (3 + c) * Z
    OBVIOUS
  <2>2. PICK v \in Nat : v = (2 + b) * Y
    OBVIOUS
  <2> QED  BY <1>2, <1>15, <1>16, <1>17, <2>1, <2>2

(* A prefix has one digit more than the one before. *)
LEMMA PrefixStep ==
  ASSUME NEW S \in Nat, NEW I, Digits(I) \in 2 .. SizeWidth, NEW J \in 0 .. Digits(I) - 1
  PROVE  /\ Prefix(S, I, J) \in Nat /\ Digit(S, I, J) \in {0, 1}
         /\ Prefix(S, I, J + 1) = 2 * Prefix(S, I, J) + Digit(S, I, J)
<1>0. SizeWidth \in Nat
  BY SizeNumbers
<1>1. PICK d \in Nat : d = Digits(I) - J - 1 /\ Digits(I) - J = d + 1 /\ d + 1 <= SizeWidth
                       /\ Digits(I) - (J + 1) = d
  BY <1>0
<1>2. d \in 0 .. SizeWidth - 1 /\ d \in 0 .. SizeWidth
  BY <1>0, <1>1
<1>3. Pow(d + 1) = 2 * Pow(d) /\ Pow(d) \in Nat \ {0}
  BY <1>2, PowFacts
<1>4. PICK Z \in Nat \ {0} : Z = Pow(d)
  BY <1>3
<1>5. PICK x \in Nat : x = S \div Z
  BY DivMod
<1>6. Prefix(S, I, J + 1) = x /\ Digit(S, I, J) = x % 2
  BY <1>1, <1>4, <1>5 DEF Prefix, Digit
<1>7. Prefix(S, I, J) = x \div 2
  <2>1. Prefix(S, I, J) = S \div (Z * 2)
    BY <1>1, <1>3, <1>4 DEF Prefix
  <2>2. S \div (Z * 2) = (S \div Z) \div 2
    <3>1. 2 \in Nat /\ 2 # 0 /\ Z \in Nat /\ Z # 0
      OBVIOUS
    <3> QED  BY <3>1, DivDiv
  <2> QED  BY <1>5, <2>1, <2>2
<1>8. x \div 2 \in Nat /\ x % 2 \in {0, 1} /\ x = 2 * (x \div 2) + (x % 2)
  OBVIOUS
<1> QED  BY <1>6, <1>7, <1>8

(* All the digits tell a size. *)
LEMMA PrefixWhole ==
  ASSUME NEW S \in Nat, NEW I, Digits(I) \in 2 .. SizeWidth
  PROVE  Prefix(S, I, Digits(I)) = S
<1>1. Digits(I) - Digits(I) = 0
  BY SizeNumbers
<1>2. Prefix(S, I, Digits(I)) = S \div Pow(0)
  BY <1>1 DEF Prefix
<1>3. Pow(0) = 1
  BY PowFacts
<1>4. S \div 1 = S
  OBVIOUS
<1> QED  BY <1>2, <1>3, <1>4

(* Sizes that agree in some digits agree in fewer of them. *)
LEMMA PrefixDown ==
  ASSUME NEW R \in Nat, NEW S \in Nat, NEW I, Digits(I) \in 2 .. SizeWidth,
         NEW J \in 0 .. Digits(I), Prefix(R, I, J) = Prefix(S, I, J), NEW i \in 0 .. J
  PROVE  Prefix(R, I, i) = Prefix(S, I, i)
<1>0. SizeWidth \in Nat
  BY SizeNumbers
<1>1. PICK d \in Nat : d = Digits(I) - J /\ d <= SizeWidth
  BY <1>0
<1>2. PICK e \in Nat : e = J - i /\ d + e = Digits(I) - i /\ d + e <= SizeWidth
  BY <1>0, <1>1
<1>3. Pow(d + e) = Pow(d) * Pow(e)
  BY <1>2, PowSum
<1>4. d \in 0 .. SizeWidth /\ e \in 0 .. SizeWidth
  BY <1>0, <1>1, <1>2
<1>5. Pow(d) \in Nat \ {0} /\ Pow(e) \in Nat \ {0}
  BY <1>4, PowFacts
<1>6. ASSUME NEW T \in Nat PROVE Prefix(T, I, i) = Prefix(T, I, J) \div Pow(e)
  <2>1. Prefix(T, I, i) = T \div (Pow(d) * Pow(e)) /\ Prefix(T, I, J) = T \div Pow(d)
    BY <1>1, <1>2, <1>3 DEF Prefix
  <2>2. T \div (Pow(d) * Pow(e)) = (T \div Pow(d)) \div Pow(e)
    BY <1>5, DivDiv
  <2> QED  BY <2>1, <2>2
<1> QED  BY <1>6

(* The size with the lesser prefix is less. *)
LEMMA PrefixLess ==
  ASSUME NEW R \in Nat, NEW S \in Nat, NEW I, Digits(I) \in 2 .. SizeWidth,
         NEW J \in 0 .. Digits(I), Prefix(R, I, J) < Prefix(S, I, J)
  PROVE  R < S
<1>1. Digits(I) - J \in 0 .. SizeWidth
  BY SizeNumbers
<1>2. Pow(Digits(I) - J) \in Nat /\ Pow(Digits(I) - J) # 0
  BY <1>1, PowFacts
<1> QED  BY <1>2, DivMono DEF Prefix

(* The digits that are left of a size, shifted to the top.                 *)
Key(S, I, J) == (S % Pow(Digits(I) - J)) * Pow(SizeWidth - Digits(I) + J)

(* The top bit of a key and what is left of it when it is shifted out. *)
LEMMA KeyBits ==
  ASSUME NEW K \in size_t
  PROVE  TopBit(K) \in {0, 1} /\ ShiftLeft(K) \in size_t
<1>1. PICK M \in Nat \ {0} : M = Pow(SizeWidth - 1) /\ SizeRange = 2 * M
  BY SizeNumbers
<1>2. K \in Nat /\ K < 2 * M /\ size_t = 0 .. 2 * M - 1
  BY <1>1, SizeNumbers
<1>3. PICK q \in Nat : q = K \div M
  BY <1>2, DivMod
<1>4. PICK r \in Nat : K = M * q + r
  <2>1. K % M \in Nat /\ K = M * q + (K % M)
    BY <1>2, <1>3, DivMod
  <2> QED  BY <2>1
<1>5. q < 2
  <2>1. ASSUME q >= 2 PROVE FALSE
    <3>1. M * 2 <= M * q
      BY <2>1
    <3>2. PICK u \in Nat : u = M * q
      OBVIOUS
    <3> QED  BY <1>2, <1>4, <3>1, <3>2
  <2> QED  BY <2>1
<1>6. TopBit(K) = q
  BY <1>1, <1>3 DEF TopBit, Pow
<1>7. (2 * K) % (2 * M) \in 0 .. 2 * M - 1
  <2>1. PICK k \in Nat : k = 2 * K
    BY <1>2
  <2>2. PICK m \in Nat \ {0} : m = 2 * M
    OBVIOUS
  <2>3. k % m \in 0 .. m - 1
    OBVIOUS
  <2> QED  BY <2>1, <2>2, <2>3
<1>8. ShiftLeft(K) = (2 * K) % (2 * M)
  BY <1>1 DEF ShiftLeft
<1> QED  BY <1>2, <1>5, <1>6, <1>7, <1>8

(* The digits come to the top one by one. *)
LEMMA KeyStep ==
  ASSUME NEW S \in Nat, NEW I, Digits(I) \in 2 .. SizeWidth, NEW J \in 0 .. Digits(I) - 1
  PROVE  /\ Key(S, I, J) \in size_t /\ TopBit(Key(S, I, J)) = Digit(S, I, J)
         /\ ShiftLeft(Key(S, I, J)) = Key(S, I, J + 1)
<1>0. SizeWidth \in Nat
  BY SizeNumbers
<1>1. PICK d \in Nat : d = Digits(I) - J - 1 /\ Digits(I) - J = d + 1 /\ d + 1 <= SizeWidth
                       /\ Digits(I) - (J + 1) = d
  BY <1>0
<1>2. PICK e \in Nat : e = SizeWidth - Digits(I) + J /\ SizeWidth - Digits(I) + (J + 1) = e + 1
                       /\ d + e = SizeWidth - 1 /\ e + 1 <= SizeWidth
  BY <1>0, <1>1
<1>3. d \in 0 .. SizeWidth - 1 /\ d \in 0 .. SizeWidth /\ e \in 0 .. SizeWidth - 1
      /\ e \in 0 .. SizeWidth
  BY <1>0, <1>1, <1>2
<1>4. Pow(d + 1) = 2 * Pow(d) /\ Pow(d) \in Nat \ {0} /\ Pow(e + 1) = 2 * Pow(e)
      /\ Pow(e) \in Nat \ {0}
  BY <1>3, PowFacts
<1>5. PICK Z \in Nat \ {0} : Z = Pow(d)
  BY <1>4
<1>6. PICK E \in Nat \ {0} : E = Pow(e)
  BY <1>4
<1>7. PICK M \in Nat \ {0} : M = Pow(SizeWidth - 1) /\ SizeRange = 2 * M
  BY SizeNumbers
<1>8. Z * E = M
  <2>1. d + e <= SizeWidth
    BY <1>0, <1>2
  <2>2. Pow(d + e) = Pow(d) * Pow(e)
    BY <2>1, PowSum
  <2> QED  BY <1>2, <1>5, <1>6, <1>7, <2>2
<1>9. PICK x \in Nat : x = S \div Z
  BY DivMod
<1>10. PICK r \in Nat : r = S % Z /\ r < Z /\ S = Z * x + r
  BY <1>9, DivMod
<1>11. PICK y \in Nat : y = x \div 2
  OBVIOUS
<1>12. PICK b \in {0, 1} : b = x % 2 /\ x = 2 * y + b
  BY <1>11
<1>13. Digit(S, I, J) = b
  BY <1>1, <1>5, <1>9, <1>12 DEF Digit, Prefix
<1>14. S % (2 * Z) = Z * b + r
  <2>1. S = (2 * Z) * y + (Z * b + r)
    <3>1. Z * (2 * y + b) = (2 * Z) * y + Z * b
      OBVIOUS
    <3>2. PICK u \in Nat : u = (2 * Z) * y
      OBVIOUS
    <3>3. PICK v \in Nat : v = Z * b
      OBVIOUS
    <3> QED  BY <1>10, <1>12, <3>1, <3>2, <3>3
  <2>2. Z * b + r \in Nat /\ Z * b + r < 2 * Z
    BY <1>10
  <2>3. 2 * Z \in Nat
    OBVIOUS
  <2> QED  BY <2>1, <2>2, <2>3, DivUnique
<1>15. PICK K \in Nat : K = Key(S, I, J) /\ K = M * b + r * E
  <2>1. Key(S, I, J) = (Z * b + r) * E
    BY <1>1, <1>2, <1>4, <1>5, <1>6, <1>14 DEF Key
  <2>2. (Z * b + r) * E = (Z * E) * b + r * E
    OBVIOUS
  <2>3. (Z * b + r) * E \in Nat
    OBVIOUS
  <2> QED  BY <1>8, <2>1, <2>2, <2>3
<1>16. PICK w \in Nat : w = r * E /\ w < M
  <2>1. (r + 1) * E <= Z * E
    BY <1>10
  <2>2. (r + 1) * E = r * E + E
    OBVIOUS
  <2>3. PICK u \in Nat : u = r * E
    OBVIOUS
  <2> QED  BY <1>8, <2>1, <2>2, <2>3
<1>17. K = M * b + w /\ K < 2 * M
  BY <1>15, <1>16
<1>18. K \in size_t
  BY <1>7, <1>17, SizeNumbers
<1>19. TopBit(K) = b
  <2>1. K \div M = b
    BY <1>16, <1>17, DivUnique
  <2> QED  BY <1>7, <2>1 DEF TopBit, Pow
<1>20. Key(S, I, J + 1) = 2 * w
  <2>1. Key(S, I, J + 1) = r * (2 * E)
    BY <1>1, <1>2, <1>4, <1>5, <1>6, <1>10 DEF Key
  <2>2. r * (2 * E) = 2 * (r * E)
    OBVIOUS
  <2> QED  BY <1>16, <2>1, <2>2
<1>21. ShiftLeft(K) = 2 * w
  <2>1. 2 * K = (2 * M) * b + 2 * w
    BY <1>17
  <2>2. 2 * K \in Nat /\ 2 * w \in Nat /\ 2 * w < 2 * M /\ 2 * M \in Nat
    BY <1>16
  <2>3. (2 * K) % (2 * M) = 2 * w
    BY <2>1, <2>2, DivUnique
  <2> QED  BY <1>7, <2>3 DEF ShiftLeft
<1> QED  BY <1>13, <1>15, <1>18, <1>19, <1>20, <1>21

(* Of no digit at all nothing is left. *)
LEMMA KeyLast ==
  ASSUME NEW S \in Nat, NEW I, Digits(I) \in 2 .. SizeWidth
  PROVE  Key(S, I, Digits(I)) \in size_t
<1>1. Digits(I) - Digits(I) = 0 /\ SizeWidth - Digits(I) + Digits(I) = SizeWidth
  BY SizeNumbers
<1>2. Pow(0) = 1 /\ Pow(SizeWidth) \in Nat
  BY PowFacts
<1>3. S % 1 = 0
  OBVIOUS
<1>4. Key(S, I, Digits(I)) = 0 * Pow(SizeWidth)
  BY <1>1, <1>2, <1>3 DEF Key
<1>5. 0 * Pow(SizeWidth) = 0
  BY <1>2
<1>6. 0 \in size_t
  BY SizeNumbers
<1> QED  BY <1>4, <1>5, <1>6

(* The key that the descent for a size begins with has all of its digits. *)
LEMMA KeyFirst ==
  ASSUME NEW S \in Nat, NEW I \in Bins, Digits(I) \in 2 .. SizeWidth
  PROVE  sizebits(S, I) = Key(S, I, 0)
<1>1. leftshift_for_tree_index(I) = SizeWidth - Digits(I)
  <2>1. I \div 2 \in Int /\ SizeWidth \in Nat /\ TREEBIN_SHIFT \in Nat /\ I \in Nat
    BY SizeNumbers DEF Bins
  <2> QED  BY <2>1 DEF leftshift_for_tree_index, Digits
<1>2. PICK e \in Nat : e = SizeWidth - Digits(I) /\ e <= SizeWidth
                       /\ SizeWidth - Digits(I) + 0 = e
  BY SizeNumbers
<1>3. PICK d \in Nat : d = Digits(I) /\ d - 0 = d /\ d + e = SizeWidth /\ d <= SizeWidth
  BY <1>2, SizeNumbers
<1>4. d \in 0 .. SizeWidth /\ e \in 0 .. SizeWidth
  BY <1>2, <1>3, SizeNumbers
<1>5. PICK Z \in Nat \ {0} : Z = Pow(d)
  BY <1>4, PowFacts
<1>6. PICK E \in Nat \ {0} : E = Pow(e)
  BY <1>4, PowFacts
<1>7. Z * E = SizeRange
  <2>1. d + e <= SizeWidth
    BY <1>3, SizeNumbers
  <2>2. Pow(d + e) = Pow(d) * Pow(e)
    BY <2>1, PowSum
  <2> QED  BY <1>3, <1>5, <1>6, <2>2, SizeNumbers
<1>8. PICK x \in Nat : x = S \div Z
  BY DivMod
<1>9. PICK r \in Nat : r = S % Z /\ r < Z /\ S = Z * x + r
  BY <1>8, DivMod
<1>10. S * E = (Z * E) * x + r * E
  <2>1. (Z * x + r) * E = (Z * E) * x + r * E
    OBVIOUS
  <2> QED  BY <1>9, <2>1
<1>11. r * E < Z * E
  <2>1. (r + 1) * E <= Z * E
    BY <1>9
  <2>2. (r + 1) * E = r * E + E
    OBVIOUS
  <2>3. PICK u \in Nat : u = r * E
    OBVIOUS
  <2>4. PICK v \in Nat : v = Z * E
    OBVIOUS
  <2> QED  BY <2>1, <2>2, <2>3, <2>4
<1>12. (S * E) % (Z * E) = r * E
  <2>1. S * E \in Nat /\ Z * E \in Nat /\ r * E \in Nat
    OBVIOUS
  <2> QED  BY <1>10, <1>11, <2>1, DivUnique
<1>13. sizebits(S, I) = (S * E) % SizeRange
  BY <1>1, <1>2, <1>6 DEF sizebits, Pow
<1>14. Key(S, I, 0) = r * E
  BY <1>2, <1>3, <1>5, <1>6, <1>9 DEF Key
<1> QED  BY <1>7, <1>12, <1>13, <1>14

-------------------------------------------------------------------------------
(* Walks.                                                                  *)

(* A walk that ends with a value at some elements, and goes on from every  *)
(* other one to the next, is defined everywhere.                           *)
LEMMA WalkValue ==
  ASSUME NEW N, NEW ends, NEW next \in [N \ ends -> N], NEW res
  PROVE  \E f : f = [q \in N |-> IF q \in ends THEN res[q] ELSE f[next[q]]]
<1> DEFINE Closed(T) == \A r \in T \ ends : next[r] \in T
           Through(q) == {r \in N : \A T \in SUBSET N : q \in T /\ Closed(T) => r \in T}
           Value(s) == CHOOSE v : v \in {res[e] : e \in s}
           f == [q \in N |-> Value(Through(q) \cap ends)]
<1>1. ASSUME NEW q \in N, q \in ends PROVE f[q] = res[q]
  <2>1. q \in Through(q)
    OBVIOUS
  <2>2. ASSUME NEW r \in Through(q) PROVE r = q
    <3>1. {q} \in SUBSET N /\ q \in {q} /\ Closed({q})
      BY <1>1
    <3> QED  BY <3>1
  <2>3. Through(q) \cap ends = {q}
    BY <1>1, <2>1, <2>2
  <2> HIDE DEF Through
  <2>4. f[q] = CHOOSE v : v \in {res[e] : e \in {q}}
    BY <2>3
  <2>5. {res[e] : e \in {q}} = {res[q]}
    OBVIOUS
  <2>6. (CHOOSE v : v \in {res[q]}) = res[q]
    OBVIOUS
  <2> QED  BY <2>4, <2>5, <2>6
<1>2. ASSUME NEW q \in N, q \notin ends PROVE f[q] = f[next[q]]
  <2>1. next[q] \in N
    BY <1>2
  <2>2. Through(next[q]) \subseteq Through(q)
    <3> SUFFICES ASSUME NEW r \in Through(next[q]), NEW T \in SUBSET N, q \in T, Closed(T)
                 PROVE  r \in T
      OBVIOUS
    <3>1. next[q] \in T
      BY <1>2
    <3> QED  BY <3>1
  <2>3. Through(q) \subseteq {q} \cup Through(next[q])
    <3>1. DEFINE T == {q} \cup Through(next[q])
    <3>2. T \in SUBSET N /\ q \in T
      OBVIOUS
    <3>3. next[q] \in Through(next[q])
      BY <2>1
    <3>4. ASSUME NEW r \in Through(next[q]), r \notin ends PROVE next[r] \in Through(next[q])
      <4>1. r \in N /\ next[r] \in N
        BY <3>4
      <4>2. ASSUME NEW U \in SUBSET N, next[q] \in U, Closed(U) PROVE next[r] \in U
        <5>1. r \in U
          BY <4>2
        <5> QED  BY <3>4, <4>2, <5>1
      <4> QED  BY <4>1, <4>2
    <3>5. Closed(T)
      <4> SUFFICES ASSUME NEW r \in T, r \notin ends PROVE next[r] \in T
        OBVIOUS
      <4> HIDE DEF Through
      <4>1. CASE r = q
        BY <4>1, <3>3
      <4>2. CASE r \in Through(next[q])
        BY <4>2, <3>4
      <4> QED  BY <4>1, <4>2
    <3> QED  BY <3>2, <3>5
  <2>4. Through(q) \cap ends = Through(next[q]) \cap ends
    <3> HIDE DEF Through
    <3> QED  BY <1>2, <2>2, <2>3
  <2> HIDE DEF Through, Value
  <2> QED  BY <2>1, <2>4
<1>3. f = [q \in N |-> IF q \in ends THEN res[q] ELSE f[next[q]]]
  <2>1. f = [q \in N |-> f[q]]
    OBVIOUS
  <2> HIDE DEF f
  <2> QED  BY <1>1, <1>2, <2>1
<1> QED  BY <1>3

WalkDefined(N, ends, next, res) ==
    \E f : f = [q \in N |-> IF q \in ends THEN res[q] ELSE f[next[q]]]

(* The same, with its conclusion named. *)
LEMMA WalkAll ==
  ASSUME NEW N, NEW ends, NEW next \in [N \ ends -> N], NEW res
  PROVE  WalkDefined(N, ends, next, res)
BY WalkValue DEF WalkDefined

-------------------------------------------------------------------------------
(* The tries.  A state is described by the level of each node, and by the  *)
(* queue of the chunks of each size.                                       *)
AllSizes == {ChunkSize[c] : c \in Chunks}
Free == Chunks \ inuse
Index(c) == compute_tree_index(ChunkSize[c])

TypeOK ==
    /\ treemap \subseteq Bins
    /\ treebins \in [Bins -> Chunks \cup {null}]
    /\ node \in [Chunks -> malloc_tree_chunk]
    /\ inuse \subseteq Chunks

(* The digits of a chunk in its bin. *)
Pre(c, J) == Prefix(ChunkSize[c], Index(c), J)
DigitOf(c, J) == Digit(ChunkSize[c], Index(c), J)

(* Two chunks of a bin that agree in the first J digits. *)
Agree(c, d, J) == Index(c) = Index(d) /\ Pre(c, J) = Pre(d, J)

IsRoot(t, lvl) ==
    node[t].parent = Bin(Index(t)) /\ treebins[Index(t)] = t /\ lvl[t] = 0

(* c is a child of t: its size has the digits of t, and then the one that  *)
(* leads to it.                                                            *)
IsChild(c, t, lvl) ==
    /\ node[c].parent = t /\ t \in TreeNodes /\ lvl[c] = lvl[t] + 1
    /\ Agree(c, t, lvl[t])
    /\ node[t].child[DigitOf(c, lvl[t])] = c

Tries(lvl) ==
    /\ lvl \in [Chunks -> Nat]
    /\ \A I \in Bins : /\ I \in treemap <=> treebins[I] # null
                       /\ treebins[I] # null => treebins[I] \in TreeNodes /\ Index(treebins[I]) = I
                                                /\ IsRoot(treebins[I], lvl)
    /\ \A t \in TreeNodes :
         /\ lvl[t] <= Digits(Index(t))
         /\ IsRoot(t, lvl) \/ \E p \in TreeNodes : IsChild(t, p, lvl)
         /\ \A b \in {0, 1} : node[t].child[b] # null =>
               /\ node[t].child[b] \in TreeNodes /\ IsChild(node[t].child[b], t, lvl)
               /\ DigitOf(node[t].child[b], lvl[t]) = b

(* The queue q holds the chunks of size s, linked as a ring; its head is   *)
(* the node of the trie.                                                   *)
IsRing(q, s) ==
    /\ q \in Seq(Chunks)
    /\ \A k \in 1 .. Len(q) :
         /\ q[k] \in Free /\ ChunkSize[q[k]] = s /\ node[q[k]].index = compute_tree_index(s)
         /\ node[q[k]].bk = q[IF k = Len(q) THEN 1 ELSE k + 1]
         /\ node[q[k]].fd = q[IF k = 1 THEN Len(q) ELSE k - 1]
         /\ (node[q[k]].parent # null) <=> (k = 1)
         /\ k # 1 => Leaf(q[k])
    /\ \A j, k \in 1 .. Len(q) : q[j] = q[k] => j = k

Rings(Q) ==
    /\ Q \in [AllSizes -> Seq(Chunks)]
    /\ \A s \in AllSizes : IsRing(Q[s], s)
    /\ \A c \in Free : \E k \in 1 .. Len(Q[ChunkSize[c]]) : Q[ChunkSize[c]][k] = c

Shape(lvl, Q) == Tries(lvl) /\ Rings(Q)
TreeInv == TypeOK /\ \E lvl, Q : Shape(lvl, Q)

(* The chunks are large, and their sizes are in their bins. *)
LEMMA ChunkFacts ==
  ASSUME NEW c \in Chunks
  PROVE  /\ IsSize(ChunkSize[c]) /\ ChunkSize[c] \in Nat /\ ChunkSize[c] \in size_t
         /\ ChunkSize[c] \in AllSizes
         /\ Index(c) \in Bins /\ Digits(Index(c)) \in 2 .. SizeWidth /\ Digits(Index(c)) \in Nat
         /\ c \in Nat /\ c > 0 /\ c # null
<1>1. ChunkSize[c] \in size_t /\ ChunkSize[c] >= MIN_LARGE_SIZE /\ c \in Nat /\ c > 0
  BY TreeAssumption
<1>2. IsSize(ChunkSize[c]) /\ ChunkSize[c] \in Nat
  <2>1. ChunkSize[c] < IndexRange
    BY ChunkAssumption
  <2>2. size_t \subseteq Nat
    BY SizeNumbers
  <2> QED  BY <1>1, <2>1, <2>2 DEF IsSize
<1>3. Index(c) \in Bins /\ Digits(Index(c)) \in 2 .. SizeWidth
  BY <1>2, IndexFacts DEF Index
<1>4. Digits(Index(c)) \in Nat
  BY <1>3
<1> QED  BY <1>1, <1>2, <1>3, <1>4 DEF AllSizes, null

(* Chunks that agree in some digits. *)
LEMMA AgreeFacts ==
  ASSUME NEW c \in Chunks, NEW d \in Chunks, NEW J \in 0 .. Digits(Index(c)), Agree(c, d, J)
  PROVE  /\ \A i \in 0 .. J : Agree(c, d, i)
         /\ \A i \in 0 .. J - 1 : DigitOf(c, i) = DigitOf(d, i)
         /\ J = Digits(Index(c)) => ChunkSize[c] = ChunkSize[d]
<1>1. /\ Index(c) = Index(d)
      /\ Prefix(ChunkSize[c], Index(c), J) = Prefix(ChunkSize[d], Index(c), J)
  BY DEF Agree, Pre
<1>2. ChunkSize[c] \in Nat /\ ChunkSize[d] \in Nat /\ Digits(Index(c)) \in 2 .. SizeWidth
  BY ChunkFacts
<1>3. \A i \in 0 .. J : Prefix(ChunkSize[c], Index(c), i) = Prefix(ChunkSize[d], Index(c), i)
  BY <1>1, <1>2, PrefixDown
<1>4. \A i \in 0 .. J - 1 : i + 1 \in 0 .. J
  BY <1>2
<1>5. \A i \in 0 .. J - 1 : DigitOf(c, i) = DigitOf(d, i)
  BY <1>1, <1>3, <1>4 DEF DigitOf, Digit
<1>6. J = Digits(Index(c)) => ChunkSize[c] = ChunkSize[d]
  BY <1>1, <1>2, PrefixWhole
<1> QED  BY <1>1, <1>3, <1>5, <1>6 DEF Agree, Pre

(* One digit more. *)
LEMMA AgreeNext ==
  ASSUME NEW c \in Chunks, NEW J \in 0 .. Digits(Index(c)) - 1
  PROVE  /\ Pre(c, J) \in Nat /\ DigitOf(c, J) \in {0, 1}
         /\ Pre(c, J + 1) = 2 * Pre(c, J) + DigitOf(c, J)
         /\ \A d \in Chunks : Agree(c, d, J) /\ DigitOf(c, J) = DigitOf(d, J) => Agree(c, d, J + 1)
<1>1. \A d \in Chunks : ChunkSize[d] \in Nat /\ Digits(Index(d)) \in 2 .. SizeWidth
  BY ChunkFacts
<1>2. ASSUME NEW d \in Chunks, Index(d) = Index(c)
      PROVE  /\ Pre(d, J) \in Nat /\ DigitOf(d, J) \in {0, 1}
             /\ Pre(d, J + 1) = 2 * Pre(d, J) + DigitOf(d, J)
  BY <1>1, <1>2, PrefixStep DEF Pre, DigitOf
<1> QED  BY <1>2 DEF Agree

(* All sizes agree before the first digit. *)
LEMMA AgreeFirst ==
  ASSUME NEW c \in Chunks, NEW d \in Chunks, Index(c) = Index(d)
  PROVE  Agree(c, d, 0)
<1>1. Pre(c, 0) = Fixed(Index(c)) /\ Pre(d, 0) = Fixed(Index(d))
  BY ChunkFacts, IndexFacts DEF Pre, Index
<1> QED  BY <1>1 DEF Agree

(* No two nodes have the same size, and a node heads the queue of its size. *)
LEMMA Distinct ==
  ASSUME NEW Q, Rings(Q), NEW t \in TreeNodes
  PROVE  /\ Q[ChunkSize[t]] # <<>> /\ Q[ChunkSize[t]] \in Seq(Chunks)
         /\ Len(Q[ChunkSize[t]]) \in Nat /\ Len(Q[ChunkSize[t]]) >= 1 /\ Q[ChunkSize[t]][1] = t
         /\ node[t].index = Index(t)
         /\ \A u \in TreeNodes : ChunkSize[u] = ChunkSize[t] => u = t
<1>1. ASSUME NEW u \in TreeNodes
      PROVE  /\ Q[ChunkSize[u]] \in Seq(Chunks) /\ Len(Q[ChunkSize[u]]) \in Nat
             /\ Len(Q[ChunkSize[u]]) >= 1 /\ Q[ChunkSize[u]][1] = u
             /\ node[u].index = Index(u)
  <2>1. u \in Chunks /\ u \in Free /\ node[u].parent # null
    BY DEF TreeNodes, Free
  <2>2. PICK s \in AllSizes : s = ChunkSize[u]
    BY <2>1 DEF AllSizes
  <2>3. IsRing(Q[s], s) /\ \E k \in 1 .. Len(Q[s]) : Q[s][k] = u
    BY <2>1, <2>2 DEF Rings
  <2>4. PICK k \in 1 .. Len(Q[s]) : Q[s][k] = u
    BY <2>3
  <2>5. /\ Q[s] \in Seq(Chunks) /\ (node[Q[s][k]].parent # null <=> k = 1)
        /\ node[Q[s][k]].index = compute_tree_index(s)
    BY <2>3 DEF IsRing
  <2>6. Len(Q[s]) \in Nat /\ k = 1
    BY <2>1, <2>4, <2>5
  <2> QED  BY <2>2, <2>4, <2>5, <2>6 DEF Index
<1>2. Q[ChunkSize[t]] # <<>>
  BY <1>1
<1> QED  BY <1>1, <1>2

(* What is known of a node and of its place. *)
LEMMA NodeFacts ==
  ASSUME NEW lvl, Tries(lvl), NEW t \in TreeNodes
  PROVE  /\ t \in Chunks /\ t \in Free /\ t # null /\ node[t].parent # null
         /\ lvl[t] \in 0 .. Digits(Index(t)) /\ lvl[t] \in Nat
         /\ lvl[t] = 0 => IsRoot(t, lvl)
         /\ lvl[t] # 0 => \E p \in TreeNodes : IsChild(t, p, lvl)
         /\ \A b \in {0, 1} : node[t].child[b] # null =>
               /\ node[t].child[b] \in TreeNodes /\ IsChild(node[t].child[b], t, lvl)
               /\ DigitOf(node[t].child[b], lvl[t]) = b
               /\ lvl[t] \in 0 .. Digits(Index(t)) - 1
<1>1. t \in Chunks /\ t \in Free /\ node[t].parent # null
  BY DEF TreeNodes, Free
<1>2. lvl[t] \in Nat /\ lvl[t] <= Digits(Index(t)) /\ Digits(Index(t)) \in Nat /\ t # null
  BY <1>1, ChunkFacts DEF Tries
<1>3. IsRoot(t, lvl) \/ \E p \in TreeNodes : IsChild(t, p, lvl)
  BY DEF Tries
<1>4. IsRoot(t, lvl) => lvl[t] = 0
  BY DEF IsRoot
<1>5. ASSUME NEW p \in TreeNodes, IsChild(t, p, lvl) PROVE lvl[t] # 0
  <2>1. p \in Chunks /\ lvl \in [Chunks -> Nat] /\ lvl[t] = lvl[p] + 1
    BY <1>5 DEF TreeNodes, Tries, IsChild
  <2> QED  BY <2>1
<1>6. ASSUME NEW b \in {0, 1}, node[t].child[b] # null
      PROVE  /\ node[t].child[b] \in TreeNodes /\ IsChild(node[t].child[b], t, lvl)
             /\ DigitOf(node[t].child[b], lvl[t]) = b
             /\ lvl[t] \in 0 .. Digits(Index(t)) - 1
  <2>1. PICK c \in TreeNodes : c = node[t].child[b]
    BY <1>6 DEF Tries
  <2>2. IsChild(c, t, lvl) /\ DigitOf(c, lvl[t]) = b /\ lvl[c] <= Digits(Index(c))
    BY <1>6, <2>1 DEF Tries
  <2>3. lvl[c] = lvl[t] + 1 /\ Index(c) = Index(t)
    BY <2>2 DEF IsChild, Agree
  <2> QED  BY <1>2, <2>1, <2>2, <2>3
<1> QED  BY <1>1, <1>2, <1>3, <1>4, <1>5, <1>6

(* The digit that leads to a child is one of its parent's. *)
LEMMA ChildDigit ==
  ASSUME NEW lvl, Tries(lvl), NEW c \in TreeNodes, NEW p \in TreeNodes, IsChild(c, p, lvl)
  PROVE  DigitOf(c, lvl[p]) \in {0, 1}
<1>1. c \in Chunks /\ lvl[c] \in 0 .. Digits(Index(c)) /\ lvl[p] \in Nat /\ lvl[c] = lvl[p] + 1
  BY NodeFacts DEF IsChild
<1>2. Digits(Index(c)) \in Nat
  BY <1>1, ChunkFacts
<1>3. lvl[p] \in 0 .. Digits(Index(c)) - 1
  BY <1>1, <1>2
<1> QED  BY <1>1, <1>3, AgreeNext

(* Above a node there is one at every level, with the digits of the node   *)
(* up to there, and with a child where the next digit of it leads.         *)
LEMMA Ancestor ==
  ASSUME NEW lvl, Tries(lvl), NEW t \in TreeNodes, NEW J \in 0 .. lvl[t]
  PROVE  \E a \in TreeNodes : /\ lvl[a] = J /\ Agree(t, a, J)
                              /\ J < lvl[t] => node[a].child[DigitOf(t, J)] # null
<1> DEFINE IsAbove(a, j) == /\ lvl[a] = j /\ Agree(t, a, j)
                            /\ j < lvl[t] => node[a].child[DigitOf(t, j)] # null
           T == {k \in 0 .. lvl[t] : \E a \in TreeNodes : IsAbove(a, lvl[t] - k)}
<1>1. t \in Chunks /\ lvl[t] \in Nat /\ lvl[t] <= Digits(Index(t)) /\ Digits(Index(t)) \in Nat
  BY NodeFacts, ChunkFacts
<1>2. 0 \in T
  <2>1. IsAbove(t, lvl[t] - 0)
    BY <1>1 DEF Agree
  <2> QED  BY <1>1, <2>1
<1>3. ASSUME NEW k \in 1 .. lvl[t], k - 1 \in T PROVE k \in T
  <2>1. PICK j \in Nat : j = lvl[t] - k /\ lvl[t] - (k - 1) = j + 1 /\ j < lvl[t]
    BY <1>1
  <2>2. PICK a \in TreeNodes : lvl[a] = j + 1 /\ Agree(t, a, j + 1)
    BY <1>3, <2>1
  <2>3. a \in Chunks /\ a # null
    BY NodeFacts
  <2>4. PICK p \in TreeNodes : IsChild(a, p, lvl)
    <3>1. lvl[a] # 0
      BY <2>1, <2>2
    <3> QED  BY <3>1, NodeFacts
  <2>5. p \in Chunks /\ lvl[p] \in Nat
    BY NodeFacts
  <2>6. lvl[p] = j /\ Agree(a, p, j) /\ node[p].child[DigitOf(a, j)] = a
    BY <2>1, <2>2, <2>4, <2>5 DEF IsChild
  <2>7. Agree(t, a, j) /\ DigitOf(t, j) = DigitOf(a, j)
    <3>1. j + 1 \in 0 .. Digits(Index(t)) /\ j \in 0 .. j + 1 /\ j \in 0 .. (j + 1) - 1
      BY <1>1, <2>1
    <3> QED  BY <1>1, <2>2, <2>3, <3>1, AgreeFacts
  <2>8. Agree(t, p, j)
    BY <2>6, <2>7 DEF Agree
  <2>9. IsAbove(p, lvl[t] - k)
    BY <2>1, <2>3, <2>6, <2>7, <2>8
  <2> HIDE DEF IsAbove
  <2> QED  BY <1>1, <2>9
<1>4. \A k \in 0 .. lvl[t] : k \in T
  <2> HIDE DEF T
  <2> QED  BY <1>1, <1>2, <1>3, IntervalInduction
<1>5. PICK k \in 0 .. lvl[t] : lvl[t] - k = J
  <2>1. lvl[t] - J \in 0 .. lvl[t] /\ lvl[t] - (lvl[t] - J) = J
    BY <1>1
  <2> QED  BY <2>1
<1>6. \E a \in TreeNodes : IsAbove(a, J)
  BY <1>4, <1>5
<1> QED  BY <1>6

(* There is one node in a place. *)
LEMMA Unique ==
  ASSUME NEW lvl, Tries(lvl), NEW t \in TreeNodes, NEW u \in TreeNodes,
         lvl[t] = lvl[u], Agree(t, u, lvl[t])
  PROVE  t = u
<1> DEFINE T == {j \in 0 .. lvl[t] : \A c, d \in TreeNodes :
                                        lvl[c] = j /\ lvl[d] = j /\ Agree(c, d, j) => c = d}
<1>1. lvl[t] \in Nat
  BY NodeFacts
<1>2. 0 \in T
  <2> SUFFICES ASSUME NEW c \in TreeNodes, NEW d \in TreeNodes, lvl[c] = 0, lvl[d] = 0, Agree(c, d, 0)
               PROVE  c = d
    BY <1>1
  <2>1. IsRoot(c, lvl) /\ IsRoot(d, lvl)
    BY NodeFacts
  <2> QED  BY <2>1 DEF IsRoot, Agree
<1>3. ASSUME NEW j \in 1 .. lvl[t], j - 1 \in T PROVE j \in T
  <2> SUFFICES ASSUME NEW c \in TreeNodes, NEW d \in TreeNodes, lvl[c] = j, lvl[d] = j, Agree(c, d, j)
               PROVE  c = d
    BY <1>1
  <2>1. c \in Chunks /\ d \in Chunks /\ j \in 0 .. Digits(Index(c))
    BY NodeFacts
  <2>2. PICK p \in TreeNodes : IsChild(c, p, lvl)
    BY NodeFacts
  <2>3. PICK q \in TreeNodes : IsChild(d, q, lvl)
    BY NodeFacts
  <2>4. lvl[p] = j - 1 /\ lvl[q] = j - 1
    <3>1. lvl[p] \in Nat /\ lvl[q] \in Nat
      BY NodeFacts
    <3> QED  BY <2>2, <2>3, <3>1 DEF IsChild
  <2>5. Agree(c, d, j - 1) /\ DigitOf(c, j - 1) = DigitOf(d, j - 1)
    <3>1. j - 1 \in 0 .. j /\ j - 1 \in 0 .. j - 1
      BY <1>1
    <3> QED  BY <2>1, <3>1, AgreeFacts
  <2>6. Agree(c, p, j - 1) /\ Agree(d, q, j - 1)
    BY <2>2, <2>3, <2>4 DEF IsChild
  <2>7. Agree(p, q, j - 1)
    BY <2>5, <2>6 DEF Agree
  <2>8. p = q
    BY <1>3, <2>4, <2>7
  <2>9. node[p].child[DigitOf(c, j - 1)] = c /\ node[q].child[DigitOf(d, j - 1)] = d
    BY <2>2, <2>3, <2>4 DEF IsChild
  <2> QED  BY <2>5, <2>8, <2>9
<1>4. \A j \in 0 .. lvl[t] : j \in T
  <2> HIDE DEF T
  <2> QED  BY <1>1, <1>2, <1>3, IntervalInduction
<1>5. lvl[t] \in T
  BY <1>1, <1>4
<1> QED  BY <1>5

(* u is a, or below it. *)
Under(a, u, lvl) == u \in TreeNodes /\ lvl[a] <= lvl[u] /\ Agree(u, a, lvl[a])

(* What is below a node that is below another is below that one. *)
LEMMA UnderUnder ==
  ASSUME NEW lvl, Tries(lvl), NEW a \in TreeNodes, NEW u, Under(a, u, lvl),
         NEW w, Under(u, w, lvl)
  PROVE  Under(a, w, lvl)
<1>1. u \in TreeNodes /\ lvl[a] <= lvl[u] /\ Agree(u, a, lvl[a])
      /\ w \in TreeNodes /\ lvl[u] <= lvl[w] /\ Agree(w, u, lvl[u])
  BY DEF Under
<1>2. /\ a \in Chunks /\ u \in Chunks /\ w \in Chunks
      /\ lvl[a] \in Nat /\ lvl[u] \in Nat /\ lvl[w] \in 0 .. Digits(Index(w))
  BY <1>1, NodeFacts
<1>3. lvl[a] \in 0 .. lvl[u] /\ lvl[u] \in 0 .. Digits(Index(w))
  BY <1>1, <1>2, ChunkFacts
<1>4. Agree(w, u, lvl[a])
  BY <1>1, <1>2, <1>3, AgreeFacts
<1> QED  BY <1>1, <1>2, <1>4 DEF Under, Agree

(* What is below a node is below the child that its next digit leads to. *)
LEMMA UnderSplit ==
  ASSUME NEW lvl, Tries(lvl), NEW a \in TreeNodes, NEW u, Under(a, u, lvl), u # a
  PROVE  \E b \in {0, 1} : /\ b = DigitOf(u, lvl[a]) /\ node[a].child[b] \in TreeNodes
                           /\ Under(node[a].child[b], u, lvl)
<1>1. u \in TreeNodes /\ lvl[a] <= lvl[u] /\ Agree(u, a, lvl[a])
  BY DEF Under
<1>2. a \in Chunks /\ u \in Chunks /\ lvl[a] \in Nat /\ lvl[u] \in Nat /\ lvl[u] <= Digits(Index(u))
      /\ Digits(Index(u)) \in Nat
  BY <1>1, NodeFacts, ChunkFacts
<1>3. lvl[a] # lvl[u]
  <2>1. ASSUME lvl[a] = lvl[u] PROVE FALSE
    BY <1>1, <2>1, Unique
  <2> QED  BY <2>1
<1>4. PICK j \in Nat : j = lvl[a] /\ j + 1 <= lvl[u]
  BY <1>1, <1>2, <1>3
<1>5. PICK c \in TreeNodes : lvl[c] = j + 1 /\ Agree(u, c, j + 1)
  <2>1. j + 1 \in 0 .. lvl[u]
    BY <1>2, <1>4
  <2> QED  BY <1>1, <2>1, Ancestor
<1>6. c \in Chunks /\ c # null
  BY NodeFacts
<1>7. PICK p \in TreeNodes : IsChild(c, p, lvl)
  <2>1. lvl[c] # 0
    BY <1>4, <1>5
  <2> QED  BY <2>1, NodeFacts
<1>8. lvl[p] = j
  <2>1. lvl[p] \in Nat
    BY NodeFacts
  <2> QED  BY <1>4, <1>5, <1>7, <2>1 DEF IsChild
<1>9. Agree(u, c, j) /\ DigitOf(u, j) = DigitOf(c, j)
  <2>1. j + 1 \in 0 .. Digits(Index(u)) /\ j \in 0 .. j + 1 /\ j \in 0 .. (j + 1) - 1
    BY <1>2, <1>4
  <2> QED  BY <1>2, <1>5, <1>6, <2>1, AgreeFacts
<1>10. Agree(c, p, j) /\ node[p].child[DigitOf(c, j)] = c
  BY <1>7, <1>8 DEF IsChild
<1>11. p = a
  <2>1. Agree(p, a, lvl[p])
    BY <1>1, <1>4, <1>8, <1>9, <1>10 DEF Agree
  <2> QED  BY <1>4, <1>8, <2>1, Unique
<1>12. DigitOf(u, j) \in {0, 1}
  <2>1. j \in 0 .. Digits(Index(u)) - 1
    BY <1>2, <1>4
  <2> QED  BY <1>2, <2>1, AgreeNext
<1>13. Under(c, u, lvl)
  BY <1>1, <1>4, <1>5 DEF Under
<1> QED  BY <1>4, <1>5, <1>9, <1>10, <1>11, <1>12, <1>13

(* What is below a child is below its parent, and has its digit. *)
LEMMA UnderChild ==
  ASSUME NEW lvl, Tries(lvl), NEW a \in TreeNodes, NEW b \in {0, 1}, node[a].child[b] # null,
         NEW c, c = node[a].child[b], NEW u, Under(c, u, lvl)
  PROVE  /\ Under(a, u, lvl) /\ u # a /\ DigitOf(u, lvl[a]) = b
         /\ Pre(u, lvl[a] + 1) = 2 * Pre(a, lvl[a]) + b /\ Pre(a, lvl[a]) \in Nat
<1>1. /\ c \in TreeNodes /\ IsChild(c, a, lvl) /\ DigitOf(c, lvl[a]) = b
      /\ lvl[a] \in 0 .. Digits(Index(a)) - 1
  BY NodeFacts
<1>2. PICK j \in Nat : j = lvl[a] /\ j \in 0 .. Digits(Index(a)) - 1
  BY <1>1
<1>3. u \in TreeNodes /\ lvl[c] <= lvl[u] /\ Agree(u, c, lvl[c])
  BY DEF Under
<1>4. a \in Chunks /\ c \in Chunks /\ u \in Chunks /\ lvl[u] \in Nat
  BY <1>1, <1>3, NodeFacts
<1>5. lvl[c] = j + 1 /\ Agree(c, a, j)
  BY <1>1, <1>2 DEF IsChild
<1>6. Index(u) = Index(a) /\ Index(c) = Index(a)
  BY <1>3, <1>5 DEF Agree
<1>7. Agree(u, c, j) /\ DigitOf(u, j) = DigitOf(c, j)
  <2>1. j + 1 \in 0 .. Digits(Index(u)) /\ j \in 0 .. j + 1 /\ j \in 0 .. (j + 1) - 1
    <3>1. Digits(Index(a)) \in Nat
      BY <1>4, ChunkFacts
    <3> QED  BY <1>2, <1>6, <3>1
  <2> QED  BY <1>3, <1>4, <1>5, <2>1, AgreeFacts
<1>8. Agree(u, a, j)
  BY <1>5, <1>7 DEF Agree
<1>9. Pre(u, j + 1) = 2 * Pre(u, j) + DigitOf(u, j) /\ Pre(u, j) \in Nat
  <2>1. j \in 0 .. Digits(Index(u)) - 1
    BY <1>2, <1>6
  <2> QED  BY <1>4, <2>1, AgreeNext
<1>10. Pre(u, j) = Pre(a, j)
  BY <1>8 DEF Agree
<1>11. Under(a, u, lvl) /\ u # a
  BY <1>2, <1>3, <1>4, <1>5, <1>8 DEF Under
<1> QED  BY <1>1, <1>2, <1>7, <1>9, <1>10, <1>11

(* The sizes below the first child are less than those below the second. *)
LEMMA ChildOrder ==
  ASSUME NEW lvl, Tries(lvl), NEW a \in TreeNodes,
         node[a].child[0] # null, NEW u, Under(node[a].child[0], u, lvl),
         node[a].child[1] # null, NEW w, Under(node[a].child[1], w, lvl)
  PROVE  ChunkSize[u] < ChunkSize[w]
<1>1. Pre(u, lvl[a] + 1) < Pre(w, lvl[a] + 1)
  <2>1. Pre(u, lvl[a] + 1) = 2 * Pre(a, lvl[a]) + 0 /\ Pre(a, lvl[a]) \in Nat
    BY UnderChild
  <2>2. Pre(w, lvl[a] + 1) = 2 * Pre(a, lvl[a]) + 1
    BY UnderChild
  <2> QED  BY <2>1, <2>2
<1>2. u \in TreeNodes /\ w \in TreeNodes /\ Under(a, u, lvl) /\ Under(a, w, lvl)
  BY UnderChild DEF Under
<1>3. Index(u) = Index(a) /\ Index(w) = Index(a)
  BY <1>2 DEF Under, Agree
<1>4. a \in Chunks /\ u \in Chunks /\ w \in Chunks /\ lvl[a] \in 0 .. Digits(Index(a)) - 1
      /\ Digits(Index(a)) \in Nat
  BY <1>2, NodeFacts, ChunkFacts
<1>5. lvl[a] + 1 \in 0 .. Digits(Index(a))
  BY <1>4
<1>6. ChunkSize[u] \in Nat /\ ChunkSize[w] \in Nat /\ Digits(Index(a)) \in 2 .. SizeWidth
  BY <1>4, ChunkFacts
<1> QED  BY <1>1, <1>3, <1>5, <1>6, PrefixLess DEF Pre

-------------------------------------------------------------------------------
(* The descent to where a size is, or belongs.                             *)
DescentEnds(S) ==
    {p \in [at : Chunks, key : size_t] :
        ChunkSize[p.at] = S \/ node[p.at].child[TopBit(p.key)] = null}

IsDescent(f, S) ==
    \A t \in Chunks, K \in size_t :
        f[[at |-> t, key |-> K]] =
            IF ChunkSize[t] = S \/ node[t].child[TopBit(K)] = null
            THEN [at |-> t, digit |-> TopBit(K)]
            ELSE f[[at |-> node[t].child[TopBit(K)], key |-> ShiftLeft(K)]]

(* The walk of the descent is defined. *)
LEMMA DescentIs ==
  ASSUME TypeOK, NEW S
  PROVE  \E f : IsDescent(f, S) /\ \A T0, K0 : descend(T0, S, K0) = f[[at |-> T0, key |-> K0]]
<1> DEFINE N == [at : Chunks, key : size_t]
           eqn(h) == [p \in N |->
                        IF ChunkSize[p.at] = S \/ node[p.at].child[TopBit(p.key)] = null
                        THEN [at |-> p.at, digit |-> TopBit(p.key)]
                        ELSE h[[at |-> node[p.at].child[TopBit(p.key)], key |-> ShiftLeft(p.key)]]]
           w == CHOOSE h : h = eqn(h)
<1>1. \E h : h = eqn(h)
  <2> DEFINE ends == DescentEnds(S)
             next == [p \in N \ ends |->
                        [at |-> node[p.at].child[TopBit(p.key)], key |-> ShiftLeft(p.key)]]
             res == [p \in N |-> [at |-> p.at, digit |-> TopBit(p.key)]]
  <2>1. next \in [N \ ends -> N]
    <3> SUFFICES ASSUME NEW p \in N, p \notin ends
                 PROVE  [at |-> node[p.at].child[TopBit(p.key)], key |-> ShiftLeft(p.key)] \in N
      OBVIOUS
    <3>1. p.at \in Chunks /\ p.key \in size_t /\ node[p.at].child[TopBit(p.key)] # null
      BY DEF DescentEnds
    <3>2. TopBit(p.key) \in {0, 1} /\ ShiftLeft(p.key) \in size_t
      BY <3>1, KeyBits
    <3>3. node[p.at].child \in [{0, 1} -> Chunks \cup {null}]
      BY <3>1 DEF TypeOK, malloc_tree_chunk
    <3> QED  BY <3>1, <3>2, <3>3
  <2>2. PICK f : f = [q \in N |-> IF q \in ends THEN res[q] ELSE f[next[q]]]
    <3> HIDE DEF next, res, ends, N
    <3> QED  BY <2>1, WalkValue
  <2>3. \A q \in N : (q \in ends) = (ChunkSize[q.at] = S \/ node[q.at].child[TopBit(q.key)] = null)
    BY DEF DescentEnds
  <2>4. f = eqn(f)
    <3>1. ASSUME NEW q \in N PROVE f[q] = eqn(f)[q]
      <4>1. CASE q \in ends
        BY <2>2, <2>3, <4>1
      <4>2. CASE q \notin ends
        BY <2>2, <2>3, <4>2
      <4> QED  BY <4>1, <4>2
    <3>2. f = [q \in N |-> f[q]]
      BY <2>2
    <3> QED  BY <3>1, <3>2
  <2> QED  BY <2>4
<1>2. w = eqn(w)
  <2> HIDE DEF eqn
  <2> QED  BY <1>1
<1>3. \A T0, K0 : descend(T0, S, K0) = w[[at |-> T0, key |-> K0]]
  BY DEF descend
<1>4. IsDescent(w, S)
  <2> SUFFICES ASSUME NEW t \in Chunks, NEW K \in size_t
               PROVE w[[at |-> t, key |-> K]] =
                        IF ChunkSize[t] = S \/ node[t].child[TopBit(K)] = null
                        THEN [at |-> t, digit |-> TopBit(K)]
                        ELSE w[[at |-> node[t].child[TopBit(K)], key |-> ShiftLeft(K)]]
    BY DEF IsDescent
  <2> HIDE DEF w
  <2>1. [at |-> t, key |-> K] \in N
    OBVIOUS
  <2> QED  BY <1>2, <2>1
<1> QED  BY <1>3, <1>4

(* No node above level J that the descent for X passes by has its size. *)
PassesBy(X, J, lvl) ==
    \A u \in TreeNodes : lvl[u] < J /\ Agree(X, u, lvl[u]) => ChunkSize[u] # ChunkSize[X]

(* Where the descent for the size of X ends: at the node of that size, or  *)
(* where the trie lacks a child that such a node would be below.           *)
LEMMA DescentFinds ==
  ASSUME TypeOK, NEW lvl, Tries(lvl), NEW X \in Chunks, NEW I, I = Index(X), treebins[I] # null,
         NEW end, end = descend(treebins[I], ChunkSize[X], sizebits(ChunkSize[X], I))
  PROVE  /\ end.at \in TreeNodes /\ Agree(X, end.at, lvl[end.at])
         /\ ChunkSize[end.at] # ChunkSize[X] =>
               /\ lvl[end.at] \in 0 .. Digits(I) - 1
               /\ end.digit = DigitOf(X, lvl[end.at]) /\ end.digit \in {0, 1}
               /\ node[end.at].child[end.digit] = null
         /\ PassesBy(X, lvl[end.at], lvl)
<1> DEFINE S == ChunkSize[X]
           D == Digits(I)
           Ok(e) == /\ e.at \in TreeNodes /\ Agree(X, e.at, lvl[e.at])
                    /\ ChunkSize[e.at] # S =>
                         /\ lvl[e.at] \in 0 .. D - 1
                         /\ e.digit = DigitOf(X, lvl[e.at]) /\ e.digit \in {0, 1}
                         /\ node[e.at].child[e.digit] = null
                    /\ PassesBy(X, lvl[e.at], lvl)
<1>1. I \in Bins /\ D \in 2 .. SizeWidth /\ D \in Nat /\ S \in Nat /\ S \in size_t
  BY ChunkFacts
<1>2. PICK f : IsDescent(f, S) /\ \A T0, K0 : descend(T0, S, K0) = f[[at |-> T0, key |-> K0]]
  BY DescentIs
<1> DEFINE Good(j) == \A t \in TreeNodes :
                        lvl[t] = j /\ Agree(X, t, j) /\ Key(S, I, j) \in size_t /\ PassesBy(X, j, lvl)
                           => Ok(f[[at |-> t, key |-> Key(S, I, j)]])
           T == {k \in 0 .. D : Good(D - k)}
<1>3. Good(D)
  <2> SUFFICES ASSUME NEW t \in TreeNodes, lvl[t] = D, Agree(X, t, D), NEW K \in size_t,
                      PassesBy(X, D, lvl)
               PROVE  Ok(f[[at |-> t, key |-> K]])
    OBVIOUS
  <2>1. t \in Chunks
    BY NodeFacts
  <2>2. ChunkSize[t] = S
    <3>1. D \in 0 .. Digits(Index(X)) /\ D = Digits(Index(X))
      BY <1>1
    <3> QED  BY <2>1, <3>1, AgreeFacts
  <2>3. f[[at |-> t, key |-> K]] = [at |-> t, digit |-> TopBit(K)]
    BY <1>2, <2>1, <2>2 DEF IsDescent
  <2> QED  BY <2>2, <2>3
<1>4. ASSUME NEW j \in 0 .. D - 1, Good(j + 1) PROVE Good(j)
  <2> SUFFICES ASSUME NEW t \in TreeNodes, lvl[t] = j, Agree(X, t, j), Key(S, I, j) \in size_t,
                      PassesBy(X, j, lvl)
               PROVE  Ok(f[[at |-> t, key |-> Key(S, I, j)]])
    OBVIOUS
  <2>2. t \in Chunks
    BY NodeFacts
  <2>3. PICK K \in size_t : K = Key(S, I, j)
    OBVIOUS
  <2>4. TopBit(K) = DigitOf(X, j) /\ ShiftLeft(K) = Key(S, I, j + 1) /\ DigitOf(X, j) \in {0, 1}
    <3>1. TopBit(K) = Digit(S, I, j) /\ ShiftLeft(K) = Key(S, I, j + 1)
      BY <1>1, <2>3, KeyStep
    <3>2. TopBit(K) \in {0, 1}
      BY KeyBits
    <3> QED  BY <3>1, <3>2 DEF DigitOf
  <2>5. f[[at |-> t, key |-> K]] =
          IF ChunkSize[t] = S \/ node[t].child[DigitOf(X, j)] = null
          THEN [at |-> t, digit |-> DigitOf(X, j)]
          ELSE f[[at |-> node[t].child[DigitOf(X, j)], key |-> Key(S, I, j + 1)]]
    BY <1>2, <2>2, <2>4 DEF IsDescent
  <2>6. CASE ChunkSize[t] = S
    <3>1. f[[at |-> t, key |-> K]] = [at |-> t, digit |-> DigitOf(X, j)]
      BY <2>5, <2>6
    <3> QED  BY <2>3, <2>6, <3>1
  <2>7. CASE ChunkSize[t] # S /\ node[t].child[DigitOf(X, j)] = null
    <3>1. f[[at |-> t, key |-> K]] = [at |-> t, digit |-> DigitOf(X, j)]
      BY <2>5, <2>7
    <3> QED  BY <2>3, <2>4, <2>7, <3>1
  <2>8. CASE ChunkSize[t] # S /\ node[t].child[DigitOf(X, j)] # null
    <3>1. PICK b \in {0, 1} : b = DigitOf(X, j)
      BY <2>4
    <3>2. PICK c \in TreeNodes : c = node[t].child[b] /\ IsChild(c, t, lvl) /\ DigitOf(c, j) = b
      BY <2>8, <3>1, NodeFacts
    <3>3. c \in Chunks
      BY NodeFacts
    <3>4. Agree(X, c, j)
      BY <3>2 DEF IsChild, Agree
    <3>5. Agree(X, c, j + 1)
      <4>1. j \in 0 .. Digits(Index(X)) - 1
        OBVIOUS
      <4> QED  BY <3>1, <3>2, <3>3, <3>4, <4>1, AgreeNext
    <3>6. lvl[c] = j + 1
      BY <3>2 DEF IsChild
    <3>7. Key(S, I, j + 1) \in size_t
      BY <2>4, KeyBits
    <3>10. PassesBy(X, j + 1, lvl)
      <4> SUFFICES ASSUME NEW u \in TreeNodes, lvl[u] < j + 1, Agree(X, u, lvl[u])
                   PROVE  ChunkSize[u] # S
        BY DEF PassesBy
      <4>1. lvl[u] \in Nat
        BY NodeFacts
      <4>2. CASE lvl[u] < j
        BY <4>2 DEF PassesBy
      <4>3. CASE lvl[u] = j
        <5>1. Agree(t, u, j)
          BY <4>3 DEF Agree
        <5>2. t = u
          BY <4>3, <5>1, Unique
        <5> QED  BY <2>8, <5>2
      <4> QED  BY <4>1, <4>2, <4>3
    <3>8. Ok(f[[at |-> c, key |-> Key(S, I, j + 1)]])
      BY <1>4, <3>5, <3>6, <3>7, <3>10
    <3>9. f[[at |-> t, key |-> K]] = f[[at |-> c, key |-> Key(S, I, j + 1)]]
      BY <2>5, <2>8, <3>1, <3>2
    <3> HIDE DEF Ok
    <3> QED  BY <2>3, <3>8, <3>9
  <2> QED  BY <2>6, <2>7, <2>8
<1>5. \A k \in 0 .. D : k \in T
  <2> HIDE DEF Good, D
  <2>1. 0 \in T
    <3>1. D - 0 = D /\ 0 \in 0 .. D
      BY <1>1
    <3> QED  BY <1>3, <3>1
  <2>2. ASSUME NEW k \in 1 .. D, k - 1 \in T PROVE k \in T
    <3>1. k \in 0 .. D /\ D - k \in 0 .. D - 1 /\ (D - k) + 1 = D - (k - 1)
      BY <1>1
    <3>2. Good((D - k) + 1)
      BY <2>2, <3>1
    <3> QED  BY <1>4, <3>1, <3>2
  <2> HIDE DEF T
  <2> QED  BY <1>1, <2>1, <2>2, IntervalInduction
<1>6. PICK r \in TreeNodes : r = treebins[I] /\ lvl[r] = 0 /\ Index(r) = I
  BY <1>1 DEF Tries, IsRoot
<1>7. Agree(X, r, 0)
  <2>1. r \in Chunks
    BY NodeFacts
  <2> QED  BY <1>6, <2>1, AgreeFirst
<1>8. Key(S, I, 0) = sizebits(S, I) /\ Key(S, I, 0) \in size_t
  <2>1. Key(S, I, 0) = sizebits(S, I)
    BY <1>1, KeyFirst
  <2>2. 0 \in 0 .. Digits(I) - 1
    BY <1>1
  <2>3. Key(S, I, 0) \in size_t
    BY <1>1, <2>2, KeyStep
  <2> QED  BY <2>1, <2>3
<1>9. Good(0)
  <2>1. D \in T /\ D - D = 0
    <3> HIDE DEF Good
    <3> QED  BY <1>1, <1>5
  <2> HIDE DEF Good
  <2> QED  BY <2>1
<1>13. PassesBy(X, 0, lvl)
  BY NodeFacts DEF PassesBy
<1>10. Ok(f[[at |-> r, key |-> Key(S, I, 0)]])
  BY <1>6, <1>7, <1>8, <1>9, <1>13
<1>11. end = f[[at |-> r, key |-> Key(S, I, 0)]]
  BY <1>2, <1>6, <1>8
<1>12. Ok(end)
  <2> HIDE DEF Ok
  <2> QED  BY <1>10, <1>11
<1> QED  BY <1>12

(* The descent finds the node of a size that has one. *)
LEMMA DescentHits ==
  ASSUME TypeOK, NEW lvl, Tries(lvl), NEW X \in Chunks, NEW x \in TreeNodes,
         ChunkSize[x] = ChunkSize[X], NEW I, I = Index(X),
         NEW end, end = descend(treebins[I], ChunkSize[X], sizebits(ChunkSize[X], I))
  PROVE  treebins[I] # null /\ end.at \in TreeNodes /\ ChunkSize[end.at] = ChunkSize[X]
<1>1. x \in Chunks /\ Index(x) = I /\ I \in Bins /\ lvl[x] \in 0 .. Digits(I)
      /\ Digits(I) \in Nat
  <2>1. x \in Chunks /\ Index(x) = I
    BY NodeFacts DEF Index
  <2> QED  BY <2>1, NodeFacts, ChunkFacts
<1>2. treebins[I] # null
  <2>1. PICK r \in TreeNodes : lvl[r] = 0 /\ Agree(x, r, 0)
    <3>1. 0 \in 0 .. lvl[x]
      BY <1>1
    <3> QED  BY <3>1, Ancestor
  <2>2. treebins[I] = r /\ r # null
    BY <1>1, <2>1, NodeFacts DEF IsRoot, Agree
  <2> QED  BY <2>2
<1>3. PICK t \in TreeNodes : t = end.at
  BY <1>2, DescentFinds
<1>4. /\ Agree(X, t, lvl[t])
      /\ ChunkSize[t] # ChunkSize[X] =>
               /\ lvl[t] \in 0 .. Digits(I) - 1
               /\ end.digit = DigitOf(X, lvl[t]) /\ end.digit \in {0, 1}
               /\ node[t].child[end.digit] = null
  BY <1>2, <1>3, DescentFinds
<1>5. \A J : Pre(X, J) = Pre(x, J) /\ DigitOf(X, J) = DigitOf(x, J)
  BY DEF Pre, DigitOf, Index
<1>6. Agree(x, t, lvl[t])
  BY <1>1, <1>4, <1>5 DEF Agree
<1> SUFFICES ASSUME ChunkSize[t] # ChunkSize[X] PROVE FALSE
  BY <1>2, <1>3
<1>7. t \in Chunks /\ lvl[t] \in Nat
  BY NodeFacts
<1>8. CASE lvl[t] <= lvl[x]
  <2>1. Under(t, x, lvl)
    BY <1>6, <1>8 DEF Under
  <2>2. x # t
    OBVIOUS
  <2>3. node[t].child[DigitOf(x, lvl[t])] # null
    <3>1. PICK b \in {0, 1} : b = DigitOf(x, lvl[t]) /\ node[t].child[b] \in TreeNodes
      BY <2>1, <2>2, UnderSplit
    <3> QED  BY <3>1, NodeFacts
  <2> QED  BY <1>4, <1>5, <2>3
<1>9. CASE lvl[x] < lvl[t]
  <2>1. PassesBy(X, lvl[t], lvl)
    BY <1>2, <1>3, DescentFinds
  <2>2. Agree(X, x, lvl[x])
    BY <1>1, <1>5 DEF Agree
  <2> QED  BY <1>9, <2>1, <2>2 DEF PassesBy
<1> QED  BY <1>1, <1>7, <1>8, <1>9

-------------------------------------------------------------------------------
(* The rings.                                                              *)

(* A queue is no longer than there are chunks. *)
LEMMA RingLength ==
  ASSUME NEW q \in Seq(Chunks), \A j, k \in 1 .. Len(q) : q[j] = q[k] => j = k
  PROVE  Len(q) \in Nat /\ Cardinality(Chunks) \in Nat /\ Len(q) <= Cardinality(Chunks)
<1>1. IsFiniteSet(Chunks)
  BY TreeAssumption
<1>2. PICK n \in Nat : n = Len(q)
  OBVIOUS
<1>3. q \in [1 .. n -> Chunks]
  BY <1>2
<1>4. q \in Injection(1 .. n, Chunks)
  BY <1>2, <1>3 DEF Injection, IsInjective
<1>5. Cardinality(1 .. n) <= Cardinality(Chunks)
  BY <1>1, <1>4, FS_Injection
<1>6. Cardinality(1 .. n) = n
  BY FS_Interval
<1> QED  BY <1>1, <1>2, <1>5, <1>6, FS_CardinalityType

(* The ring from its head is the queue. *)
LEMMA RingIs ==
  ASSUME NEW q, NEW s, IsRing(q, s), Len(q) >= 1
  PROVE  Ring(q[1]) = q
<1> DEFINE C == Cardinality(Chunks)
           t == q[1]
           from == CHOOSE f : f = [n \in 0 .. C |-> IF n = 0 THEN t ELSE node[f[n - 1]].bk]
           ends == {n \in 1 .. C : from[n] = t} \cup {C}
           len == Min(ends)
<1>1. PICK L \in Nat : L = Len(q) /\ L >= 1 /\ L <= C /\ C \in Nat
  BY RingLength DEF IsRing
<1>2. /\ q \in Seq(Chunks)
      /\ \A k \in 1 .. L : node[q[k]].bk = q[IF k = L THEN 1 ELSE k + 1]
      /\ \A j, k \in 1 .. L : q[j] = q[k] => j = k
  BY <1>1 DEF IsRing
<1>3. \E f : f = [n \in 0 .. C |-> IF n = 0 THEN t ELSE node[f[n - 1]].bk]
  <2> DEFINE S == {q[k] : k \in 1 .. L}
             step == [n \in 1 .. C |-> [x \in S |-> node[x].bk]]
  <2>1. t \in S
    BY <1>1
  <2>2. \A x \in S : node[x].bk \in S
    <3> SUFFICES ASSUME NEW k \in 1 .. L PROVE node[q[k]].bk \in S
      OBVIOUS
    <3>1. (IF k = L THEN 1 ELSE k + 1) \in 1 .. L
      BY <1>1
    <3> QED  BY <1>2, <3>1
  <2> HIDE DEF S, t
  <2>3. step \in StepFunctions(S, C)
    BY <2>2 DEF StepFunctions
  <2>4. PICK f : IsRecursion(f, S, C, t, step)
    BY <1>1, <2>1, <2>3, Recursion
  <2>5. f \in [0 .. C -> S] /\ f[0] = t /\ \A k \in 1 .. C : f[k] = node[f[k - 1]].bk
    <3>1. f \in [0 .. C -> S] /\ f[0] = t /\ \A k \in 1 .. C : f[k] = step[k][f[k - 1]]
      BY <2>4 DEF IsRecursion
    <3>2. \A k \in 1 .. C : k - 1 \in 0 .. C
      BY <1>1
    <3> QED  BY <3>1, <3>2
  <2>6. f = [n \in 0 .. C |-> IF n = 0 THEN t ELSE node[f[n - 1]].bk]
    <3>1. \A n \in 0 .. C : n = 0 \/ n \in 1 .. C
      BY <1>1
    <3>2. \A n \in 0 .. C : f[n] = IF n = 0 THEN t ELSE node[f[n - 1]].bk
      BY <2>5, <3>1
    <3>3. f = [n \in 0 .. C |-> f[n]]
      BY <2>5
    <3> HIDE DEF C
    <3> QED  BY <3>2, <3>3
  <2> QED  BY <2>6
<1>4. from = [n \in 0 .. C |-> IF n = 0 THEN t ELSE node[from[n - 1]].bk]
  BY <1>3
<1>5. Ring(t) = [n \in 1 .. len |-> from[n - 1]]
  BY DEF Ring
<1> HIDE DEF from, C
<1>6. \A k \in 0 .. L - 1 : from[k] = q[k + 1]
  <2> DEFINE T == {k \in 0 .. L - 1 : from[k] = q[k + 1]}
  <2>1. 0 \in T
    BY <1>1, <1>4
  <2>2. ASSUME NEW k \in 1 .. L - 1, k - 1 \in T PROVE k \in T
    <3>1. k \in 0 .. C /\ k # 0 /\ k \in 1 .. L /\ k # L /\ (k - 1) + 1 = k
      BY <1>1
    <3>2. from[k] = node[from[k - 1]].bk /\ from[k - 1] = q[k]
      BY <1>4, <2>2, <3>1
    <3> QED  BY <1>1, <1>2, <3>1, <3>2
  <2>3. \A k \in 0 .. L - 1 : k \in T
    <3>1. L - 1 \in Nat
      BY <1>1
    <3> HIDE DEF T
    <3> QED  BY <2>1, <2>2, <3>1, IntervalInduction
  <2> QED  BY <2>3
<1>7. from[L] = t
  <2>1. L \in 0 .. C /\ L # 0 /\ L - 1 \in 0 .. L - 1 /\ (L - 1) + 1 = L /\ L \in 1 .. L
    BY <1>1
  <2>2. from[L] = node[from[L - 1]].bk /\ from[L - 1] = q[L]
    BY <1>4, <1>6, <2>1
  <2> QED  BY <1>2, <2>1, <2>2
<1>8. \A n \in 1 .. L - 1 : from[n] # t
  <2> SUFFICES ASSUME NEW n \in 1 .. L - 1 PROVE q[n + 1] # q[1] /\ from[n] = q[n + 1]
    OBVIOUS
  <2>1. n + 1 \in 1 .. L /\ 1 \in 1 .. L /\ n + 1 # 1 /\ n \in 0 .. L - 1
    BY <1>1
  <2> QED  BY <1>2, <1>6, <2>1
<1>9. len = L
  <2>1. L \in ends
    BY <1>1, <1>7
  <2>2. \A n \in ends : n \in Nat /\ L <= n
    <3> SUFFICES ASSUME NEW n \in ends, n < L PROVE FALSE
      BY <1>1
    <3>1. n \in 1 .. L - 1 /\ from[n] = t
      BY <1>1
    <3> QED  BY <1>8, <3>1
  <2> HIDE DEF ends
  <2> QED  BY <1>1, <2>1, <2>2, MinIs
<1>10. q = [n \in 1 .. L |-> q[n]]
  BY <1>1, <1>2
<1>11. \A n \in 1 .. L : from[n - 1] = q[n]
  <2>1. \A n \in 1 .. L : n - 1 \in 0 .. L - 1 /\ (n - 1) + 1 = n
    BY <1>1
  <2> QED  BY <1>6, <2>1
<1> HIDE DEF len
<1> QED  BY <1>5, <1>9, <1>10, <1>11

(* So the queue of a size is what the description says. *)
LEMMA QueueIs ==
  ASSUME NEW Q, Rings(Q), NEW s \in AllSizes
  PROVE  QueueOf(s) = Q[s]
<1> DEFINE base == {c \in TreeNodes : ChunkSize[c] = s}
<1>1. IsRing(Q[s], s) /\ Q[s] \in Seq(Chunks) /\ Len(Q[s]) \in Nat
  BY DEF Rings
<1>2. CASE Q[s] = <<>>
  <2>1. base = {}
    BY <1>2, Distinct
  <2> QED  BY <1>2, <2>1 DEF QueueOf
<1>3. CASE Q[s] # <<>>
  <2>1. Len(Q[s]) >= 1 /\ 1 \in 1 .. Len(Q[s])
    BY <1>1, <1>3, EmptySeq
  <2>2. Q[s][1] \in base
    BY <1>1, <2>1 DEF IsRing, TreeNodes, Free
  <2>3. \A c \in base : c = Q[s][1]
    BY Distinct
  <2>4. (CHOOSE c \in base : TRUE) = Q[s][1] /\ base # {}
    BY <2>2, <2>3
  <2>5. QueueOf(s) = Ring(CHOOSE c \in base : TRUE)
    BY <2>4 DEF QueueOf
  <2> QED  BY <1>1, <2>1, <2>4, <2>5, RingIs
<1> QED  BY <1>2, <1>3

-------------------------------------------------------------------------------
(* The steps.  A step that leaves the tries alone: *)
LEMMA TriesSame ==
  ASSUME NEW lvl, Tries(lvl), TreeNodes' = TreeNodes, UNCHANGED <<treemap, treebins>>,
         \A t \in TreeNodes : node'[t].parent = node[t].parent /\ node'[t].child = node[t].child
  PROVE  Tries(lvl)'
<1>1. lvl \in [Chunks -> Nat]
  BY DEF Tries
<1>2. \A t \in TreeNodes : IsRoot(t, lvl) => IsRoot(t, lvl)'
  BY DEF IsRoot
<1>3. \A t, p \in TreeNodes : IsChild(t, p, lvl) => IsChild(t, p, lvl)'
  BY DEF IsChild
<1>4. \A I \in Bins : /\ I \in treemap' <=> treebins'[I] # null
                      /\ treebins'[I] # null => treebins'[I] \in TreeNodes' /\ Index(treebins'[I]) = I
                                                /\ IsRoot(treebins[I], lvl)'
  BY <1>2 DEF Tries
<1>5. ASSUME NEW t \in TreeNodes'
      PROVE  /\ lvl[t] <= Digits(Index(t))
             /\ IsRoot(t, lvl)' \/ \E p \in TreeNodes' : IsChild(t, p, lvl)'
             /\ \A b \in {0, 1} : node'[t].child[b] # null =>
                   /\ node'[t].child[b] \in TreeNodes' /\ IsChild(node[t].child[b], t, lvl)'
                   /\ DigitOf(node'[t].child[b], lvl[t]) = b
  <2>1. t \in TreeNodes
    OBVIOUS
  <2>2. lvl[t] <= Digits(Index(t)) /\ (IsRoot(t, lvl) \/ \E p \in TreeNodes : IsChild(t, p, lvl))
    BY <2>1 DEF Tries
  <2>3. ASSUME NEW b \in {0, 1}, node'[t].child[b] # null
        PROVE  /\ node'[t].child[b] \in TreeNodes' /\ IsChild(node[t].child[b], t, lvl)'
               /\ DigitOf(node'[t].child[b], lvl[t]) = b
    <3>1. node'[t].child = node[t].child
      BY <2>1
    <3>2. PICK c : c = node[t].child[b] /\ c = node'[t].child[b]
      BY <3>1
    <3>3. c \in TreeNodes /\ IsChild(c, t, lvl) /\ DigitOf(c, lvl[t]) = b
      BY <2>1, <2>3, <3>2 DEF Tries
    <3>4. IsChild(c, t, lvl)'
      BY <1>3, <2>1, <3>3
    <3> QED  BY <3>2, <3>3, <3>4
  <2> QED  BY <1>2, <1>3, <2>1, <2>2, <2>3
<1> QED  BY <1>1, <1>4, <1>5 DEF Tries

(* A chunk on its own: the only one of its size. *)
LEMMA RingAlone ==
  ASSUME TypeOK, NEW Q, Rings(Q), NEW X \in inuse, inuse' = inuse \ {X},
         \A t \in TreeNodes : ChunkSize[t] # ChunkSize[X],
         NEW par, par # null, node'[X] = Alone(X, Index(X), par),
         \A c \in Free : /\ node'[c].index = node[c].index /\ node'[c].fd = node[c].fd
                         /\ node'[c].bk = node[c].bk /\ node'[c].parent = node[c].parent
                         /\ node[c].parent = null => node'[c].child = node[c].child
  PROVE  Rings([Q EXCEPT ![ChunkSize[X]] = <<X>>])' /\ Q[ChunkSize[X]] = <<>>
<1> DEFINE s == ChunkSize[X]
           R == [Q EXCEPT ![s] = <<X>>]
<1>1. X \in Chunks /\ s \in AllSizes /\ Q \in [AllSizes -> Seq(Chunks)] /\ X \notin Free
  BY ChunkFacts DEF TypeOK, Rings, Free
<1>2. Free' = Free \cup {X}
  BY <1>1 DEF Free
<1>3. Q[s] = <<>>
  <2> SUFFICES ASSUME Q[s] # <<>> PROVE FALSE
    OBVIOUS
  <2>1. Q[s] \in Seq(Chunks) /\ IsRing(Q[s], s)
    BY <1>1 DEF Rings
  <2>2. 1 \in 1 .. Len(Q[s])
    BY <2>1, EmptySeq
  <2>3. Q[s][1] \in TreeNodes /\ ChunkSize[Q[s][1]] = s
    BY <2>1, <2>2 DEF IsRing, TreeNodes, Free
  <2> QED  BY <2>3
<1>4. R[s] = <<X>> /\ (\A z \in AllSizes : z # s => R[z] = Q[z]) /\ R \in [AllSizes -> Seq(Chunks)]
  <2>1. <<X>> \in Seq(Chunks)
    BY <1>1
  <2> QED  BY <1>1, <2>1
<1>5. IsRing(R[s], s)'
  <2>0. <<X>> \in Seq(Chunks)
    BY <1>1
  <2>1. PICK q \in Seq(Chunks) : q = <<X>>
    BY <2>0
  <2>2. Len(q) = 1 /\ q[1] = X /\ 1 .. Len(q) = {1}
    BY <2>1
  <2>3. /\ node'[X].index = compute_tree_index(s) /\ node'[X].bk = X /\ node'[X].fd = X
        /\ node'[X].parent # null
    BY DEF Alone, Index
  <2>4. IsRing(q, s)'
    BY <1>2, <2>2, <2>3 DEF IsRing
  <2> QED  BY <1>4, <2>1, <2>4
<1>6. ASSUME NEW z \in AllSizes, z # s PROVE IsRing(R[z], z)'
  <2>1. PICK q \in Seq(Chunks) : q = Q[z] /\ IsRing(q, z) /\ R[z] = q
    BY <1>1, <1>4, <1>6 DEF Rings
  <2>2. ASSUME NEW k \in 1 .. Len(q)
        PROVE  /\ q[k] \in Free' /\ ChunkSize[q[k]] = z /\ node'[q[k]].index = compute_tree_index(z)
               /\ node'[q[k]].bk = q[IF k = Len(q) THEN 1 ELSE k + 1]
               /\ node'[q[k]].fd = q[IF k = 1 THEN Len(q) ELSE k - 1]
               /\ (node'[q[k]].parent # null) <=> (k = 1)
               /\ k # 1 => Leaf(q[k])'
    <3>1. PICK c : c = q[k]
      OBVIOUS
    <3>2. /\ c \in Free /\ ChunkSize[c] = z /\ node[c].index = compute_tree_index(z)
          /\ node[c].bk = q[IF k = Len(q) THEN 1 ELSE k + 1]
          /\ node[c].fd = q[IF k = 1 THEN Len(q) ELSE k - 1]
          /\ (node[c].parent # null) <=> (k = 1)
          /\ k # 1 => Leaf(c)
      BY <2>1, <3>1 DEF IsRing
    <3>3. k # 1 => Leaf(c)'
      BY <3>2 DEF Leaf
    <3> QED  BY <1>2, <3>1, <3>2, <3>3
  <2>3. IsRing(q, z)'
    BY <2>1, <2>2 DEF IsRing
  <2> QED  BY <2>1, <2>3
<1>7. ASSUME NEW c \in Free' PROVE \E k \in 1 .. Len(R[ChunkSize[c]]) : R[ChunkSize[c]][k] = c
  <2>1. CASE c = X
    <3>1. Len(R[s]) = 1 /\ R[s][1] = X
      BY <1>4
    <3>2. 1 \in 1 .. Len(R[s])
      BY <3>1
    <3> QED  BY <2>1, <3>1, <3>2
  <2>2. CASE c \in Free
    <3>1. c \in Chunks /\ ChunkSize[c] \in AllSizes
      BY <2>2, ChunkFacts DEF Free
    <3>2. PICK k \in 1 .. Len(Q[ChunkSize[c]]) : Q[ChunkSize[c]][k] = c
      BY <2>2 DEF Rings
    <3>3. ChunkSize[c] # s
      <4>1. ASSUME ChunkSize[c] = s PROVE FALSE
        <5>1. k \in 1 .. 0
          BY <1>3, <3>2, <4>1
        <5> QED  BY <5>1
      <4> QED  BY <4>1
    <3> QED  BY <1>4, <3>1, <3>2, <3>3
  <2> QED  BY <1>2, <2>1, <2>2
<1> HIDE DEF R
<1>8. Rings(R)'
  BY <1>4, <1>5, <1>6, <1>7 DEF Rings
<1> QED  BY <1>3, <1>8 DEF R

(* A node that is added below T, where T has no child. *)
LEMMA TriesGrow ==
  ASSUME TypeOK, NEW lvl, Tries(lvl), NEW X \in inuse, inuse' = inuse \ {X},
         UNCHANGED <<treemap, treebins>>,
         NEW T \in TreeNodes, Agree(X, T, lvl[T]), lvl[T] \in 0 .. Digits(Index(X)) - 1,
         NEW d, d = DigitOf(X, lvl[T]), d \in {0, 1}, node[T].child[d] = null,
         node'[X] = Alone(X, Index(X), T),
         node'[T].child = [node[T].child EXCEPT ![d] = X],
         \A c \in Free : /\ node'[c].parent = node[c].parent
                         /\ c # T => node'[c].child = node[c].child
  PROVE  Tries([lvl EXCEPT ![X] = lvl[T] + 1])'
<1> DEFINE new == [lvl EXCEPT ![X] = lvl[T] + 1]
<1>1. X \in Chunks /\ X # null /\ T \in Chunks /\ T \in Free /\ T # null /\ lvl[T] \in Nat
      /\ lvl \in [Chunks -> Nat] /\ X \notin TreeNodes /\ T # X
  BY ChunkFacts, NodeFacts DEF TypeOK, Tries, TreeNodes
<1>2. TreeNodes' = TreeNodes \cup {X}
  <2>1. node'[X].parent = T
    BY DEF Alone
  <2>2. \A c \in Free : node'[c].parent = node[c].parent
    OBVIOUS
  <2> QED  BY <1>1, <2>1, <2>2 DEF TreeNodes, Free
<1>3. new \in [Chunks -> Nat] /\ new[X] = lvl[T] + 1 /\ \A t \in TreeNodes : new[t] = lvl[t]
  BY <1>1 DEF TreeNodes
<1>4. node[T].child \in [{0, 1} -> Chunks \cup {null}]
  BY <1>1 DEF TypeOK, malloc_tree_chunk
<1>5. \A t \in TreeNodes : t \in Free /\ node'[t].parent = node[t].parent
  BY DEF TreeNodes, Free
<1> HIDE DEF new
<1>6. \A t \in TreeNodes : IsRoot(t, lvl) => IsRoot(t, new)'
  BY <1>3, <1>5 DEF IsRoot
<1>7. ASSUME NEW t \in TreeNodes, NEW p \in TreeNodes, IsChild(t, p, lvl) PROVE IsChild(t, p, new)'
  <2>1. /\ node[t].parent = p /\ lvl[t] = lvl[p] + 1 /\ Agree(t, p, lvl[p])
        /\ node[p].child[DigitOf(t, lvl[p])] = t
    BY <1>7 DEF IsChild
  <2>2. node'[p].child[DigitOf(t, lvl[p])] = t
    <3>1. CASE p = T
      <4>1. t # null
        BY NodeFacts
      <4>2. DigitOf(t, lvl[p]) # d
        BY <2>1, <3>1, <4>1
      <4>3. PICK i : i = DigitOf(t, lvl[p])
        OBVIOUS
      <4>4. [node[T].child EXCEPT ![d] = X][i] = node[T].child[i]
        BY <1>4, <4>2, <4>3
      <4> QED  BY <2>1, <3>1, <4>3, <4>4
    <3>2. CASE p # T
      <4>1. node'[p].child = node[p].child
        BY <1>5, <3>2
      <4> QED  BY <2>1, <4>1
    <3> QED  BY <3>1, <3>2
  <2> QED  BY <1>2, <1>3, <1>5, <2>1, <2>2 DEF IsChild
<1>8. IsChild(X, T, new)'
  <2>1. node'[X].parent = T /\ node'[T].child[d] = X
    BY <1>4 DEF Alone
  <2> QED  BY <1>2, <1>3, <2>1 DEF IsChild
<1>9. ASSUME NEW I \in Bins
      PROVE  /\ I \in treemap' <=> treebins'[I] # null
             /\ treebins'[I] # null => treebins'[I] \in TreeNodes' /\ Index(treebins'[I]) = I
                                       /\ IsRoot(treebins[I], new)'
  <2>1. PICK r : r = treebins[I] /\ r = treebins'[I]
    OBVIOUS
  <2>2. /\ I \in treemap <=> r # null
        /\ r # null => r \in TreeNodes /\ Index(r) = I /\ IsRoot(r, lvl)
    BY <2>1 DEF Tries
  <2>3. r # null => IsRoot(r, new)'
    BY <1>6, <2>2
  <2> QED  BY <1>2, <2>1, <2>2, <2>3
<1>10. ASSUME NEW t \in TreeNodes'
       PROVE  /\ new[t] <= Digits(Index(t))
              /\ IsRoot(t, new)' \/ \E p \in TreeNodes' : IsChild(t, p, new)'
              /\ \A b \in {0, 1} : node'[t].child[b] # null =>
                    /\ node'[t].child[b] \in TreeNodes' /\ IsChild(node[t].child[b], t, new)'
                    /\ DigitOf(node'[t].child[b], new[t]) = b
  <2>1. CASE t = X
    <3>1. \A b \in {0, 1} : node'[t].child[b] = null
      BY <2>1 DEF Alone
    <3>2. new[X] <= Digits(Index(X))
      <4>1. Digits(Index(X)) \in Nat
        BY <1>1, ChunkFacts
      <4> QED  BY <1>3, <4>1
    <3> QED  BY <1>2, <1>8, <2>1, <3>1, <3>2
  <2>2. CASE t \in TreeNodes
    <3>1. lvl[t] <= Digits(Index(t)) /\ (IsRoot(t, lvl) \/ \E p \in TreeNodes : IsChild(t, p, lvl))
      BY <2>2 DEF Tries
    <3>2. ASSUME NEW b \in {0, 1}, node'[t].child[b] # null
          PROVE  /\ node'[t].child[b] \in TreeNodes' /\ IsChild(node[t].child[b], t, new)'
                 /\ DigitOf(node'[t].child[b], new[t]) = b
      <4>1. PICK c : c = node'[t].child[b]
        OBVIOUS
      <4>2. CASE t = T /\ b = d
        <5>1. c = X
          BY <1>4, <4>1, <4>2
        <5> QED  BY <1>2, <1>3, <1>8, <4>1, <4>2, <5>1
      <4>3. CASE ~(t = T /\ b = d)
        <5>1. c = node[t].child[b]
          BY <1>4, <1>5, <2>2, <4>1, <4>3
        <5>2. c \in TreeNodes /\ IsChild(c, t, lvl) /\ DigitOf(c, lvl[t]) = b
          BY <2>2, <3>2, <4>1, <5>1, NodeFacts
        <5>3. IsChild(c, t, new)'
          BY <1>7, <2>2, <5>2
        <5> QED  BY <1>2, <1>3, <2>2, <4>1, <5>2, <5>3
      <4> QED  BY <4>2, <4>3
    <3> QED  BY <1>2, <1>3, <1>6, <1>7, <2>2, <3>1, <3>2
  <2> QED  BY <1>2, <2>1, <2>2
<1>11. Tries(new)'
  BY <1>3, <1>9, <1>10 DEF Tries
<1> QED  BY <1>11 DEF new

(* A node that is the first of its bin. *)
LEMMA TriesPlant ==
  ASSUME TypeOK, NEW lvl, Tries(lvl), NEW X \in inuse, inuse' = inuse \ {X},
         NEW I, I = Index(X), I \notin treemap,
         treemap' = treemap \cup {I}, treebins' = [treebins EXCEPT ![I] = X],
         node'[X] = Alone(X, I, Bin(I)),
         \A c \in Free : node'[c].parent = node[c].parent /\ node'[c].child = node[c].child
  PROVE  Tries([lvl EXCEPT ![X] = 0])'
<1> DEFINE new == [lvl EXCEPT ![X] = 0]
<1>1. X \in Chunks /\ X # null /\ lvl \in [Chunks -> Nat] /\ X \notin TreeNodes /\ I \in Bins
      /\ Digits(I) \in Nat
  BY ChunkFacts DEF TypeOK, Tries, TreeNodes
<1>2. TreeNodes' = TreeNodes \cup {X}
  <2>1. node'[X].parent # null
    <3>1. I \in Nat
      BY <1>1, SizeNumbers DEF Bins
    <3> QED  BY <3>1 DEF Alone, Bin, null
  <2> QED  BY <1>1, <2>1 DEF TreeNodes, Free
<1>3. new \in [Chunks -> Nat] /\ new[X] = 0 /\ \A t \in TreeNodes : new[t] = lvl[t]
  BY <1>1 DEF TreeNodes
<1>5. \A t \in TreeNodes : node'[t].parent = node[t].parent /\ node'[t].child = node[t].child
  BY DEF TreeNodes, Free
<1>12. treebins'[I] = X /\ \A J \in Bins : J # I => treebins'[J] = treebins[J]
  BY <1>1 DEF TypeOK
<1>13. \A J \in Bins : treebins[J] # null <=> J \in treemap
  BY DEF Tries
<1> HIDE DEF new
<1>6. ASSUME NEW t \in TreeNodes, IsRoot(t, lvl) PROVE IsRoot(t, new)'
  <2>1. t # null /\ t \in Chunks /\ Index(t) \in Bins
    BY NodeFacts, ChunkFacts
  <2>2. Index(t) # I
    BY <1>6, <1>13, <2>1 DEF IsRoot
  <2> QED  BY <1>3, <1>5, <1>6, <1>12, <2>1, <2>2 DEF IsRoot
<1>7. ASSUME NEW t \in TreeNodes, NEW p \in TreeNodes, IsChild(t, p, lvl) PROVE IsChild(t, p, new)'
  BY <1>2, <1>3, <1>5, <1>7 DEF IsChild
<1>8. IsRoot(X, new)'
  BY <1>1, <1>3, <1>12 DEF IsRoot, Alone
<1>9. ASSUME NEW J \in Bins
      PROVE  /\ J \in treemap' <=> treebins'[J] # null
             /\ treebins'[J] # null => treebins'[J] \in TreeNodes' /\ Index(treebins'[J]) = J
                                       /\ IsRoot(treebins[J], new)'
  <2>1. CASE J = I
    BY <1>1, <1>2, <1>8, <1>12, <2>1
  <2>2. CASE J # I
    <3>1. PICK r : r = treebins[J] /\ r = treebins'[J]
      BY <1>12, <2>2
    <3>2. /\ J \in treemap <=> r # null
          /\ r # null => r \in TreeNodes /\ Index(r) = J /\ IsRoot(r, lvl)
      BY <3>1 DEF Tries
    <3>3. r # null => IsRoot(r, new)'
      BY <1>6, <3>2
    <3> QED  BY <1>2, <2>2, <3>1, <3>2, <3>3
  <2> QED  BY <2>1, <2>2
<1>10. ASSUME NEW t \in TreeNodes'
       PROVE  /\ new[t] <= Digits(Index(t))
              /\ IsRoot(t, new)' \/ \E p \in TreeNodes' : IsChild(t, p, new)'
              /\ \A b \in {0, 1} : node'[t].child[b] # null =>
                    /\ node'[t].child[b] \in TreeNodes' /\ IsChild(node[t].child[b], t, new)'
                    /\ DigitOf(node'[t].child[b], new[t]) = b
  <2>1. CASE t = X
    <3>1. \A b \in {0, 1} : node'[t].child[b] = null
      BY <2>1 DEF Alone
    <3> QED  BY <1>1, <1>3, <1>8, <2>1, <3>1
  <2>2. CASE t \in TreeNodes
    <3>1. lvl[t] <= Digits(Index(t)) /\ (IsRoot(t, lvl) \/ \E p \in TreeNodes : IsChild(t, p, lvl))
      BY <2>2 DEF Tries
    <3>2. ASSUME NEW b \in {0, 1}, node'[t].child[b] # null
          PROVE  /\ node'[t].child[b] \in TreeNodes' /\ IsChild(node[t].child[b], t, new)'
                 /\ DigitOf(node'[t].child[b], new[t]) = b
      <4>1. PICK c : c = node'[t].child[b]
        OBVIOUS
      <4>2. c = node[t].child[b]
        BY <1>5, <2>2, <4>1
      <4>3. c \in TreeNodes /\ IsChild(c, t, lvl) /\ DigitOf(c, lvl[t]) = b
        BY <2>2, <3>2, <4>1, <4>2, NodeFacts
      <4>4. IsChild(c, t, new)'
        BY <1>7, <2>2, <4>3
      <4> QED  BY <1>2, <1>3, <2>2, <4>1, <4>3, <4>4
    <3> QED  BY <1>2, <1>3, <1>6, <1>7, <2>2, <3>1, <3>2
  <2> QED  BY <1>2, <2>1, <2>2
<1>11. Tries(new)'
  BY <1>3, <1>9, <1>10 DEF Tries
<1> QED  BY <1>11 DEF new

(* A chunk that joins the end of a ring. *)
LEMMA RingAppend ==
  ASSUME TypeOK, NEW Q, Rings(Q), NEW X \in inuse, inuse' = inuse \ {X},
         NEW T \in TreeNodes, ChunkSize[T] = ChunkSize[X],
         node'[X].index = Index(X), node'[X].fd = node[T].fd, node'[X].bk = T,
         node'[X].parent = null, Leaf(X)',
         \A c \in Free : /\ node'[c].index = node[c].index /\ node'[c].child = node[c].child
                         /\ node'[c].parent = node[c].parent
                         /\ node'[c].fd = IF c = T THEN X ELSE node[c].fd
                         /\ node'[c].bk = IF c = node[T].fd THEN X ELSE node[c].bk
  PROVE  Rings([Q EXCEPT ![ChunkSize[X]] = Append(@, X)])'
<1> DEFINE s == ChunkSize[X]
           R == [Q EXCEPT ![s] = Append(@, X)]
<1>1. X \in Chunks /\ s \in AllSizes /\ Q \in [AllSizes -> Seq(Chunks)] /\ X \notin Free
  BY ChunkFacts DEF TypeOK, Rings, Free
<1>2. Free' = Free \cup {X}
  BY <1>1 DEF Free
<1>3. PICK q \in Seq(Chunks) : q = Q[s] /\ IsRing(q, s)
  BY <1>1 DEF Rings
<1>4. PICK n \in Nat : n = Len(q) /\ n >= 1 /\ q[1] = T
  BY <1>3, Distinct
<1>5. /\ \A k \in 1 .. n :
           /\ q[k] \in Free /\ ChunkSize[q[k]] = s /\ node[q[k]].index = compute_tree_index(s)
           /\ node[q[k]].bk = q[IF k = n THEN 1 ELSE k + 1]
           /\ node[q[k]].fd = q[IF k = 1 THEN n ELSE k - 1]
           /\ (node[q[k]].parent # null) <=> (k = 1)
           /\ k # 1 => Leaf(q[k])
      /\ \A j, k \in 1 .. n : q[j] = q[k] => j = k
  BY <1>3, <1>4 DEF IsRing
<1>6. PICK r \in Seq(Chunks) : r = Append(q, X)
  <2>1. Append(q, X) \in Seq(Chunks)
    BY <1>1
  <2> QED  BY <2>1
<1>7. Len(r) = n + 1 /\ r[n + 1] = X /\ \A k \in 1 .. n : r[k] = q[k]
  BY <1>1, <1>4, <1>6
<1>8. R[s] = r /\ (\A z \in AllSizes : z # s => R[z] = Q[z]) /\ R \in [AllSizes -> Seq(Chunks)]
  BY <1>1, <1>3, <1>6
<1>9. node[T].fd = q[n] /\ 1 \in 1 .. n /\ n \in 1 .. n
  BY <1>4, <1>5
<1>10. ASSUME NEW k \in 1 .. n
       PROVE  /\ r[k] \in Free' /\ ChunkSize[r[k]] = s /\ node'[r[k]].index = compute_tree_index(s)
              /\ node'[r[k]].bk = r[k + 1]
              /\ node'[r[k]].fd = r[IF k = 1 THEN n + 1 ELSE k - 1]
              /\ (node'[r[k]].parent # null) <=> (k = 1)
              /\ k # 1 => Leaf(r[k])'
  <2>1. PICK c : c = q[k] /\ r[k] = c
    BY <1>7
  <2>2. /\ c \in Free /\ ChunkSize[c] = s /\ node[c].index = compute_tree_index(s)
        /\ node[c].bk = q[IF k = n THEN 1 ELSE k + 1]
        /\ node[c].fd = q[IF k = 1 THEN n ELSE k - 1]
        /\ (node[c].parent # null) <=> (k = 1)
        /\ k # 1 => Leaf(c)
    BY <1>5, <2>1
  <2>3. k # 1 => Leaf(c)'
    BY <2>2 DEF Leaf
  <2>4. (c = T <=> k = 1) /\ (c = node[T].fd <=> k = n)
    BY <1>4, <1>5, <1>9, <2>1
  <2>5. node'[c].bk = r[k + 1]
    <3>1. CASE k = n
      BY <1>7, <2>2, <2>4, <3>1
    <3>2. CASE k # n
      <4>1. k + 1 \in 1 .. n
        BY <3>2
      <4> QED  BY <1>7, <2>2, <2>4, <3>2, <4>1
    <3> QED  BY <3>1, <3>2
  <2>6. node'[c].fd = r[IF k = 1 THEN n + 1 ELSE k - 1]
    <3>1. CASE k = 1
      BY <1>7, <2>2, <2>4, <3>1
    <3>2. CASE k # 1
      <4>1. k - 1 \in 1 .. n
        BY <3>2
      <4> QED  BY <1>7, <2>2, <2>4, <3>2, <4>1
    <3> QED  BY <3>1, <3>2
  <2> QED  BY <1>2, <2>1, <2>2, <2>3, <2>5, <2>6
<1>11. IsRing(r, s)'
  <2>1. ASSUME NEW k \in 1 .. Len(r)
        PROVE  /\ r[k] \in Free' /\ ChunkSize[r[k]] = s /\ node'[r[k]].index = compute_tree_index(s)
               /\ node'[r[k]].bk = r[IF k = Len(r) THEN 1 ELSE k + 1]
               /\ node'[r[k]].fd = r[IF k = 1 THEN Len(r) ELSE k - 1]
               /\ (node'[r[k]].parent # null) <=> (k = 1)
               /\ k # 1 => Leaf(r[k])'
    <3>1. CASE k \in 1 .. n
      <4>1. k # Len(r)
        BY <1>7, <3>1
      <4> QED  BY <1>7, <1>10, <3>1, <4>1
    <3>2. CASE k = n + 1
      <4>1. r[1] = T /\ r[n] = node[T].fd /\ (n + 1) - 1 = n /\ k # 1
        BY <1>4, <1>7, <1>9, <3>2
      <4> QED  BY <1>2, <1>7, <3>2, <4>1 DEF Index
    <3> QED  BY <1>7, <3>1, <3>2
  <2>2. ASSUME NEW j \in 1 .. Len(r), NEW k \in 1 .. Len(r), r[j] = r[k] PROVE j = k
    <3>1. \A i \in 1 .. n : r[i] \in Free /\ r[i] # X
      BY <1>1, <1>5, <1>7
    <3> QED  BY <1>5, <1>7, <2>2, <3>1
  <2> QED  BY <2>1, <2>2 DEF IsRing
<1>12. ASSUME NEW z \in AllSizes, z # s PROVE IsRing(R[z], z)'
  <2>1. PICK p \in Seq(Chunks) : p = Q[z] /\ IsRing(p, z) /\ R[z] = p
    BY <1>1, <1>8, <1>12 DEF Rings
  <2>2. ASSUME NEW k \in 1 .. Len(p)
        PROVE  /\ p[k] \in Free' /\ ChunkSize[p[k]] = z /\ node'[p[k]].index = compute_tree_index(z)
               /\ node'[p[k]].bk = p[IF k = Len(p) THEN 1 ELSE k + 1]
               /\ node'[p[k]].fd = p[IF k = 1 THEN Len(p) ELSE k - 1]
               /\ (node'[p[k]].parent # null) <=> (k = 1)
               /\ k # 1 => Leaf(p[k])'
    <3>1. PICK c : c = p[k]
      OBVIOUS
    <3>2. /\ c \in Free /\ ChunkSize[c] = z /\ node[c].index = compute_tree_index(z)
          /\ node[c].bk = p[IF k = Len(p) THEN 1 ELSE k + 1]
          /\ node[c].fd = p[IF k = 1 THEN Len(p) ELSE k - 1]
          /\ (node[c].parent # null) <=> (k = 1)
          /\ k # 1 => Leaf(c)
      BY <2>1, <3>1 DEF IsRing
    <3>3. k # 1 => Leaf(c)'
      BY <3>2 DEF Leaf
    <3>4. c # T /\ c # node[T].fd
      BY <1>5, <1>9, <1>12, <3>2
    <3> QED  BY <1>2, <3>1, <3>2, <3>3, <3>4
  <2>3. IsRing(p, z)'
    BY <2>1, <2>2 DEF IsRing
  <2> QED  BY <2>1, <2>3
<1>13. ASSUME NEW c \in Free' PROVE \E k \in 1 .. Len(R[ChunkSize[c]]) : R[ChunkSize[c]][k] = c
  <2>1. CASE c = X
    <3>1. n + 1 \in 1 .. Len(r)
      BY <1>7
    <3> QED  BY <1>7, <1>8, <2>1, <3>1
  <2>2. CASE c \in Free
    <3>1. c \in Chunks /\ ChunkSize[c] \in AllSizes
      BY <2>2, ChunkFacts DEF Free
    <3>2. PICK k \in 1 .. Len(Q[ChunkSize[c]]) : Q[ChunkSize[c]][k] = c
      BY <2>2 DEF Rings
    <3>3. CASE ChunkSize[c] = s
      <4>1. k \in 1 .. Len(r) /\ r[k] = c
        BY <1>3, <1>4, <1>7, <3>2, <3>3
      <4> QED  BY <1>8, <3>3, <4>1
    <3>4. CASE ChunkSize[c] # s
      BY <1>8, <3>1, <3>2, <3>4
    <3> QED  BY <3>3, <3>4
  <2> QED  BY <1>2, <2>1, <2>2
<1> HIDE DEF R
<1>14. Rings(R)'
  BY <1>8, <1>11, <1>12, <1>13 DEF Rings
<1> QED  BY <1>14 DEF R

(* The insertion of a chunk keeps the tries, and puts the chunk at the end *)
(* of the queue of its size.                                               *)
LEMMA InsertKeeps ==
  ASSUME TypeOK, NEW lvl, NEW Q, Shape(lvl, Q), NEW X, Insert(X)
  PROVE  /\ TypeOK' /\ X \in Chunks
         /\ \E new : Shape(new, [Q EXCEPT ![ChunkSize[X]] = Append(@, X)])'
<1> DEFINE S == ChunkSize[X]
           R == [Q EXCEPT ![S] = Append(@, X)]
<1>1. X \in inuse /\ inuse' = inuse \ {X} /\ insert_large_chunk(X)
  BY DEF Insert
<1>2. PICK I \in Bins : I = Index(X)
  BY <1>1, ChunkFacts DEF TypeOK
<1>3. X \in Chunks /\ X \notin Free /\ S \in AllSizes /\ Tries(lvl) /\ Rings(Q) /\ I \in Nat
      /\ Q \in [AllSizes -> Seq(Chunks)] /\ inuse' \subseteq Chunks
  <2>1. I \in Nat
    BY <1>2, SizeNumbers DEF Bins
  <2> QED  BY <1>1, <2>1, ChunkFacts DEF TypeOK, Free, Shape, Rings
<1>4. /\ treemap \subseteq Bins /\ treebins \in [Bins -> Chunks \cup {null}]
      /\ node \in [Chunks -> malloc_tree_chunk]
  BY DEF TypeOK
<1>5. ASSUME NEW par \in Chunks \cup {null} \cup {Bin(J) : J \in Bins}
      PROVE  Alone(X, I, par) \in malloc_tree_chunk
  BY <1>2, <1>3, <1>5 DEF Alone, malloc_tree_chunk
<1>6. ASSUME Q[S] = <<>> PROVE R = [Q EXCEPT ![S] = <<X>>]
  <2>1. Append(Q[S], X) = <<X>>
    BY <1>3, <1>6
  <2> QED  BY <2>1
<1>7. CASE I \notin treemap
  <2>1. /\ treemap' = treemap \cup {I} /\ treebins' = [treebins EXCEPT ![I] = X]
        /\ node' = [node EXCEPT ![X] = Alone(X, I, Bin(I))]
    BY <1>1, <1>2, <1>7 DEF insert_large_chunk, Index
  <2>2. TypeOK'
    <3>1. Alone(X, I, Bin(I)) \in malloc_tree_chunk
      BY <1>2, <1>5
    <3>2. node' \in [Chunks -> malloc_tree_chunk]
      BY <1>4, <2>1, <3>1
    <3> QED  BY <1>2, <1>3, <1>4, <2>1, <3>2 DEF TypeOK
  <2>3. node'[X] = Alone(X, I, Bin(I)) /\ \A c \in Free : node'[c] = node[c]
    BY <1>3, <1>4, <2>1 DEF Free
  <2>4. Tries([lvl EXCEPT ![X] = 0])'
    BY <1>1, <1>2, <1>3, <1>7, <2>1, <2>3, TriesPlant
  <2>5. \A t \in TreeNodes : ChunkSize[t] # S
    <3> SUFFICES ASSUME NEW t \in TreeNodes, ChunkSize[t] = S PROVE FALSE
      OBVIOUS
    <3>1. treebins[I] # null
      BY <1>2, <1>3, DescentHits
    <3> QED  BY <1>2, <1>3, <1>7, <3>1 DEF Tries
  <2>6. Bin(I) # null
    BY <1>3 DEF Bin, null
  <2>7. Rings([Q EXCEPT ![S] = <<X>>])' /\ Q[S] = <<>>
    BY <1>1, <1>2, <1>3, <2>3, <2>5, <2>6, RingAlone
  <2>8. Rings(R)'
    BY <1>6, <2>7
  <2> QED  BY <1>3, <2>2, <2>4, <2>8 DEF Shape
<1>8. CASE I \in treemap
  <2>1. treebins[I] # null /\ UNCHANGED <<treemap, treebins>>
    <3>1. treebins[I] # null
      BY <1>2, <1>3, <1>8 DEF Tries
    <3>2. treemap' = treemap \cup {I} /\ UNCHANGED treebins
      BY <1>1, <1>2, <1>8 DEF insert_large_chunk, Index
    <3> QED  BY <1>8, <3>1, <3>2
  <2>2. PICK end : end = descend(treebins[I], S, sizebits(S, I))
    OBVIOUS
  <2>3. PICK T \in TreeNodes : T = end.at
    BY <1>2, <1>3, <2>1, <2>2, DescentFinds
  <2>4. T \in Chunks /\ T \in Free /\ T # X /\ T # null
    BY <1>3, NodeFacts
  <2>5. PICK F : F = node[T].fd
    OBVIOUS
  <2>6. node' = IF ChunkSize[T] # S
                THEN [node EXCEPT ![X] = Alone(X, I, T), ![T].child[end.digit] = X]
                ELSE [[node EXCEPT ![X] = [Alone(X, I, null) EXCEPT !.fd = F, !.bk = T],
                                   ![T].fd = X] EXCEPT ![F].bk = X]
    BY <1>1, <1>2, <1>8, <2>2, <2>3, <2>5 DEF insert_large_chunk, Index
  <2>7. CASE ChunkSize[T] # S
    <3>1. PICK d \in {0, 1} : d = end.digit
      BY <1>2, <1>3, <2>1, <2>2, <2>3, <2>7, DescentFinds
    <3>2. /\ Agree(X, T, lvl[T]) /\ lvl[T] \in 0 .. Digits(Index(X)) - 1
          /\ d = DigitOf(X, lvl[T]) /\ node[T].child[d] = null
      BY <1>2, <1>3, <2>1, <2>2, <2>3, <2>7, <3>1, DescentFinds
    <3>3. node' = [node EXCEPT ![X] = Alone(X, I, T), ![T].child[d] = X]
      BY <2>6, <2>7, <3>1
    <3>4. /\ node'[X] = Alone(X, I, T) /\ node'[T] = [node[T] EXCEPT !.child[d] = X]
          /\ \A c \in Free : c # T => node'[c] = node[c]
      BY <1>3, <1>4, <2>4, <3>3 DEF Free
    <3>5. node[T] \in malloc_tree_chunk
      BY <1>4, <2>4
    <3>6. /\ node'[T].child = [node[T].child EXCEPT ![d] = X] /\ node'[T].parent = node[T].parent
          /\ node'[T].index = node[T].index /\ node'[T].fd = node[T].fd /\ node'[T].bk = node[T].bk
      BY <3>4, <3>5 DEF malloc_tree_chunk
    <3>7. TypeOK'
      <4>1. Alone(X, I, T) \in malloc_tree_chunk
        BY <1>5, <2>4
      <4>2. [node[T] EXCEPT !.child[d] = X] \in malloc_tree_chunk
        BY <1>3, <3>5 DEF malloc_tree_chunk
      <4>3. node' = [[node EXCEPT ![X] = Alone(X, I, T)]
                       EXCEPT ![T] = [node[T] EXCEPT !.child[d] = X]]
        BY <1>4, <2>4, <3>3
      <4>4. node' \in [Chunks -> malloc_tree_chunk]
        BY <1>4, <4>1, <4>2, <4>3
      <4> QED  BY <1>3, <1>4, <2>1, <4>4 DEF TypeOK
    <3>8. Tries([lvl EXCEPT ![X] = lvl[T] + 1])'
      <4>1. \A c \in Free : /\ node'[c].parent = node[c].parent
                            /\ c # T => node'[c].child = node[c].child
        BY <3>4, <3>6
      <4> QED  BY <1>1, <1>2, <1>3, <2>1, <3>1, <3>2, <3>4, <3>6, <4>1, TriesGrow
    <3>9. \A t \in TreeNodes : ChunkSize[t] # S
      <4> SUFFICES ASSUME NEW t \in TreeNodes, ChunkSize[t] = S PROVE FALSE
        OBVIOUS
      <4>1. ChunkSize[end.at] = S
        BY <1>2, <1>3, <2>2, DescentHits
      <4> QED  BY <2>3, <2>7, <4>1
    <3>10. \A c \in Free : /\ node'[c].index = node[c].index /\ node'[c].fd = node[c].fd
                           /\ node'[c].bk = node[c].bk /\ node'[c].parent = node[c].parent
                           /\ node[c].parent = null => node'[c].child = node[c].child
      <4>1. node[T].parent # null
        BY NodeFacts, <1>3
      <4> QED  BY <3>4, <3>6, <4>1
    <3>11. Rings([Q EXCEPT ![S] = <<X>>])' /\ Q[S] = <<>>
      <4>1. X \in inuse /\ inuse' = inuse \ {X} /\ Rings(Q) /\ T # null
        BY <1>1, <1>3, <2>4
      <4>2. node'[X] = Alone(X, Index(X), T)
        BY <1>2, <3>4
      <4> QED  BY <3>9, <3>10, <4>1, <4>2, RingAlone
    <3>12. Rings(R)'
      BY <1>6, <3>11
    <3> QED  BY <1>3, <3>7, <3>8, <3>12 DEF Shape
  <2>8. CASE ChunkSize[T] = S
    <3>1. F \in Free /\ F \in Chunks /\ F # X
      <4>1. PICK q \in Seq(Chunks) : q = Q[S] /\ IsRing(q, S)
        BY <1>3 DEF Rings
      <4>2. Len(q) \in Nat /\ Len(q) >= 1 /\ q[1] = T
        BY <1>3, <2>8, <4>1, Distinct
      <4>3. node[T].fd = q[Len(q)] /\ q[Len(q)] \in Free
        BY <4>1, <4>2 DEF IsRing
      <4> QED  BY <1>3, <2>5, <4>3 DEF Free
    <3>2. PICK A : A = [Alone(X, I, null) EXCEPT !.fd = F, !.bk = T]
      OBVIOUS
    <3>3. /\ A \in malloc_tree_chunk /\ A.index = I /\ A.parent = null /\ A.fd = F /\ A.bk = T
          /\ A.child = [b \in {0, 1} |-> null]
      BY <1>2, <2>4, <3>1, <3>2 DEF Alone, malloc_tree_chunk
    <3>4. PICK n1 : n1 = [node EXCEPT ![X] = A, ![T].fd = X]
      OBVIOUS
    <3>5. node' = [n1 EXCEPT ![F].bk = X]
      BY <2>6, <2>8, <3>2, <3>4
    <3>6. n1 = [[node EXCEPT ![X] = A] EXCEPT ![T] = [node[T] EXCEPT !.fd = X]]
      BY <1>4, <2>4, <3>4
    <3>7. node[T] \in malloc_tree_chunk
      BY <1>4, <2>4
    <3>8. [node[T] EXCEPT !.fd = X] \in malloc_tree_chunk
      BY <1>3, <3>7 DEF malloc_tree_chunk
    <3>9. n1 \in [Chunks -> malloc_tree_chunk]
      BY <1>4, <3>3, <3>6, <3>8
    <3>10. /\ n1[X] = A /\ n1[T] = [node[T] EXCEPT !.fd = X]
           /\ \A c \in Free : c # T => n1[c] = node[c]
      BY <1>3, <1>4, <2>4, <3>6 DEF Free
    <3>11. \A c \in Free : /\ n1[c].index = node[c].index /\ n1[c].child = node[c].child
                           /\ n1[c].parent = node[c].parent /\ n1[c].bk = node[c].bk
                           /\ n1[c].fd = IF c = T THEN X ELSE node[c].fd
      BY <3>7, <3>10 DEF malloc_tree_chunk
    <3>12. n1[F] \in malloc_tree_chunk /\ [n1[F] EXCEPT !.bk = X] \in malloc_tree_chunk
      <4>1. n1[F] \in malloc_tree_chunk
        BY <3>1, <3>9
      <4> QED  BY <1>3, <4>1 DEF malloc_tree_chunk
    <3>13. node' \in [Chunks -> malloc_tree_chunk]
      BY <3>5, <3>9, <3>12
    <3>14. node'[X] = A /\ \A c \in Free : c # F => node'[c] = n1[c]
      BY <1>3, <3>1, <3>5, <3>9, <3>10 DEF Free
    <3>15. node'[F] = [n1[F] EXCEPT !.bk = X]
      BY <3>1, <3>5, <3>9
    <3>16. \A c \in Free : /\ node'[c].index = n1[c].index /\ node'[c].child = n1[c].child
                           /\ node'[c].parent = n1[c].parent /\ node'[c].fd = n1[c].fd
                           /\ node'[c].bk = IF c = F THEN X ELSE n1[c].bk
      BY <3>12, <3>14, <3>15 DEF malloc_tree_chunk
    <3>17. \A c \in Free : /\ node'[c].index = node[c].index /\ node'[c].child = node[c].child
                           /\ node'[c].parent = node[c].parent
                           /\ node'[c].fd = IF c = T THEN X ELSE node[c].fd
                           /\ node'[c].bk = IF c = node[T].fd THEN X ELSE node[c].bk
      BY <2>5, <3>11, <3>16
    <3>18. TypeOK'
      BY <1>3, <1>4, <2>1, <3>13 DEF TypeOK
    <3>19. Rings(R)'
      <4>1. /\ node'[X].index = Index(X) /\ node'[X].fd = node[T].fd /\ node'[X].bk = T
            /\ node'[X].parent = null
        BY <1>2, <2>5, <3>3, <3>14
      <4>2. Leaf(X)'
        BY <3>3, <3>14 DEF Leaf
      <4>3. ChunkSize[T] = ChunkSize[X] /\ X \in inuse /\ inuse' = inuse \ {X} /\ Rings(Q)
        BY <1>1, <1>3, <2>8
      <4> QED  BY <3>17, <4>1, <4>2, <4>3, RingAppend
    <3>20. TreeNodes' = TreeNodes
      BY <1>1, <1>3, <3>3, <3>14, <3>17 DEF TreeNodes, Free
    <3>21. Tries(lvl)'
      BY <1>3, <2>1, <3>17, <3>20, TriesSame DEF TreeNodes, Free
    <3> QED  BY <1>3, <3>18, <3>19, <3>21 DEF Shape
  <2> QED  BY <2>7, <2>8
<1> QED  BY <1>7, <1>8

(* R takes the place of the node X, and leaves the one it had. *)
LEMMA TriesReplace ==
  ASSUME TypeOK, NEW lvl, Tries(lvl), NEW X \in TreeNodes, inuse' = inuse \cup {X},
         NEW R \in Free, R # X, Agree(R, X, lvl[X]), \A t \in TreeNodes : node[t].parent # R,
         treemap' = treemap, NEW I, I = Index(X),
         treebins' = [treebins EXCEPT ![I] = IF @ = X THEN R ELSE @],
         node'[R].parent = node[X].parent,
         \A b \in {0, 1} :
            node'[R].child[b] = IF node[X].child[b] = R THEN null ELSE node[X].child[b],
         \A c \in Free \ {X, R} :
            node'[c].parent = IF node[c].parent = X THEN R ELSE node[c].parent,
         \A t \in TreeNodes \ {X, R} : \A b \in {0, 1} :
            node'[t].child[b] = IF node[t].child[b] = X THEN R
                                ELSE IF node[t].child[b] = R THEN null ELSE node[t].child[b]
  PROVE  Tries([lvl EXCEPT ![R] = lvl[X]])'
<1> DEFINE new == [lvl EXCEPT ![R] = lvl[X]]
<1>1. /\ X \in Chunks /\ X # null /\ X \in Free /\ node[X].parent # null /\ R \in Chunks /\ R # null
      /\ lvl \in [Chunks -> Nat] /\ lvl[X] \in Nat /\ Index(R) = I /\ I \in Bins
      /\ lvl[X] \in 0 .. Digits(I) /\ Digits(I) \in Nat /\ treebins \in [Bins -> Chunks \cup {null}]
  BY NodeFacts, ChunkFacts DEF TypeOK, Tries, Free, Agree
<1>2. TreeNodes' = (TreeNodes \ {X}) \cup {R}
  <2>1. R \in TreeNodes' /\ X \notin TreeNodes'
    BY <1>1 DEF TreeNodes, Free
  <2>2. ASSUME NEW c, c # R, c # X PROVE c \in TreeNodes' <=> c \in TreeNodes
    BY <1>1, <2>2 DEF TreeNodes, Free
  <2> QED  BY <2>1, <2>2
<1>3. new \in [Chunks -> Nat] /\ new[R] = lvl[X] /\ \A t \in Chunks : t # R => new[t] = lvl[t]
  BY <1>1
<1>4. \A t \in TreeNodes : t \in Free /\ t \in Chunks /\ t # null
  BY NodeFacts
<1>5. treebins'[I] = (IF treebins[I] = X THEN R ELSE treebins[I])
      /\ \A J \in Bins : J # I => treebins'[J] = treebins[J]
  BY <1>1
<1>6. \A J \in Bins : treebins[J] = X => J = I
  BY <1>1 DEF Tries
<1> HIDE DEF new
<1>7. ASSUME NEW t \in TreeNodes, t # X, t # R, IsRoot(t, lvl) PROVE IsRoot(t, new)'
  <2>1. t \in Chunks /\ Index(t) \in Bins /\ Index(t) \in Nat
    <3>1. t \in Chunks /\ Index(t) \in Bins
      BY NodeFacts, ChunkFacts
    <3> QED  BY <3>1, SizeNumbers DEF Bins
  <2>2. node[t].parent # X
    <3>1. X \in Nat /\ X > 0
      BY <1>1, ChunkFacts
    <3>2. node[t].parent < 0
      BY <1>7, <2>1 DEF IsRoot, Bin
    <3> QED  BY <3>1, <3>2
  <2>3. node'[t].parent = node[t].parent
    BY <1>4, <1>7, <2>2
  <2>4. treebins'[Index(t)] = treebins[Index(t)]
    BY <1>5, <1>7, <2>1 DEF IsRoot
  <2> QED  BY <1>3, <1>7, <2>1, <2>3, <2>4 DEF IsRoot
<1>8. ASSUME IsRoot(X, lvl) PROVE IsRoot(R, new)'
  BY <1>1, <1>3, <1>5, <1>8 DEF IsRoot
<1>9. ASSUME NEW t \in TreeNodes, NEW p \in TreeNodes, IsChild(t, p, lvl), t # X, t # R, p # X, p # R
      PROVE  IsChild(t, p, new)'
  <2>1. /\ node[t].parent = p /\ lvl[t] = lvl[p] + 1 /\ Agree(t, p, lvl[p])
        /\ node[p].child[DigitOf(t, lvl[p])] = t
    BY <1>9 DEF IsChild
  <2>2. PICK b \in {0, 1} : b = DigitOf(t, lvl[p])
    BY <1>9, ChildDigit
  <2>3. node'[p].child[b] = t
    BY <1>9, <2>1, <2>2
  <2>4. node'[t].parent = p
    BY <1>4, <1>9, <2>1
  <2> QED  BY <1>2, <1>3, <1>4, <1>9, <2>1, <2>2, <2>3, <2>4 DEF IsChild
<1>10. ASSUME NEW t \in TreeNodes, IsChild(t, X, lvl), t # R PROVE IsChild(t, R, new)'
  <2>1. /\ node[t].parent = X /\ lvl[t] = lvl[X] + 1 /\ Agree(t, X, lvl[X])
        /\ node[X].child[DigitOf(t, lvl[X])] = t
    BY <1>10 DEF IsChild
  <2>2. PICK b \in {0, 1} : b = DigitOf(t, lvl[X])
    BY <1>10, ChildDigit
  <2>3. node'[R].child[b] = t
    BY <1>10, <2>1, <2>2
  <2>4. t # X
    BY <1>1, <1>4, <2>1
  <2>5. node'[t].parent = R
    BY <1>4, <1>10, <2>1, <2>4
  <2>6. Agree(t, R, lvl[X])
    BY <2>1 DEF Agree
  <2> QED  BY <1>2, <1>3, <1>4, <1>10, <2>1, <2>2, <2>3, <2>5, <2>6 DEF IsChild
<1>11. ASSUME NEW p \in TreeNodes, IsChild(X, p, lvl) PROVE IsChild(R, p, new)' /\ p # X /\ p # R
  <2>1. /\ node[X].parent = p /\ lvl[X] = lvl[p] + 1 /\ Agree(X, p, lvl[p])
        /\ node[p].child[DigitOf(X, lvl[p])] = X /\ lvl[p] \in Nat
    BY <1>11, NodeFacts DEF IsChild
  <2>2. PICK b \in {0, 1} : b = DigitOf(X, lvl[p])
    BY <1>11, ChildDigit
  <2>3. p # X /\ p # R
    BY <2>1
  <2>4. node'[p].child[b] = R
    BY <2>1, <2>2, <2>3
  <2>5. Agree(R, X, lvl[p]) /\ DigitOf(R, lvl[p]) = DigitOf(X, lvl[p])
    <3>1. lvl[p] \in 0 .. lvl[X] /\ lvl[p] \in 0 .. lvl[X] - 1
      BY <1>1, <2>1
    <3>2. lvl[X] \in 0 .. Digits(Index(R))
      BY <1>1
    <3> QED  BY <1>1, <3>1, <3>2, AgreeFacts
  <2>6. Agree(R, p, lvl[p])
    BY <2>1, <2>5 DEF Agree
  <2> QED  BY <1>2, <1>3, <1>4, <2>1, <2>2, <2>3, <2>4, <2>5, <2>6 DEF IsChild
<1>12. ASSUME NEW J \in Bins
       PROVE  /\ J \in treemap' <=> treebins'[J] # null
              /\ treebins'[J] # null => treebins'[J] \in TreeNodes' /\ Index(treebins'[J]) = J
                                        /\ IsRoot(treebins[J], new)'
  <2>1. PICK r : r = treebins[J]
    OBVIOUS
  <2>2. /\ J \in treemap <=> r # null
        /\ r # null => r \in TreeNodes /\ Index(r) = J /\ IsRoot(r, lvl)
    BY <2>1 DEF Tries
  <2>3. CASE r = X
    <3>1. J = I /\ treebins'[J] = R /\ IsRoot(X, lvl)
      BY <1>1, <1>5, <1>6, <2>1, <2>2, <2>3
    <3>2. PICK z : z = treebins'[J] /\ z = R
      BY <3>1
    <3>3. IsRoot(z, new)'
      BY <1>8, <3>1, <3>2
    <3> QED  BY <1>1, <1>2, <2>2, <2>3, <3>1, <3>2, <3>3
  <2>4. CASE r # X
    <3>1. r = treebins'[J]
      BY <1>5, <2>1, <2>4
    <3>2. r # R
      <4>1. ASSUME r = R PROVE FALSE
        <5>1. R \in TreeNodes /\ IsRoot(R, lvl)
          BY <1>1, <2>2, <4>1
        <5>2. treebins[I] = R /\ lvl[R] = 0 /\ R # X
          BY <1>1, <5>1 DEF IsRoot
        <5>3. PICK a \in TreeNodes : lvl[a] = 0 /\ Agree(X, a, 0)
                                     /\ (0 < lvl[X] => node[a].child[DigitOf(X, 0)] # null)
          <6>1. 0 \in 0 .. lvl[X]
            BY <1>1
          <6> QED  BY <6>1, Ancestor
        <5>4. Agree(a, R, 0)
          BY <1>4, <1>1, <5>3, AgreeFirst DEF Agree
        <5>5. a = R
          BY <5>1, <5>2, <5>3, <5>4, Unique
        <5>6. CASE lvl[X] = 0
          <6>1. Agree(X, R, 0)
            BY <5>3, <5>5
          <6> QED  BY <5>1, <5>2, <5>6, <6>1, Unique
        <5>7. CASE 0 < lvl[X]
          <6>1. PICK b \in {0, 1} : b = DigitOf(X, 0)
            <7>1. 0 \in 0 .. Digits(Index(X)) - 1
              BY <1>1, <5>7
            <7> QED  BY <1>1, <7>1, AgreeNext
          <6>2. PICK c \in TreeNodes : c = node[R].child[b] /\ IsChild(c, R, lvl)
            BY <5>1, <5>3, <5>5, <5>7, <6>1, NodeFacts
          <6> QED  BY <6>2 DEF IsChild
        <5> QED  BY <1>1, <5>6, <5>7
      <4> QED  BY <4>1
    <3>3. r # null => IsRoot(r, new)'
      BY <1>7, <2>2, <2>4, <3>2
    <3> QED  BY <1>2, <2>2, <2>4, <3>1, <3>3
  <2> QED  BY <2>3, <2>4
<1>13. ASSUME NEW t \in TreeNodes'
       PROVE  /\ new[t] <= Digits(Index(t))
              /\ IsRoot(t, new)' \/ \E p \in TreeNodes' : IsChild(t, p, new)'
              /\ \A b \in {0, 1} : node'[t].child[b] # null =>
                    /\ node'[t].child[b] \in TreeNodes' /\ IsChild(node[t].child[b], t, new)'
                    /\ DigitOf(node'[t].child[b], new[t]) = b
  <2>1. CASE t = R
    <3>1. IsRoot(t, new)' \/ \E p \in TreeNodes' : IsChild(t, p, new)'
      <4>1. CASE IsRoot(X, lvl)
        BY <1>8, <2>1, <4>1
      <4>2. CASE \E p \in TreeNodes : IsChild(X, p, lvl)
        BY <1>2, <1>11, <2>1, <4>2
      <4> QED  BY <4>1, <4>2 DEF Tries
    <3>2. ASSUME NEW b \in {0, 1}, node'[t].child[b] # null
          PROVE  /\ node'[t].child[b] \in TreeNodes' /\ IsChild(node[t].child[b], t, new)'
                 /\ DigitOf(node'[t].child[b], new[t]) = b
      <4>1. PICK c : c = node'[t].child[b]
        OBVIOUS
      <4>2. c = node[X].child[b] /\ c # R /\ c # null
        BY <2>1, <3>2, <4>1
      <4>3. c \in TreeNodes /\ IsChild(c, X, lvl) /\ DigitOf(c, lvl[X]) = b
        BY <4>2, NodeFacts
      <4>4. IsChild(c, R, new)'
        BY <1>10, <4>2, <4>3
      <4>5. c # X
        BY <1>1, <4>3 DEF IsChild
      <4> QED  BY <1>2, <1>3, <2>1, <4>1, <4>3, <4>4, <4>5
    <3> QED  BY <1>1, <1>3, <2>1, <3>1, <3>2
  <2>2. CASE t # R
    <3>1. t \in TreeNodes /\ t # X
      BY <1>2, <2>2
    <3>2. IsRoot(t, new)' \/ \E p \in TreeNodes' : IsChild(t, p, new)'
      <4>1. CASE IsRoot(t, lvl)
        BY <1>7, <2>2, <3>1, <4>1
      <4>2. CASE \E p \in TreeNodes : IsChild(t, p, lvl)
        <5>1. PICK p \in TreeNodes : IsChild(t, p, lvl)
          BY <4>2
        <5>2. p # R
          BY <3>1, <5>1 DEF IsChild
        <5>3. CASE p = X
          BY <1>2, <1>10, <2>2, <3>1, <5>1, <5>3
        <5>4. CASE p # X
          BY <1>2, <1>9, <2>2, <3>1, <5>1, <5>2, <5>4
        <5> QED  BY <5>3, <5>4
      <4> QED  BY <3>1, <4>1, <4>2 DEF Tries
    <3>3. ASSUME NEW b \in {0, 1}, node'[t].child[b] # null
          PROVE  /\ node'[t].child[b] \in TreeNodes' /\ IsChild(node[t].child[b], t, new)'
                 /\ DigitOf(node'[t].child[b], new[t]) = b
      <4>1. PICK c : c = node'[t].child[b]
        OBVIOUS
      <4>2. PICK o : o = node[t].child[b]
        OBVIOUS
      <4>3. /\ c = IF o = X THEN R ELSE IF o = R THEN null ELSE o
            /\ c # null /\ o # R
        BY <2>2, <3>1, <3>3, <4>1, <4>2, <1>1
      <4>4. o \in TreeNodes /\ IsChild(o, t, lvl) /\ DigitOf(o, lvl[t]) = b
        <5>1. o # null
          BY <1>1, <4>3
        <5> QED  BY <3>1, <4>2, <5>1, NodeFacts
      <4>5. CASE o = X
        <5>1. c = R /\ IsChild(R, t, new)'
          BY <1>11, <3>1, <4>3, <4>4, <4>5
        <5>2. DigitOf(R, lvl[t]) = DigitOf(X, lvl[t])
          <6>1. lvl[X] = lvl[t] + 1 /\ lvl[t] \in Nat
            BY <3>1, <4>4, <4>5, NodeFacts DEF IsChild
          <6>2. lvl[t] \in 0 .. lvl[X] - 1 /\ lvl[X] \in 0 .. Digits(Index(R))
            BY <1>1, <6>1
          <6> QED  BY <1>1, <6>2, AgreeFacts
        <5> QED  BY <1>2, <1>3, <1>4, <2>2, <3>1, <4>1, <4>4, <4>5, <5>1, <5>2
      <4>6. CASE o # X
        <5>1. c = o
          BY <4>3, <4>6
        <5>2. IsChild(c, t, new)'
          BY <1>9, <2>2, <3>1, <4>3, <4>4, <4>6, <5>1
        <5> QED  BY <1>2, <1>3, <1>4, <2>2, <3>1, <4>1, <4>3, <4>4, <4>6, <5>1, <5>2
      <4> QED  BY <4>5, <4>6
    <3>4. new[t] <= Digits(Index(t))
      <4>1. new[t] = lvl[t]
        BY <1>3, <1>4, <2>2, <3>1
      <4> QED  BY <3>1, <4>1 DEF Tries
    <3> QED  BY <3>2, <3>3, <3>4
  <2> QED  BY <2>1, <2>2
<1>14. Tries(new)'
  BY <1>3, <1>12, <1>13 DEF Tries
<1> QED  BY <1>14 DEF new

(* The node X, which has no child, goes. *)
LEMMA TriesPrune ==
  ASSUME TypeOK, NEW lvl, Tries(lvl), NEW X \in TreeNodes, inuse' = inuse \cup {X}, Leaf(X),
         NEW I, I = Index(X),
         treebins' = [treebins EXCEPT ![I] = IF @ = X THEN null ELSE @],
         treemap' = IF treebins[I] = X THEN treemap \ {I} ELSE treemap,
         \A c \in Free \ {X} : node'[c].parent = node[c].parent,
         \A t \in TreeNodes \ {X} : \A b \in {0, 1} :
            node'[t].child[b] = IF node[t].child[b] = X THEN null ELSE node[t].child[b]
  PROVE  Tries(lvl)'
<1>1. /\ X \in Chunks /\ X # null /\ X \in Free /\ I \in Bins /\ lvl \in [Chunks -> Nat]
      /\ treebins \in [Bins -> Chunks \cup {null}]
  BY NodeFacts, ChunkFacts DEF TypeOK, Tries
<1>2. TreeNodes' = TreeNodes \ {X}
  BY <1>1 DEF TreeNodes, Free
<1>3. ASSUME NEW t \in TreeNodes PROVE ~IsChild(t, X, lvl)
  <2> SUFFICES ASSUME IsChild(t, X, lvl) PROVE FALSE
    OBVIOUS
  <2>1. PICK b \in {0, 1} : b = DigitOf(t, lvl[X])
    BY ChildDigit
  <2>2. node[X].child[b] = t /\ t # null
    BY <2>1, NodeFacts DEF IsChild
  <2> QED  BY <2>2 DEF Leaf
<1>4. \A t \in TreeNodes : t \in Free /\ t \in Chunks /\ t # null
  BY NodeFacts
<1>5. treebins'[I] = (IF treebins[I] = X THEN null ELSE treebins[I])
      /\ \A J \in Bins : J # I => treebins'[J] = treebins[J]
  BY <1>1
<1>6. \A J \in Bins : treebins[J] = X => J = I
  BY <1>1 DEF Tries
<1>7. ASSUME NEW t \in TreeNodes, t # X, IsRoot(t, lvl) PROVE IsRoot(t, lvl)'
  <2>1. t \in Chunks /\ Index(t) \in Bins
    BY NodeFacts, ChunkFacts
  <2>2. treebins'[Index(t)] = treebins[Index(t)]
    BY <1>5, <1>7, <2>1 DEF IsRoot
  <2> QED  BY <1>4, <1>7, <2>2 DEF IsRoot
<1>9. ASSUME NEW t \in TreeNodes, NEW p \in TreeNodes, IsChild(t, p, lvl), t # X
      PROVE  IsChild(t, p, lvl)' /\ p # X
  <2>1. p # X
    BY <1>3, <1>9
  <2>2. PICK b \in {0, 1} : b = DigitOf(t, lvl[p])
    BY <1>9, ChildDigit
  <2>3. node[p].child[b] = t /\ node[t].parent = p
    BY <1>9, <2>2 DEF IsChild
  <2>4. node'[p].child[b] = t /\ node'[t].parent = p
    BY <1>4, <1>9, <2>1, <2>3
  <2> QED  BY <1>2, <1>9, <2>1, <2>2, <2>4 DEF IsChild
<1>12. ASSUME NEW J \in Bins
       PROVE  /\ J \in treemap' <=> treebins'[J] # null
              /\ treebins'[J] # null => treebins'[J] \in TreeNodes' /\ Index(treebins'[J]) = J
                                        /\ IsRoot(treebins[J], lvl)'
  <2>1. PICK r : r = treebins[J]
    OBVIOUS
  <2>2. /\ J \in treemap <=> r # null
        /\ r # null => r \in TreeNodes /\ Index(r) = J /\ IsRoot(r, lvl)
    BY <2>1 DEF Tries
  <2>3. CASE r = X
    BY <1>1, <1>5, <1>6, <2>1, <2>3
  <2>4. CASE r # X
    <3>1. r = treebins'[J] /\ (J \in treemap' <=> J \in treemap)
      BY <1>5, <2>1, <2>4
    <3>3. r # null => IsRoot(r, lvl)'
      BY <1>7, <2>2, <2>4
    <3> QED  BY <1>2, <2>2, <2>4, <3>1, <3>3
  <2> QED  BY <2>3, <2>4
<1>13. ASSUME NEW t \in TreeNodes'
       PROVE  /\ lvl[t] <= Digits(Index(t))
              /\ IsRoot(t, lvl)' \/ \E p \in TreeNodes' : IsChild(t, p, lvl)'
              /\ \A b \in {0, 1} : node'[t].child[b] # null =>
                    /\ node'[t].child[b] \in TreeNodes' /\ IsChild(node[t].child[b], t, lvl)'
                    /\ DigitOf(node'[t].child[b], lvl[t]) = b
  <2>1. t \in TreeNodes /\ t # X
    BY <1>2
  <2>2. lvl[t] <= Digits(Index(t)) /\ (IsRoot(t, lvl) \/ \E p \in TreeNodes : IsChild(t, p, lvl))
    BY <2>1 DEF Tries
  <2>3. ASSUME NEW b \in {0, 1}, node'[t].child[b] # null
        PROVE  /\ node'[t].child[b] \in TreeNodes' /\ IsChild(node[t].child[b], t, lvl)'
               /\ DigitOf(node'[t].child[b], lvl[t]) = b
    <3>1. PICK c : c = node'[t].child[b]
      OBVIOUS
    <3>2. c = node[t].child[b] /\ c # X /\ c # null
      BY <2>1, <2>3, <3>1
    <3>3. c \in TreeNodes /\ IsChild(c, t, lvl) /\ DigitOf(c, lvl[t]) = b
      BY <2>1, <3>2, NodeFacts
    <3>4. IsChild(c, t, lvl)'
      BY <1>9, <2>1, <3>2, <3>3
    <3> QED  BY <1>2, <3>1, <3>2, <3>3, <3>4
  <2> QED  BY <1>2, <1>7, <1>9, <2>1, <2>2, <2>3
<1> QED  BY <1>1, <1>12, <1>13 DEF Tries

(* RemoveAt closes the gap. *)
LEMMA RemoveAtIs ==
  ASSUME NEW q \in Seq(Chunks), NEW i \in 1 .. Len(q)
  PROVE  /\ Queues!RemoveAt(q, i) \in Seq(Chunks)
         /\ Len(Queues!RemoveAt(q, i)) = Len(q) - 1
         /\ \A j \in 1 .. Len(q) - 1 :
               Queues!RemoveAt(q, i)[j] = IF j < i THEN q[j] ELSE q[j + 1]
<1> DEFINE a == SubSeq(q, 1, i - 1)
           b == SubSeq(q, i + 1, Len(q))
<1>1. PICK n \in Nat : n = Len(q) /\ i \in 1 .. n /\ \A j \in 1 .. n : q[j] \in Chunks
  OBVIOUS
<1>2. a \in Seq(Chunks) /\ Len(a) = i - 1 /\ \A j \in 1 .. i - 1 : a[j] = q[j]
  BY <1>1
<1>3. b \in Seq(Chunks) /\ Len(b) = n - i /\ \A j \in 1 .. n - i : b[j] = q[i + j]
  BY <1>1
<1>4. PICK r : r = Queues!RemoveAt(q, i) /\ r = a \o b
  BY DEF Queues!RemoveAt
<1> HIDE DEF a, b
<1>5. r \in Seq(Chunks) /\ Len(r) = n - 1
  BY <1>1, <1>2, <1>3, <1>4
<1>6. ASSUME NEW j \in 1 .. n - 1 PROVE r[j] = IF j < i THEN q[j] ELSE q[j + 1]
  <2>1. CASE j < i
    BY <1>1, <1>2, <1>3, <1>4, <2>1
  <2>2. CASE i <= j
    <3>1. PICK k \in 1 .. n - i : k = j - (i - 1) /\ i + k = j + 1
      BY <1>1, <2>2
    <3>2. r[j] = b[k]
      BY <1>1, <1>2, <1>3, <1>4, <2>2, <3>1
    <3> QED  BY <1>3, <2>2, <3>1, <3>2
  <2> QED  BY <1>1, <2>1, <2>2
<1> QED  BY <1>1, <1>4, <1>5, <1>6

(* X leaves its ring, in which it has the place k; if it was the head, the *)
(* next is the head now.                                                   *)
LEMMA RingsRemove ==
  ASSUME TypeOK, NEW Q, Rings(Q), NEW X \in Free, inuse' = inuse \cup {X},
         NEW s, s = ChunkSize[X], NEW k \in 1 .. Len(Q[s]), Q[s][k] = X,
         \A c \in Free \ {X} :
            /\ node'[c].index = node[c].index
            /\ node'[c].bk = IF node[c].bk = X THEN node[X].bk ELSE node[c].bk
            /\ node'[c].fd = IF node[c].fd = X THEN node[X].fd ELSE node[c].fd
            /\ node'[c].parent # null <=>
                  node[c].parent # null \/ (k = 1 /\ Len(Q[s]) > 1 /\ c = Q[s][2])
            /\ node'[c].parent = null => node'[c].child = node[c].child
  PROVE  Rings([Q EXCEPT ![s] = Queues!RemoveAt(@, k)])'
<1>1. /\ X \in Chunks /\ s \in AllSizes /\ Q \in [AllSizes -> Seq(Chunks)]
      /\ X \notin inuse /\ Free' = Free \ {X}
  BY ChunkFacts DEF TypeOK, Rings, Free
<1>2. PICK q \in Seq(Chunks) : q = Q[s] /\ IsRing(q, s)
  BY <1>1 DEF Rings
<1>3. PICK n \in Nat : n = Len(q) /\ k \in 1 .. n
  BY <1>2
<1>4. /\ \A i \in 1 .. n :
           /\ q[i] \in Free /\ ChunkSize[q[i]] = s /\ node[q[i]].index = compute_tree_index(s)
           /\ node[q[i]].bk = q[IF i = n THEN 1 ELSE i + 1]
           /\ node[q[i]].fd = q[IF i = 1 THEN n ELSE i - 1]
           /\ (node[q[i]].parent # null) <=> (i = 1)
           /\ i # 1 => Leaf(q[i])
      /\ \A i, j \in 1 .. n : q[i] = q[j] => i = j
      /\ q[k] = X
  BY <1>2, <1>3 DEF IsRing
<1>5. PICK r : r = Queues!RemoveAt(q, k)
  OBVIOUS
<1>6. /\ r \in Seq(Chunks) /\ Len(r) = n - 1
      /\ \A j \in 1 .. n - 1 : r[j] = IF j < k THEN q[j] ELSE q[j + 1]
  <2>1. k \in 1 .. Len(q) /\ Len(q) = n
    BY <1>3
  <2>2. /\ r \in Seq(Chunks) /\ Len(r) = Len(q) - 1
        /\ \A j \in 1 .. Len(q) - 1 : r[j] = IF j < k THEN q[j] ELSE q[j + 1]
    BY <1>5, <2>1, RemoveAtIs
  <2> QED  BY <2>1, <2>2
<1> DEFINE R == [Q EXCEPT ![s] = Queues!RemoveAt(@, k)]
<1>7. R[s] = r /\ (\A z \in AllSizes : z # s => R[z] = Q[z]) /\ R \in [AllSizes -> Seq(Chunks)]
  BY <1>1, <1>2, <1>5, <1>6
<1>8. ASSUME NEW j \in 1 .. n - 1
      PROVE  /\ r[j] \in Free' /\ ChunkSize[r[j]] = s /\ node'[r[j]].index = compute_tree_index(s)
             /\ node'[r[j]].bk = r[IF j = n - 1 THEN 1 ELSE j + 1]
             /\ node'[r[j]].fd = r[IF j = 1 THEN n - 1 ELSE j - 1]
             /\ (node'[r[j]].parent # null) <=> (j = 1)
             /\ j # 1 => Leaf(r[j])'
  <2>1. PICK i \in 1 .. n : i = (IF j < k THEN j ELSE j + 1) /\ r[j] = q[i] /\ i # k
    <3>1. (IF j < k THEN j ELSE j + 1) \in 1 .. n
      BY <1>3
    <3> QED  BY <1>3, <1>6, <3>1
  <2>2. PICK c : c = q[i] /\ r[j] = c
    BY <2>1
  <2>3. /\ c \in Free \ {X} /\ ChunkSize[c] = s /\ node[c].index = compute_tree_index(s)
        /\ node[c].bk = q[IF i = n THEN 1 ELSE i + 1]
        /\ node[c].fd = q[IF i = 1 THEN n ELSE i - 1]
        /\ (node[c].parent # null) <=> (i = 1)
        /\ i # 1 => Leaf(c)
    <3>1. /\ q[i] \in Free /\ ChunkSize[q[i]] = s /\ node[q[i]].index = compute_tree_index(s)
          /\ node[q[i]].bk = q[IF i = n THEN 1 ELSE i + 1]
          /\ node[q[i]].fd = q[IF i = 1 THEN n ELSE i - 1]
          /\ (node[q[i]].parent # null) <=> (i = 1)
          /\ i # 1 => Leaf(q[i])
      BY <1>4
    <3>2. q[i] # X
      BY <1>3, <1>4, <2>1
    <3> QED  BY <2>2, <3>1, <3>2
  <2>4. /\ node[X].bk = q[IF k = n THEN 1 ELSE k + 1]
        /\ node[X].fd = q[IF k = 1 THEN n ELSE k - 1]
    BY <1>3, <1>4
  <2>5. node'[c].bk = r[IF j = n - 1 THEN 1 ELSE j + 1]
    <3>0. node'[c].bk = IF node[c].bk = X THEN node[X].bk ELSE node[c].bk
      BY <2>3
    <3>1. CASE i # n /\ i + 1 = k
      <4>1. node'[c].bk = q[IF k = n THEN 1 ELSE k + 1]
        BY <1>4, <2>3, <2>4, <3>0, <3>1
      <4>2. CASE k = n
        <5>1. j = n - 1 /\ 1 \in 1 .. n - 1 /\ 1 < k
          BY <1>3, <2>1, <3>1, <4>2
        <5> QED  BY <1>6, <4>1, <4>2, <5>1
      <4>3. CASE k # n
        <5>1. j # n - 1 /\ j + 1 = k /\ k \in 1 .. n - 1
          BY <1>3, <2>1, <3>1, <4>3
        <5> QED  BY <1>6, <4>1, <4>3, <5>1
      <4> QED  BY <4>2, <4>3
    <3>2. CASE i = n /\ k = 1
      <4>1. k # n /\ j = n - 1 /\ 1 \in 1 .. n - 1
        BY <1>3, <2>1, <3>2
      <4>2. node'[c].bk = q[2]
        BY <1>4, <2>3, <2>4, <3>0, <3>2, <4>1
      <4> QED  BY <1>6, <3>2, <4>1, <4>2
    <3>3. CASE i = n /\ k # 1
      <4>1. q[1] # X /\ j = n - 1 /\ 1 \in 1 .. n - 1 /\ 1 < k
        BY <1>3, <1>4, <2>1, <3>3
      <4> QED  BY <1>6, <2>3, <3>0, <3>3, <4>1
    <3>4. CASE i # n /\ i + 1 # k
      <4>1. i + 1 \in 1 .. n /\ q[i + 1] # X
        BY <1>3, <1>4, <3>4
      <4>2. node'[c].bk = q[i + 1]
        BY <2>3, <3>0, <3>4, <4>1
      <4>3. j # n - 1 /\ j + 1 \in 1 .. n - 1 /\ i + 1 = IF j + 1 < k THEN j + 1 ELSE (j + 1) + 1
        BY <1>3, <2>1, <3>4
      <4> QED  BY <1>6, <4>2, <4>3
    <3> QED  BY <3>1, <3>2, <3>3, <3>4
  <2>6. node'[c].fd = r[IF j = 1 THEN n - 1 ELSE j - 1]
    <3>0. node'[c].fd = IF node[c].fd = X THEN node[X].fd ELSE node[c].fd
      BY <2>3
    <3>1. CASE i # 1 /\ i - 1 = k
      <4>1. node'[c].fd = q[IF k = 1 THEN n ELSE k - 1]
        BY <1>4, <2>3, <2>4, <3>0, <3>1
      <4>2. CASE k = 1
        <5>1. j = 1 /\ n - 1 \in 1 .. n - 1 /\ ~(n - 1 < k) /\ (n - 1) + 1 = n
          BY <1>3, <2>1, <3>1, <4>2
        <5> QED  BY <1>6, <4>1, <4>2, <5>1
      <4>3. CASE k # 1
        <5>1. j # 1 /\ j - 1 = k - 1 /\ k - 1 \in 1 .. n - 1 /\ k - 1 < k
          BY <1>3, <2>1, <3>1, <4>3
        <5> QED  BY <1>6, <4>1, <4>3, <5>1
      <4> QED  BY <4>2, <4>3
    <3>2. CASE i = 1 /\ k = n
      <4>1. k # 1 /\ j = 1 /\ n - 1 \in 1 .. n - 1 /\ n - 1 < k
        BY <1>3, <2>1, <3>2
      <4>2. node'[c].fd = q[n - 1]
        BY <1>4, <2>3, <2>4, <3>0, <3>2, <4>1
      <4> QED  BY <1>6, <3>2, <4>1, <4>2
    <3>3. CASE i = 1 /\ k # n
      <4>1. n \in 1 .. n /\ q[n] # X /\ j = 1 /\ n - 1 \in 1 .. n - 1
            /\ ~(n - 1 < k) /\ (n - 1) + 1 = n
        BY <1>3, <1>4, <2>1, <3>3
      <4> QED  BY <1>6, <2>3, <3>0, <3>3, <4>1
    <3>4. CASE i # 1 /\ i - 1 # k
      <4>1. i - 1 \in 1 .. n /\ q[i - 1] # X
        BY <1>3, <1>4, <3>4
      <4>2. node'[c].fd = q[i - 1]
        BY <2>3, <3>0, <3>4, <4>1
      <4>3. j # 1 /\ j - 1 \in 1 .. n - 1 /\ i - 1 = IF j - 1 < k THEN j - 1 ELSE (j - 1) + 1
        BY <1>3, <2>1, <3>4
      <4> QED  BY <1>6, <4>2, <4>3
    <3> QED  BY <3>1, <3>2, <3>3, <3>4
  <2>7. (node'[c].parent # null) <=> (j = 1)
    <3>1. node'[c].parent # null <=> node[c].parent # null \/ (k = 1 /\ n > 1 /\ c = q[2])
      BY <1>2, <1>3, <2>3
    <3>2. CASE k = 1
      <4>1. i = j + 1 /\ i # 1 /\ n > 1 /\ 2 \in 1 .. n
        BY <1>3, <2>1, <3>2
      <4>2. c = q[2] <=> i = 2
        BY <1>4, <2>2, <4>1
      <4>3. i = 2 <=> j = 1
        BY <4>1
      <4> QED  BY <2>3, <3>1, <3>2, <4>1, <4>2, <4>3
    <3>3. CASE k # 1
      <4>1. i = 1 <=> j = 1
        BY <1>3, <2>1, <3>3
      <4> QED  BY <2>3, <3>1, <3>3, <4>1
    <3> QED  BY <3>2, <3>3
  <2>8. j # 1 => Leaf(c)'
    <3> SUFFICES ASSUME j # 1 PROVE Leaf(c)'
      OBVIOUS
    <3>1. i # 1
      BY <1>3, <2>1
    <3>2. node'[c].child = node[c].child
      BY <2>3, <2>7
    <3> QED  BY <2>3, <3>1, <3>2 DEF Leaf
  <2> QED  BY <1>1, <2>2, <2>3, <2>5, <2>6, <2>7, <2>8
<1>9. IsRing(r, s)'
  <2>1. ASSUME NEW i \in 1 .. Len(r), NEW j \in 1 .. Len(r), r[i] = r[j] PROVE i = j
    <3>1. PICK a \in 1 .. n : a = (IF i < k THEN i ELSE i + 1) /\ r[i] = q[a]
      <4>1. (IF i < k THEN i ELSE i + 1) \in 1 .. n
        BY <1>3, <1>6
      <4> QED  BY <1>3, <1>6, <4>1
    <3>2. PICK b \in 1 .. n : b = (IF j < k THEN j ELSE j + 1) /\ r[j] = q[b]
      <4>1. (IF j < k THEN j ELSE j + 1) \in 1 .. n
        BY <1>3, <1>6
      <4> QED  BY <1>3, <1>6, <4>1
    <3>3. a = b
      <4>1. q[a] = q[b]
        BY <2>1, <3>1, <3>2
      <4> QED  BY <1>4, <4>1
    <3> QED  BY <1>3, <1>6, <3>1, <3>2, <3>3
  <2>2. ASSUME NEW j \in 1 .. Len(r)
        PROVE  /\ r[j] \in Free' /\ ChunkSize[r[j]] = s /\ node'[r[j]].index = compute_tree_index(s)
               /\ node'[r[j]].bk = r[IF j = Len(r) THEN 1 ELSE j + 1]
               /\ node'[r[j]].fd = r[IF j = 1 THEN Len(r) ELSE j - 1]
               /\ (node'[r[j]].parent # null) <=> (j = 1)
               /\ j # 1 => Leaf(r[j])'
    <3>1. Len(r) = n - 1 /\ j \in 1 .. n - 1
      BY <1>6
    <3>2. /\ r[j] \in Free' /\ ChunkSize[r[j]] = s /\ node'[r[j]].index = compute_tree_index(s)
          /\ (node'[r[j]].parent # null) <=> (j = 1)
          /\ j # 1 => Leaf(r[j])'
      BY <1>8, <3>1
    <3>3. /\ node'[r[j]].bk = r[IF j = n - 1 THEN 1 ELSE j + 1]
          /\ node'[r[j]].fd = r[IF j = 1 THEN n - 1 ELSE j - 1]
      BY <1>8, <3>1
    <3>4. /\ node'[r[j]].bk = r[IF j = Len(r) THEN 1 ELSE j + 1]
          /\ node'[r[j]].fd = r[IF j = 1 THEN Len(r) ELSE j - 1]
      BY <3>1, <3>3
    <3> QED  BY <3>2, <3>4
  <2> QED  BY <1>6, <2>1, <2>2 DEF IsRing
<1>10. ASSUME NEW z \in AllSizes, z # s PROVE IsRing(R[z], z)'
  <2>1. PICK p \in Seq(Chunks) : p = Q[z] /\ IsRing(p, z) /\ R[z] = p
    BY <1>1, <1>7, <1>10 DEF Rings
  <2>3. PICK m \in Nat : m = Len(p)
    OBVIOUS
  <2>4. ASSUME NEW i \in 1 .. m
        PROVE  /\ p[i] \in Free /\ p[i] # X /\ ChunkSize[p[i]] = z
               /\ node[p[i]].index = compute_tree_index(z)
               /\ node[p[i]].bk = p[IF i = m THEN 1 ELSE i + 1]
               /\ node[p[i]].fd = p[IF i = 1 THEN m ELSE i - 1]
               /\ (node[p[i]].parent # null) <=> (i = 1)
               /\ i # 1 => Leaf(p[i])
    BY <1>10, <2>1, <2>3 DEF IsRing
  <2>5. ASSUME NEW j \in 1 .. Len(p)
        PROVE  /\ p[j] \in Free' /\ ChunkSize[p[j]] = z /\ node'[p[j]].index = compute_tree_index(z)
               /\ node'[p[j]].bk = p[IF j = Len(p) THEN 1 ELSE j + 1]
               /\ node'[p[j]].fd = p[IF j = 1 THEN Len(p) ELSE j - 1]
               /\ (node'[p[j]].parent # null) <=> (j = 1)
               /\ j # 1 => Leaf(p[j])'
    <3>1. PICK c : c = p[j]
      OBVIOUS
    <3>2. j \in 1 .. m
      BY <2>3
    <3>3. /\ c \in Free \ {X} /\ ChunkSize[c] = z /\ node[c].index = compute_tree_index(z)
          /\ node[c].bk = p[IF j = m THEN 1 ELSE j + 1]
          /\ node[c].fd = p[IF j = 1 THEN m ELSE j - 1]
          /\ (node[c].parent # null) <=> (j = 1)
          /\ j # 1 => Leaf(c)
      BY <2>4, <3>1, <3>2
    <3>4. (IF j = m THEN 1 ELSE j + 1) \in 1 .. m /\ (IF j = 1 THEN m ELSE j - 1) \in 1 .. m
      BY <3>2
    <3>5. node[c].bk # X /\ node[c].fd # X
      BY <2>4, <3>3, <3>4
    <3>6. ~(k = 1 /\ Len(Q[s]) > 1 /\ c = Q[s][2])
      <4>1. k = 1 /\ n > 1 => 2 \in 1 .. n
        OBVIOUS
      <4> QED  BY <1>2, <1>3, <1>4, <1>10, <3>3, <4>1
    <3>7. /\ node'[c].index = node[c].index /\ node'[c].bk = node[c].bk /\ node'[c].fd = node[c].fd
          /\ node'[c].parent # null <=> node[c].parent # null
          /\ node'[c].parent = null => node'[c].child = node[c].child
      BY <3>3, <3>5, <3>6
    <3>8. j # 1 => Leaf(c)'
      BY <3>3, <3>7 DEF Leaf
    <3> QED  BY <1>1, <2>3, <3>1, <3>3, <3>7, <3>8
  <2>6. IsRing(p, z)'
    <3>1. \A i, j \in 1 .. Len(p) : p[i] = p[j] => i = j
      BY <2>1 DEF IsRing
    <3> QED  BY <2>5, <3>1 DEF IsRing
  <2> QED  BY <2>1, <2>6
<1>11. ASSUME NEW c \in Free' PROVE \E j \in 1 .. Len(R[ChunkSize[c]]) : R[ChunkSize[c]][j] = c
  <2>1. c \in Free /\ c # X /\ c \in Chunks /\ ChunkSize[c] \in AllSizes
    BY <1>1, ChunkFacts DEF Free
  <2>2. PICK i \in 1 .. Len(Q[ChunkSize[c]]) : Q[ChunkSize[c]][i] = c
    BY <2>1 DEF Rings
  <2>3. CASE ChunkSize[c] # s
    BY <1>7, <2>1, <2>2, <2>3
  <2>4. CASE ChunkSize[c] = s
    <3>1. i \in 1 .. n /\ q[i] = c /\ i # k
      BY <1>2, <1>3, <1>4, <2>1, <2>2, <2>4
    <3>2. PICK j \in 1 .. n - 1 : i = IF j < k THEN j ELSE j + 1
      <4>1. CASE i < k
        <5>1. i \in 1 .. n - 1
          BY <1>3, <3>1, <4>1
        <5> QED  BY <4>1, <5>1
      <4>2. CASE k < i
        <5>1. i - 1 \in 1 .. n - 1 /\ ~(i - 1 < k) /\ (i - 1) + 1 = i
          BY <1>3, <3>1, <4>2
        <5> QED  BY <5>1
      <4> QED  BY <1>3, <3>1, <4>1, <4>2
    <3>3. r[j] = c /\ j \in 1 .. Len(r)
      BY <1>6, <3>1, <3>2
    <3> QED  BY <1>7, <2>4, <3>3
  <2> QED  BY <2>3, <2>4
<1> HIDE DEF R
<1>12. Rings(R)'
  BY <1>7, <1>9, <1>10, <1>11 DEF Rings
<1> QED  BY <1>12 DEF R

-------------------------------------------------------------------------------
(* Removal from a trie.                                                    *)
LastDigit(t) == IF node[t].child[1] # null THEN 1 ELSE 0

IsRightmost(f) ==
    \A t \in Chunks :
        f[t] = LET C == node[t].child[LastDigit(t)]
               IN IF Leaf(t) \/ Leaf(C) THEN [leaf |-> C, of |-> t, digit |-> LastDigit(t)]
                  ELSE f[C]

(* A node that is not a leaf has a last child. *)
LEMMA LastChild ==
  ASSUME TypeOK, NEW t \in Chunks, ~Leaf(t)
  PROVE  LastDigit(t) \in {0, 1} /\ node[t].child[LastDigit(t)] # null
         /\ node[t].child[LastDigit(t)] \in Chunks
<1>1. node[t].child \in [{0, 1} -> Chunks \cup {null}]
  BY DEF TypeOK, malloc_tree_chunk
<1>2. CASE node[t].child[1] # null
  BY <1>1, <1>2 DEF LastDigit
<1>3. CASE node[t].child[1] = null
  <2>1. node[t].child[0] # null
    <3> SUFFICES ASSUME node[t].child[0] = null PROVE FALSE
      OBVIOUS
    <3>1. \A b \in {0, 1} : node[t].child[b] = null
      BY <1>3
    <3>2. node[t].child = [b \in {0, 1} |-> null]
      BY <1>1, <3>1
    <3> QED  BY <3>2 DEF Leaf
  <2> QED  BY <1>1, <1>3, <2>1 DEF LastDigit
<1> QED  BY <1>2, <1>3

(* The walk to the rightmost leaf is defined. *)
LEMMA RightmostIs ==
  ASSUME TypeOK
  PROVE  \E f : IsRightmost(f) /\ \A X : rightmost_leaf(X) = f[X]
<1> DEFINE C(t) == node[t].child[LastDigit(t)]
           R(t) == [leaf |-> C(t), of |-> t, digit |-> LastDigit(t)]
           eqn(h) == [t \in Chunks |-> IF Leaf(t) \/ Leaf(C(t)) THEN R(t) ELSE h[C(t)]]
           w == CHOOSE h : h = eqn(h)
<1>1. \E h : h = eqn(h)
  <2> DEFINE ends == {t \in Chunks : Leaf(t) \/ Leaf(C(t))}
             next == [t \in Chunks \ ends |-> C(t)]
             res == [t \in Chunks |-> R(t)]
  <2>1. next \in [Chunks \ ends -> Chunks]
    BY LastChild
  <2>2. PICK f : f = [q \in Chunks |-> IF q \in ends THEN res[q] ELSE f[next[q]]]
    <3> HIDE DEF next, res, ends
    <3> QED  BY <2>1, WalkValue
  <2>4. f = eqn(f)
    <3>1. ASSUME NEW q \in Chunks PROVE f[q] = eqn(f)[q]
      <4>1. CASE q \in ends
        BY <2>2, <4>1
      <4>2. CASE q \notin ends
        BY <2>2, <4>2
      <4> QED  BY <4>1, <4>2
    <3>2. f = [q \in Chunks |-> f[q]]
      BY <2>2
    <3> QED  BY <3>1, <3>2
  <2> QED  BY <2>4
<1>2. w = eqn(w)
  <2> HIDE DEF eqn
  <2> QED  BY <1>1
<1>3. \A X : rightmost_leaf(X) = w[X]
  BY DEF rightmost_leaf, LastDigit
<1>4. IsRightmost(w)
  <2> SUFFICES ASSUME NEW t \in Chunks
               PROVE  w[t] = IF Leaf(t) \/ Leaf(C(t)) THEN R(t) ELSE w[C(t)]
    BY DEF IsRightmost
  <2> HIDE DEF w
  <2> QED  BY <1>2
<1> QED  BY <1>3, <1>4

(* The rightmost leaf of a node that has children is a leaf below it, and  *)
(* the pointer to it is one of a node that is the same or below.           *)
LEMMA RightmostLeaf ==
  ASSUME TypeOK, NEW lvl, Tries(lvl), NEW X \in TreeNodes, ~Leaf(X),
         NEW last, last = rightmost_leaf(X)
  PROVE  /\ last.of \in TreeNodes /\ Under(X, last.of, lvl) /\ last.digit \in {0, 1}
         /\ last.leaf \in TreeNodes /\ node[last.of].child[last.digit] = last.leaf
         /\ Leaf(last.leaf)
<1> DEFINE D == Digits(Index(X))
           Ok(e) == /\ e.of \in TreeNodes /\ Under(X, e.of, lvl) /\ e.digit \in {0, 1}
                    /\ e.leaf \in TreeNodes /\ node[e.of].child[e.digit] = e.leaf
                    /\ Leaf(e.leaf)
<1>1. X \in Chunks /\ D \in Nat /\ lvl[X] \in 0 .. D
  BY NodeFacts, ChunkFacts
<1>2. PICK f : IsRightmost(f) /\ \A Y : rightmost_leaf(Y) = f[Y]
  BY RightmostIs
<1> DEFINE Good(j) == \A t \in TreeNodes : lvl[t] = j /\ ~Leaf(t) /\ Under(X, t, lvl) => Ok(f[t])
           T == {k \in 0 .. D : Good(D - k)}
<1>3. ASSUME NEW t \in TreeNodes, ~Leaf(t), Under(X, t, lvl)
      PROVE  /\ t \in Chunks /\ LastDigit(t) \in {0, 1} /\ lvl[t] \in 0 .. D - 1
             /\ node[t].child[LastDigit(t)] \in TreeNodes
             /\ lvl[node[t].child[LastDigit(t)]] = lvl[t] + 1
             /\ Under(X, node[t].child[LastDigit(t)], lvl)
  <2>1. t \in Chunks /\ LastDigit(t) \in {0, 1} /\ node[t].child[LastDigit(t)] # null
    BY <1>3, LastChild, NodeFacts
  <2>2. PICK b \in {0, 1} : b = LastDigit(t)
    BY <2>1
  <2>3. PICK c \in TreeNodes : /\ c = node[t].child[b] /\ IsChild(c, t, lvl)
                               /\ lvl[t] \in 0 .. Digits(Index(t)) - 1
    BY <2>1, <2>2, NodeFacts
  <2>4. Under(t, c, lvl)
    <3>1. lvl[c] \in Nat /\ lvl[t] \in Nat
      BY NodeFacts
    <3> QED  BY <2>3, <3>1 DEF Under, IsChild
  <2>5. Under(X, c, lvl)
    BY <1>1, <1>3, <2>4, UnderUnder
  <2>6. Index(t) = Index(X)
    BY <1>3 DEF Under, Agree
  <2> QED  BY <2>1, <2>2, <2>3, <2>5, <2>6 DEF IsChild
<1>4. ASSUME NEW j \in 0 .. D - 1, Good(j + 1) PROVE Good(j)
  <2> SUFFICES ASSUME NEW t \in TreeNodes, lvl[t] = j, ~Leaf(t), Under(X, t, lvl)
               PROVE  Ok(f[t])
    OBVIOUS
  <2>1. PICK c \in TreeNodes : c = node[t].child[LastDigit(t)] /\ lvl[c] = j + 1 /\ Under(X, c, lvl)
    BY <1>3
  <2>2. t \in Chunks /\ LastDigit(t) \in {0, 1}
    BY <1>3
  <2>3. f[t] = IF Leaf(t) \/ Leaf(c) THEN [leaf |-> c, of |-> t, digit |-> LastDigit(t)] ELSE f[c]
    BY <1>2, <2>1, <2>2 DEF IsRightmost
  <2>4. CASE Leaf(c)
    BY <2>1, <2>2, <2>3, <2>4
  <2>5. CASE ~Leaf(c)
    <3>1. Ok(f[c])
      BY <1>4, <2>1, <2>5
    <3>2. f[t] = f[c]
      BY <2>3, <2>5
    <3> HIDE DEF Ok
    <3> QED  BY <3>1, <3>2
  <2> QED  BY <2>4, <2>5
<1>5. Good(D)
  BY <1>1, <1>3
<1>6. \A k \in 0 .. D : k \in T
  <2> HIDE DEF Good, D
  <2>1. 0 \in T
    <3>1. D - 0 = D /\ 0 \in 0 .. D
      BY <1>1
    <3> QED  BY <1>5, <3>1
  <2>2. ASSUME NEW k \in 1 .. D, k - 1 \in T PROVE k \in T
    <3>1. k \in 0 .. D /\ D - k \in 0 .. D - 1 /\ (D - k) + 1 = D - (k - 1)
      BY <1>1
    <3>2. Good((D - k) + 1)
      BY <2>2, <3>1
    <3> QED  BY <1>4, <3>1, <3>2
  <2> HIDE DEF T
  <2> QED  BY <1>1, <2>1, <2>2, IntervalInduction
<1>7. Good(lvl[X])
  <2>1. D - lvl[X] \in 0 .. D /\ D - (D - lvl[X]) = lvl[X]
    BY <1>1
  <2>2. D - lvl[X] \in T
    <3> HIDE DEF T
    <3> QED  BY <1>6, <2>1
  <2> HIDE DEF Good
  <2> QED  BY <2>1, <2>2
<1>8. Under(X, X, lvl)
  BY <1>1 DEF Under, Agree
<1>9. Ok(f[X])
  BY <1>7, <1>8
<1> HIDE DEF Ok
<1>10. Ok(last)
  BY <1>2, <1>9
<1> QED  BY <1>10 DEF Ok

(* A node is a child of at most one node, which is its parent. *)
LEMMA ParentIs ==
  ASSUME NEW lvl, Tries(lvl), NEW X \in TreeNodes
  PROVE  /\ \A c \in Free : node[c].parent = X =>
               c \in TreeNodes /\ \E b \in {0, 1} : node[X].child[b] = c
         /\ \A t \in TreeNodes : \A b \in {0, 1} : node[t].child[b] = X =>
               t = node[X].parent /\ t # X /\ b = DigitOf(X, lvl[t]) /\ ~IsRoot(X, lvl)
<1>1. X \in Chunks /\ X \in Nat /\ X > 0 /\ X # null
  BY NodeFacts, ChunkFacts
<1>2. ASSUME NEW t \in TreeNodes, IsRoot(t, lvl) PROVE node[t].parent < 0
  <2>1. Index(t) \in Nat
    <3>1. Index(t) \in Bins
      BY NodeFacts, ChunkFacts
    <3> QED  BY <3>1, SizeNumbers DEF Bins
  <2> QED  BY <1>2, <2>1 DEF IsRoot, Bin
<1>3. ASSUME NEW c \in Free, node[c].parent = X
      PROVE  c \in TreeNodes /\ \E b \in {0, 1} : node[X].child[b] = c
  <2>1. c \in TreeNodes
    BY <1>1, <1>3 DEF TreeNodes, Free
  <2>2. ~IsRoot(c, lvl)
    BY <1>1, <1>2, <1>3, <2>1
  <2>3. PICK p \in TreeNodes : IsChild(c, p, lvl)
    BY <2>1, <2>2 DEF Tries
  <2>4. p = X /\ node[X].child[DigitOf(c, lvl[X])] = c
    BY <1>3, <2>3 DEF IsChild
  <2> QED  BY <2>1, <2>3, <2>4, ChildDigit
<1>4. ASSUME NEW t \in TreeNodes, NEW b \in {0, 1}, node[t].child[b] = X
      PROVE  t = node[X].parent /\ t # X /\ b = DigitOf(X, lvl[t]) /\ ~IsRoot(X, lvl)
  <2>1. IsChild(X, t, lvl) /\ DigitOf(X, lvl[t]) = b
    BY <1>1, <1>4, NodeFacts
  <2>2. t = node[X].parent /\ lvl[X] = lvl[t] + 1 /\ lvl[t] \in Nat /\ t \in Nat /\ t > 0
    BY <2>1, NodeFacts, ChunkFacts DEF IsChild
  <2>3. ~IsRoot(X, lvl)
    BY <1>2, <2>2
  <2> QED  BY <2>1, <2>2, <2>3
<1> QED  BY <1>3, <1>4

(* R, a chunk with no children that no node points to any longer, or none, *)
(* takes the place of X.                                                   *)
LEMMA TakePlace ==
  ASSUME TypeOK, NEW lvl, Tries(lvl), NEW X \in TreeNodes,
         NEW n \in [Chunks -> malloc_tree_chunk], NEW R, R # X,
         R # null => R \in Free /\ \A t \in TreeNodes : node[t].parent # R,
         R # null => \A b \in {0, 1} : n[R].child[b] = null,
         R = null => Leaf(X),
         n[X].parent = node[X].parent, n[X].index = Index(X),
         \A t \in TreeNodes : \A b \in {0, 1} :
            n[t].child[b] = IF node[t].child[b] = R THEN null ELSE node[t].child[b],
         \A c \in Free : n[c].parent = node[c].parent,
         NEW res, res = take_place(n, X, R)
  PROVE  /\ res \in [Chunks -> malloc_tree_chunk]
         /\ \A c \in Chunks : /\ res[c].index = n[c].index /\ res[c].fd = n[c].fd
                              /\ res[c].bk = n[c].bk
         /\ \A c \in Free \ {X, R} :
               res[c].parent = IF node[c].parent = X THEN R ELSE node[c].parent
         /\ \A c \in Free \ {R} : c \notin TreeNodes => res[c].child = n[c].child
         /\ R # null => /\ res[R].parent = node[X].parent
                        /\ \A b \in {0, 1} : res[R].child[b] = n[X].child[b]
         /\ \A t \in TreeNodes \ {X, R} : \A b \in {0, 1} :
               res[t].child[b] = IF node[t].child[b] = X THEN R ELSE n[t].child[b]
<1> DEFINE XP == n[X].parent
           Child(c) == n[X].child[c]
           inherited == [b \in {0, 1} |-> IF Child(b) # null THEN Child(b) ELSE n[R].child[b]]
           e == IF n[XP].child[0] = X THEN 0 ELSE 1
           A == IF treebins[n[X].index] = X THEN n ELSE [n EXCEPT ![XP].child[e] = R]
<1>1. /\ X \in Chunks /\ X \in Free /\ X # null /\ R \in Chunks \cup {null}
      /\ node \in [Chunks -> malloc_tree_chunk] /\ \A t \in TreeNodes : t \in Chunks
  BY NodeFacts DEF TypeOK, Free
<1>2. /\ A \in [Chunks -> malloc_tree_chunk]
      /\ \A c \in Chunks : /\ A[c].index = n[c].index /\ A[c].fd = n[c].fd /\ A[c].bk = n[c].bk
                           /\ A[c].parent = n[c].parent
                           /\ c \notin TreeNodes => A[c].child = n[c].child
      /\ \A t \in TreeNodes : \A b \in {0, 1} :
            A[t].child[b] = IF node[t].child[b] = X THEN R ELSE n[t].child[b]
  <2>1. CASE treebins[n[X].index] = X
    <3>1. IsRoot(X, lvl)
      BY <1>1, <2>1, ChunkFacts DEF Tries
    <3>2. \A t \in TreeNodes : \A b \in {0, 1} : node[t].child[b] # X
      BY <3>1, ParentIs
    <3> QED  BY <2>1, <3>2
  <2>2. CASE treebins[n[X].index] # X
    <3>1. ~IsRoot(X, lvl)
      BY <2>2 DEF IsRoot
    <3>2. PICK p \in TreeNodes : IsChild(X, p, lvl)
      BY <3>1 DEF Tries
    <3>3. PICK b \in {0, 1} : b = DigitOf(X, lvl[p])
      BY <3>2, ChildDigit
    <3>4. XP = p /\ node[p].child[b] = X /\ p \in Chunks
      BY <1>1, <3>2, <3>3 DEF IsChild
    <3>5. n[p].child[b] = X /\ \A i \in {0, 1} : i # b => n[p].child[i] # X
      <4>1. n[p].child[b] = X
        BY <3>4
      <4>2. ASSUME NEW i \in {0, 1}, i # b PROVE n[p].child[i] # X
        <5>1. node[p].child[i] # X
          BY <3>3, <4>2, ParentIs
        <5> QED  BY <1>1, <5>1
      <4> QED  BY <4>1, <4>2
    <3>6. e = b
      BY <3>3, <3>4, <3>5
    <3>7. A = [n EXCEPT ![p].child[b] = R]
      BY <2>2, <3>4, <3>6
    <3> HIDE DEF A
    <3>8. n[p] \in malloc_tree_chunk
      BY <3>4
    <3>9. A = [n EXCEPT ![p] = [n[p] EXCEPT !.child[b] = R]]
      BY <3>4, <3>7
    <3>10. [n[p] EXCEPT !.child[b] = R] \in malloc_tree_chunk
      BY <1>1, <3>8 DEF malloc_tree_chunk
    <3>11. A \in [Chunks -> malloc_tree_chunk]
      BY <3>9, <3>10
    <3>12. A[p] = [n[p] EXCEPT !.child[b] = R] /\ \A c \in Chunks : c # p => A[c] = n[c]
      BY <3>4, <3>9
    <3>13. /\ A[p].index = n[p].index /\ A[p].fd = n[p].fd /\ A[p].bk = n[p].bk
           /\ A[p].parent = n[p].parent
           /\ A[p].child = [n[p].child EXCEPT ![b] = R]
      BY <3>8, <3>12 DEF malloc_tree_chunk
    <3>14. ASSUME NEW t \in TreeNodes, NEW i \in {0, 1}
           PROVE  A[t].child[i] = IF node[t].child[i] = X THEN R ELSE n[t].child[i]
      <4>1. CASE t = p
        <5>1. n[p].child \in [{0, 1} -> Chunks \cup {null}]
          BY <3>8 DEF malloc_tree_chunk
        <5>2. node[p].child[i] = X <=> i = b
          BY <3>3, <3>4, ParentIs
        <5> QED  BY <3>13, <4>1, <5>1, <5>2
      <4>2. CASE t # p
        <5>1. node[t].child[i] # X
          BY <3>4, <1>1, <4>2, ParentIs
        <5> QED  BY <1>1, <3>12, <4>2, <5>1
      <4> QED  BY <4>1, <4>2
    <3> QED  BY <3>11, <3>12, <3>13, <3>14
  <2> QED  BY <2>1, <2>2
<1>3. res = IF R = null THEN A
            ELSE [c \in Chunks |->
                    IF c = R THEN [A[R] EXCEPT !.parent = XP, !.child = inherited]
                    ELSE IF c \in {Child(0), Child(1)} THEN [A[c] EXCEPT !.parent = R]
                    ELSE A[c]]
  BY DEF take_place
<1>4. \A c \in Free : c # R => (c \in {Child(0), Child(1)} <=> node[c].parent = X)
  <2> SUFFICES ASSUME NEW c \in Free, c # R
               PROVE  c \in {Child(0), Child(1)} <=> node[c].parent = X
    OBVIOUS
  <2>1. c # null
    BY ChunkFacts DEF Free
  <2>2. ASSUME NEW b \in {0, 1}, c = Child(b) PROVE node[c].parent = X
    <3>1. node[X].child[b] = c
      BY <2>1, <2>2
    <3> QED  BY <2>1, <3>1, NodeFacts DEF IsChild
  <2>3. ASSUME node[c].parent = X PROVE c \in {Child(0), Child(1)}
    <3>1. PICK b \in {0, 1} : node[X].child[b] = c
      BY <2>3, ParentIs
    <3>2. Child(b) = c
      BY <3>1
    <3> QED  BY <3>2
  <2> QED  BY <2>2, <2>3
<1> DEFINE kids == {Child(0), Child(1)}
<1>11. \A b \in {0, 1} : Child(b) \in Chunks \cup {null}
  BY <1>1 DEF malloc_tree_chunk
<1>12. XP = node[X].parent /\ XP \in Chunks \cup {null} \cup {Bin(I) : I \in Bins}
  BY <1>1 DEF malloc_tree_chunk
<1>5. CASE R = null
  <2>1. res = A
    BY <1>3, <1>5
  <2>2. \A c \in Free : node[c].parent # X
    <3> SUFFICES ASSUME NEW c \in Free, node[c].parent = X PROVE FALSE
      OBVIOUS
    <3>1. PICK b \in {0, 1} : node[X].child[b] = c
      BY ParentIs
    <3>2. c # null
      BY ChunkFacts DEF Free
    <3> QED  BY <1>5, <3>1, <3>2 DEF Leaf
  <2>3. \A c \in Free : c \in Chunks
    BY DEF Free
  <2> HIDE DEF A
  <2> QED  BY <1>2, <1>5, <2>1, <2>2, <2>3
<1>6. CASE R # null
  <2> HIDE DEF A, kids
  <2>0. R \in Chunks /\ R \in Free /\ \A c \in Free : c \in Chunks
    BY <1>6 DEF Free
  <2>1. PICK h : h = inherited
    OBVIOUS
  <2>2. h \in [{0, 1} -> Chunks \cup {null}] /\ \A b \in {0, 1} : h[b] = Child(b)
    BY <1>6, <1>11, <2>1
  <2>3. res = [c \in Chunks |->
                 IF c = R THEN [A[R] EXCEPT !.parent = XP, !.child = h]
                 ELSE IF c \in kids THEN [A[c] EXCEPT !.parent = R]
                 ELSE A[c]]
    BY <1>3, <1>6, <2>1 DEF kids
  <2> HIDE DEF inherited, Child
  <2>4. /\ [A[R] EXCEPT !.parent = XP, !.child = h] \in malloc_tree_chunk
        /\ \A c \in Chunks : [A[c] EXCEPT !.parent = R] \in malloc_tree_chunk
    <3>1. \A c \in Chunks : A[c] \in malloc_tree_chunk
      BY <1>2
    <3>2. ASSUME NEW a \in malloc_tree_chunk PROVE [a EXCEPT !.parent = R] \in malloc_tree_chunk
      BY <2>0 DEF malloc_tree_chunk
    <3>3. ASSUME NEW a \in malloc_tree_chunk, NEW x,
                 x \in Chunks \cup {null} \cup {Bin(I) : I \in Bins}
          PROVE  [a EXCEPT !.parent = x, !.child = h] \in malloc_tree_chunk
      BY <2>2, <3>3 DEF malloc_tree_chunk
    <3> QED  BY <1>12, <2>0, <3>1, <3>2, <3>3
  <2>5. res \in [Chunks -> malloc_tree_chunk]
    BY <1>2, <2>3, <2>4
  <2>6. /\ res[R].index = A[R].index /\ res[R].fd = A[R].fd /\ res[R].bk = A[R].bk
        /\ res[R].parent = XP /\ res[R].child = h
    <3>1. A[R] \in malloc_tree_chunk
      BY <1>2, <2>0
    <3>2. res[R] = [A[R] EXCEPT !.parent = XP, !.child = h]
      BY <2>0, <2>3
    <3> QED  BY <3>1, <3>2 DEF malloc_tree_chunk
  <2>7. ASSUME NEW c \in Chunks, c # R
        PROVE  /\ res[c].index = A[c].index /\ res[c].fd = A[c].fd /\ res[c].bk = A[c].bk
               /\ res[c].parent = (IF c \in kids THEN R ELSE A[c].parent)
               /\ res[c].child = A[c].child
    <3>1. A[c] \in malloc_tree_chunk
      BY <1>2, <2>7
    <3>2. res[c] = IF c \in kids THEN [A[c] EXCEPT !.parent = R] ELSE A[c]
      BY <2>3, <2>7
    <3> QED  BY <3>1, <3>2 DEF malloc_tree_chunk
  <2>8. \A c \in Free : c # R => (c \in kids <=> node[c].parent = X)
    BY <1>4 DEF kids, Child
  <2>9. \A c \in Chunks : res[c].index = n[c].index /\ res[c].fd = n[c].fd /\ res[c].bk = n[c].bk
    BY <1>2, <2>6, <2>7
  <2>10. \A c \in Free \ {X, R} :
            res[c].parent = IF node[c].parent = X THEN R ELSE node[c].parent
    BY <1>2, <2>0, <2>7, <2>8
  <2>11. \A c \in Free \ {R} : c \notin TreeNodes => res[c].child = n[c].child
    BY <1>2, <2>0, <2>7
  <2>12. res[R].parent = node[X].parent /\ \A b \in {0, 1} : res[R].child[b] = n[X].child[b]
    BY <1>12, <2>2, <2>6 DEF Child, XP
  <2>13. \A t \in TreeNodes \ {X, R} : \A b \in {0, 1} :
               res[t].child[b] = IF node[t].child[b] = X THEN R ELSE n[t].child[b]
    BY <1>1, <1>2, <2>7
  <2> QED  BY <2>5, <2>9, <2>10, <2>11, <2>12, <2>13
<1> QED  BY <1>5, <1>6

(* The links of a ring go both ways, and a chunk is alone on its ring when *)
(* they lead to itself.                                                    *)
LEMMA RingLinks ==
  ASSUME NEW Q, Rings(Q), NEW c \in Free
  PROVE  /\ node[c].bk \in Free /\ node[c].fd \in Free
         /\ node[node[c].bk].fd = c /\ node[node[c].fd].bk = c
         /\ node[c].bk = c <=> Len(Q[ChunkSize[c]]) = 1
         /\ node[c].index = Index(c)
         /\ c \in TreeNodes <=> Q[ChunkSize[c]][1] = c
<1>1. c \in Chunks /\ ChunkSize[c] \in AllSizes
  BY ChunkFacts DEF Free
<1>2. PICK s \in AllSizes : s = ChunkSize[c]
  BY <1>1
<1>3. PICK q \in Seq(Chunks) : q = Q[s] /\ IsRing(q, s)
  BY <1>2 DEF Rings
<1>4. PICK n \in Nat : n = Len(q)
  OBVIOUS
<1>5. PICK k \in 1 .. n : q[k] = c
  BY <1>2, <1>3, <1>4 DEF Rings
<1>6. ASSUME NEW i \in 1 .. n
      PROVE  /\ q[i] \in Free /\ node[q[i]].index = compute_tree_index(s)
             /\ node[q[i]].bk = q[IF i = n THEN 1 ELSE i + 1]
             /\ node[q[i]].fd = q[IF i = 1 THEN n ELSE i - 1]
             /\ (node[q[i]].parent # null) <=> (i = 1)
  BY <1>3, <1>4 DEF IsRing
<1>7. \A i, j \in 1 .. n : q[i] = q[j] => i = j
  BY <1>3, <1>4 DEF IsRing
<1>8. PICK b \in 1 .. n : b = (IF k = n THEN 1 ELSE k + 1) /\ node[c].bk = q[b]
  <2>1. (IF k = n THEN 1 ELSE k + 1) \in 1 .. n
    OBVIOUS
  <2> QED  BY <1>5, <1>6, <2>1
<1>9. PICK f \in 1 .. n : f = (IF k = 1 THEN n ELSE k - 1) /\ node[c].fd = q[f]
  <2>1. (IF k = 1 THEN n ELSE k - 1) \in 1 .. n
    OBVIOUS
  <2> QED  BY <1>5, <1>6, <2>1
<1>10. node[q[b]].fd = c
  <2>1. (IF b = 1 THEN n ELSE b - 1) = k
    BY <1>8
  <2> QED  BY <1>5, <1>6, <2>1
<1>11. node[q[f]].bk = c
  <2>1. (IF f = n THEN 1 ELSE f + 1) = k
    BY <1>9
  <2> QED  BY <1>5, <1>6, <2>1
<1>12. q[b] = c <=> n = 1
  <2>1. q[b] = c <=> b = k
    BY <1>5, <1>7
  <2> QED  BY <1>8, <2>1
<1>13. c \in TreeNodes <=> q[1] = c
  <2>1. c \in TreeNodes <=> k = 1
    BY <1>1, <1>5, <1>6 DEF TreeNodes, Free
  <2>2. q[1] = c <=> k = 1
    <3>1. 1 \in 1 .. n
      OBVIOUS
    <3> QED  BY <1>5, <1>7, <3>1
  <2> QED  BY <2>1, <2>2
<1>14. /\ node[c].bk \in Free /\ node[c].fd \in Free /\ node[c].index = Index(c)
  <2>1. q[b] \in Free /\ q[f] \in Free
    BY <1>6
  <2>2. node[c].index = compute_tree_index(s)
    BY <1>5, <1>6
  <2> QED  BY <1>2, <1>8, <1>9, <2>1, <2>2 DEF Index
<1>15. node[node[c].bk].fd = c /\ node[node[c].fd].bk = c
  BY <1>8, <1>9, <1>10, <1>11
<1>16. node[c].bk = c <=> Len(Q[ChunkSize[c]]) = 1
  BY <1>2, <1>3, <1>4, <1>8, <1>12
<1>17. c \in TreeNodes <=> Q[ChunkSize[c]][1] = c
  BY <1>2, <1>3, <1>13
<1> QED  BY <1>14, <1>15, <1>16, <1>17

(* A payload is a node, as far as types go. *)
LEMMA PayloadType == Payload \in malloc_tree_chunk
<1>1. 0 \in Bins
  BY TreeAssumption DEF Bins
<1> QED  BY <1>1 DEF Payload, malloc_tree_chunk

(* n holds the nodes once X is out of its ring; R is what replaces X: a    *)
(* leaf that no node points to any longer.                                 *)
Replacement(n, X, R, lvl, Q) ==
    /\ n \in [Chunks -> malloc_tree_chunk]
    /\ R \in Free /\ R # X /\ Agree(R, X, lvl[X])
    /\ \A t \in TreeNodes : node[t].parent # R
    /\ \A b \in {0, 1} : n[R].child[b] = null
    /\ IF Len(Q[ChunkSize[X]]) > 1 THEN R = Q[ChunkSize[X]][2] ELSE R \in TreeNodes
    /\ \A c \in Free : n[c].index = node[c].index /\ n[c].parent = node[c].parent
    /\ \A c \in Free \ {X} :
          /\ n[c].bk = IF node[c].bk = X THEN node[X].bk ELSE node[c].bk
          /\ n[c].fd = IF node[c].fd = X THEN node[X].fd ELSE node[c].fd
          /\ c \notin TreeNodes => n[c].child = node[c].child
    /\ \A t \in TreeNodes : \A b \in {0, 1} :
          n[t].child[b] = IF node[t].child[b] = R THEN null ELSE node[t].child[b]

(* R has taken the place of the node X that leaves its ring. *)
LEMMA PlaceTaken ==
  ASSUME TypeOK, NEW lvl, NEW Q, Shape(lvl, Q), NEW X \in TreeNodes, inuse' = inuse \cup {X},
         NEW s, s = ChunkSize[X], NEW I, I = Index(X), NEW n, NEW R, Replacement(n, X, R, lvl, Q),
         treemap' = treemap, treebins' = [treebins EXCEPT ![I] = IF @ = X THEN R ELSE @],
         node' = [take_place(n, X, R) EXCEPT ![X] = Payload]
  PROVE  /\ TypeOK'
         /\ \E new : Shape(new, [Q EXCEPT ![s] = Queues!RemoveAt(@, 1)])'
<1>0. /\ n \in [Chunks -> malloc_tree_chunk]
      /\ R \in Free /\ R # X /\ Agree(R, X, lvl[X])
      /\ \A t \in TreeNodes : node[t].parent # R
      /\ \A b \in {0, 1} : n[R].child[b] = null
      /\ IF Len(Q[s]) > 1 THEN R = Q[s][2] ELSE R \in TreeNodes
      /\ \A c \in Free : n[c].index = node[c].index /\ n[c].parent = node[c].parent
      /\ \A c \in Free \ {X} :
            /\ n[c].bk = IF node[c].bk = X THEN node[X].bk ELSE node[c].bk
            /\ n[c].fd = IF node[c].fd = X THEN node[X].fd ELSE node[c].fd
            /\ c \notin TreeNodes => n[c].child = node[c].child
      /\ \A t \in TreeNodes : \A b \in {0, 1} :
            n[t].child[b] = IF node[t].child[b] = R THEN null ELSE node[t].child[b]
  BY DEF Replacement
<1>1. /\ X \in Chunks /\ X \in Free /\ X # null /\ R \in Chunks /\ R # null /\ node[X].parent # null
      /\ I \in Bins /\ Tries(lvl) /\ Rings(Q) /\ s \in AllSizes /\ node[X].index = I
  BY <1>0, NodeFacts, ChunkFacts, RingLinks DEF Shape, Free
<1>2. PICK res : res = take_place(n, X, R)
  OBVIOUS
<1>3. /\ res \in [Chunks -> malloc_tree_chunk]
      /\ \A c \in Chunks : /\ res[c].index = n[c].index /\ res[c].fd = n[c].fd
                           /\ res[c].bk = n[c].bk
      /\ \A c \in Free \ {X, R} :
            res[c].parent = IF node[c].parent = X THEN R ELSE node[c].parent
      /\ \A c \in Free \ {R} : c \notin TreeNodes => res[c].child = n[c].child
      /\ res[R].parent = node[X].parent
      /\ \A b \in {0, 1} : res[R].child[b] = n[X].child[b]
      /\ \A t \in TreeNodes \ {X, R} : \A b \in {0, 1} :
            res[t].child[b] = IF node[t].child[b] = X THEN R ELSE n[t].child[b]
  <2>0. n \in [Chunks -> malloc_tree_chunk] /\ R # X /\ Tries(lvl)
    BY <1>0, <1>1
  <2>1. n[X].parent = node[X].parent /\ n[X].index = Index(X)
        /\ \A c \in Free : n[c].parent = node[c].parent
    BY <1>0, <1>1
  <2>2. /\ R # null => R \in Free /\ \A t \in TreeNodes : node[t].parent # R
        /\ R # null => \A b \in {0, 1} : n[R].child[b] = null
        /\ R = null => Leaf(X)
    BY <1>0, <1>1
  <2>3. \A t \in TreeNodes : \A b \in {0, 1} :
            n[t].child[b] = IF node[t].child[b] = R THEN null ELSE node[t].child[b]
    BY <1>0
  <2>4. \A c \in Chunks : /\ res[c].index = n[c].index /\ res[c].fd = n[c].fd
                          /\ res[c].bk = n[c].bk
    BY <1>2, <2>0, <2>1, <2>2, <2>3, TakePlace
  <2>5. /\ res \in [Chunks -> malloc_tree_chunk]
        /\ \A c \in Free \ {X, R} :
            res[c].parent = IF node[c].parent = X THEN R ELSE node[c].parent
        /\ \A c \in Free \ {R} : c \notin TreeNodes => res[c].child = n[c].child
    BY <1>2, <2>0, <2>1, <2>2, <2>3, TakePlace
  <2>6. /\ res[R].parent = node[X].parent
        /\ \A b \in {0, 1} : res[R].child[b] = n[X].child[b]
        /\ \A t \in TreeNodes \ {X, R} : \A b \in {0, 1} :
              res[t].child[b] = IF node[t].child[b] = X THEN R ELSE n[t].child[b]
    BY <1>1, <1>2, <2>0, <2>1, <2>2, <2>3, TakePlace
  <2> QED  BY <2>4, <2>5, <2>6
<1>4. node' = [res EXCEPT ![X] = Payload]
  BY <1>2
<1>5. node' \in [Chunks -> malloc_tree_chunk] /\ \A c \in Chunks \ {X} : node'[c] = res[c]
  BY <1>3, <1>4, PayloadType
<1>6. TypeOK'
  <2>1. treebins' \in [Bins -> Chunks \cup {null}]
    BY <1>1 DEF TypeOK
  <2> QED  BY <1>1, <1>5, <2>1 DEF TypeOK
<1>7. \A c \in Free : c \in Chunks
  BY DEF Free
<1>8. Tries([lvl EXCEPT ![R] = lvl[X]])'
  <2>1. /\ node'[R].parent = node[X].parent
        /\ \A b \in {0, 1} :
              node'[R].child[b] = IF node[X].child[b] = R THEN null ELSE node[X].child[b]
    BY <1>0, <1>1, <1>3, <1>5
  <2>2. \A c \in Free \ {X, R} :
            node'[c].parent = IF node[c].parent = X THEN R ELSE node[c].parent
    BY <1>3, <1>5, <1>7
  <2>3. \A t \in TreeNodes \ {X, R} : \A b \in {0, 1} :
            node'[t].child[b] = IF node[t].child[b] = X THEN R
                                ELSE IF node[t].child[b] = R THEN null ELSE node[t].child[b]
    <3>1. \A t \in TreeNodes : t \in Chunks
      BY DEF TreeNodes
    <3> QED  BY <1>0, <1>3, <1>5, <3>1
  <2> QED  BY <1>0, <1>1, <2>1, <2>2, <2>3, TriesReplace
<1>9. Rings([Q EXCEPT ![s] = Queues!RemoveAt(@, 1)])'
  <2>1. 1 \in 1 .. Len(Q[s]) /\ Q[s][1] = X /\ Len(Q[s]) \in Nat
    BY <1>1, Distinct
  <2>2. ASSUME NEW c \in Free \ {X}
        PROVE  /\ node'[c].index = node[c].index
               /\ node'[c].bk = IF node[c].bk = X THEN node[X].bk ELSE node[c].bk
               /\ node'[c].fd = IF node[c].fd = X THEN node[X].fd ELSE node[c].fd
               /\ node'[c].parent # null <=>
                     node[c].parent # null \/ (1 = 1 /\ Len(Q[s]) > 1 /\ c = Q[s][2])
               /\ node'[c].parent = null => node'[c].child = node[c].child
    <3>1. c \in Chunks /\ c # X /\ c \in Free
      BY <1>7
    <3>2. node'[c] = res[c]
      BY <1>5, <3>1
    <3>3. /\ node'[c].index = node[c].index
          /\ node'[c].bk = IF node[c].bk = X THEN node[X].bk ELSE node[c].bk
          /\ node'[c].fd = IF node[c].fd = X THEN node[X].fd ELSE node[c].fd
      BY <1>0, <1>3, <3>1, <3>2
    <3>4. c \in TreeNodes <=> node[c].parent # null
      BY <3>1 DEF TreeNodes, Free
    <3>5. CASE c = R
      <4>1. node'[c].parent # null
        BY <1>1, <1>3, <3>2, <3>5
      <4>2. node[c].parent # null \/ (Len(Q[s]) > 1 /\ c = Q[s][2])
        BY <1>0, <3>4, <3>5
      <4> QED  BY <3>3, <4>1, <4>2
    <3>6. CASE c # R
      <4>1. node'[c].parent # null <=> node[c].parent # null
        BY <1>1, <1>3, <3>1, <3>2, <3>6
      <4>2. ~(Len(Q[s]) > 1 /\ c = Q[s][2])
        BY <1>0, <3>6
      <4>3. c \notin TreeNodes => node'[c].child = node[c].child
        BY <1>0, <1>3, <3>1, <3>2, <3>6
      <4> QED  BY <3>3, <3>4, <4>1, <4>2, <4>3
    <3> QED  BY <3>5, <3>6
  <2> QED  BY <1>1, <2>1, <2>2, RingsRemove
<1> QED  BY <1>6, <1>8, <1>9 DEF Shape

(* The node X, alone in its ring and with no child, is gone. *)
LEMMA PlaceEmptied ==
  ASSUME TypeOK, NEW lvl, NEW Q, Shape(lvl, Q), NEW X \in TreeNodes, inuse' = inuse \cup {X},
         NEW s, s = ChunkSize[X], NEW I, I = Index(X), Len(Q[s]) = 1, Leaf(X),
         treemap' = (IF treebins[I] = X THEN treemap \ {I} ELSE treemap),
         treebins' = [treebins EXCEPT ![I] = IF @ = X THEN null ELSE @],
         node' = [take_place(node, X, null) EXCEPT ![X] = Payload]
  PROVE  /\ TypeOK'
         /\ \E new : Shape(new, [Q EXCEPT ![s] = Queues!RemoveAt(@, 1)])'
<1>1. /\ X \in Chunks /\ X \in Free /\ X # null /\ node[X].parent # null /\ I \in Bins
      /\ Tries(lvl) /\ Rings(Q) /\ node[X].index = I /\ node \in [Chunks -> malloc_tree_chunk]
      /\ node[X].bk = X /\ node[X].fd = X
  <2>1. X \in Chunks /\ X \in Free /\ X # null /\ node[X].parent # null /\ I \in Bins
    BY NodeFacts, ChunkFacts DEF Shape, Free
  <2>2. node[X].index = I /\ node[X].bk = X /\ node[X].fd = X
    BY <2>1, RingLinks DEF Shape
  <2> QED  BY <2>1, <2>2 DEF Shape, TypeOK
<1>2. PICK res : res = take_place(node, X, null)
  OBVIOUS
<1>3. /\ res \in [Chunks -> malloc_tree_chunk]
      /\ \A c \in Chunks : /\ res[c].index = node[c].index /\ res[c].fd = node[c].fd
                           /\ res[c].bk = node[c].bk
      /\ \A c \in Free \ {X} :
            res[c].parent = IF node[c].parent = X THEN null ELSE node[c].parent
      /\ \A c \in Free : c \notin TreeNodes => res[c].child = node[c].child
      /\ \A t \in TreeNodes \ {X} : \A b \in {0, 1} :
            res[t].child[b] = IF node[t].child[b] = X THEN null ELSE node[t].child[b]
  <2>1. PICK R : R = null
    OBVIOUS
  <2>2. /\ R # X /\ (R # null => R \in Free /\ \A t \in TreeNodes : node[t].parent # R)
        /\ R # null => \A b \in {0, 1} : node[R].child[b] = null
        /\ R = null => Leaf(X)
    BY <1>1, <2>1
  <2>3. \A t \in TreeNodes : \A b \in {0, 1} :
            node[t].child[b] = IF node[t].child[b] = R THEN null ELSE node[t].child[b]
    BY <2>1
  <2>4. null \notin Free /\ \A t \in TreeNodes : t # null
    BY ChunkFacts, NodeFacts, <1>1 DEF Free
  <2>5. node[X].index = Index(X) /\ res = take_place(node, X, R)
    BY <1>1, <1>2, <2>1
  <2>6. \A c \in Chunks : /\ res[c].index = node[c].index /\ res[c].fd = node[c].fd
                          /\ res[c].bk = node[c].bk
    BY <1>1, <2>2, <2>3, <2>5, TakePlace
  <2>7. /\ res \in [Chunks -> malloc_tree_chunk]
        /\ \A c \in Free \ {X, R} :
            res[c].parent = IF node[c].parent = X THEN R ELSE node[c].parent
        /\ \A c \in Free \ {R} : c \notin TreeNodes => res[c].child = node[c].child
    BY <1>1, <2>2, <2>3, <2>5, TakePlace
  <2>8. \A t \in TreeNodes \ {X, R} : \A b \in {0, 1} :
              res[t].child[b] = IF node[t].child[b] = X THEN R ELSE node[t].child[b]
    BY <1>1, <2>2, <2>3, <2>5, TakePlace
  <2> QED  BY <2>1, <2>4, <2>6, <2>7, <2>8
<1>4. node' = [res EXCEPT ![X] = Payload]
  BY <1>2
<1>5. node' \in [Chunks -> malloc_tree_chunk] /\ \A c \in Chunks \ {X} : node'[c] = res[c]
  BY <1>3, <1>4, PayloadType
<1>6. TypeOK'
  <2>1. treebins' \in [Bins -> Chunks \cup {null}]
    BY <1>1 DEF TypeOK
  <2> QED  BY <1>1, <1>5, <2>1 DEF TypeOK
<1>7. \A c \in Free : c \in Chunks
  BY DEF Free
<1>8. \A c \in Free : node[c].parent # X
  <2> SUFFICES ASSUME NEW c \in Free, node[c].parent = X PROVE FALSE
    OBVIOUS
  <2>1. PICK b \in {0, 1} : node[X].child[b] = c
    BY <1>1, ParentIs
  <2>2. c # null
    BY <1>7, ChunkFacts
  <2> QED  BY <2>1, <2>2 DEF Leaf
<1>9. Tries(lvl)'
  <2>1. \A c \in Free \ {X} : node'[c].parent = node[c].parent
    BY <1>3, <1>5, <1>7, <1>8
  <2>2. \A t \in TreeNodes \ {X} : \A b \in {0, 1} :
            node'[t].child[b] = IF node[t].child[b] = X THEN null ELSE node[t].child[b]
    <3>1. \A t \in TreeNodes : t \in Chunks
      BY DEF TreeNodes
    <3> QED  BY <1>3, <1>5, <3>1
  <2> QED  BY <1>1, <2>1, <2>2, TriesPrune
<1>10. Rings([Q EXCEPT ![s] = Queues!RemoveAt(@, 1)])'
  <2>1. 1 \in 1 .. Len(Q[s]) /\ Q[s][1] = X /\ Len(Q[s]) \in Nat
    BY <1>1, Distinct
  <2>2. ASSUME NEW c \in Free \ {X}
        PROVE  /\ node'[c].index = node[c].index
               /\ node'[c].bk = IF node[c].bk = X THEN node[X].bk ELSE node[c].bk
               /\ node'[c].fd = IF node[c].fd = X THEN node[X].fd ELSE node[c].fd
               /\ node'[c].parent # null <=>
                     node[c].parent # null \/ (1 = 1 /\ Len(Q[s]) > 1 /\ c = Q[s][2])
               /\ node'[c].parent = null => node'[c].child = node[c].child
    <3>1. c \in Chunks /\ c # X /\ c \in Free /\ node'[c] = res[c]
      BY <1>5, <1>7
    <3>2. node'[c].parent = node[c].parent /\ ~(Len(Q[s]) > 1)
      BY <1>3, <1>8, <3>1
    <3>3. c \in TreeNodes <=> node[c].parent # null
      BY <3>1 DEF TreeNodes, Free
    <3>4. c \notin TreeNodes => node'[c].child = node[c].child
      BY <1>3, <3>1
    <3>5. /\ node'[c].index = node[c].index
          /\ node'[c].bk = IF node[c].bk = X THEN node[X].bk ELSE node[c].bk
          /\ node'[c].fd = IF node[c].fd = X THEN node[X].fd ELSE node[c].fd
      BY <1>1, <1>3, <3>1
    <3> QED  BY <3>2, <3>3, <3>4, <3>5
  <2> QED  BY <1>1, <2>1, <2>2, RingsRemove
<1> QED  BY <1>6, <1>9, <1>10 DEF Shape

(* The nodes once X is out of its ring. *)
LEMMA RingDetached ==
  ASSUME TypeOK, NEW Q, Rings(Q), NEW X \in Free, node[X].bk # X,
         NEW D, D = detach_from_ring(X)
  PROVE  /\ D.heir = node[X].bk /\ D.nodes \in [Chunks -> malloc_tree_chunk]
         /\ \A c \in Free :
               /\ D.nodes[c].index = node[c].index /\ D.nodes[c].parent = node[c].parent
               /\ D.nodes[c].child = node[c].child
               /\ D.nodes[c].bk = IF node[c].bk = X THEN node[X].bk ELSE node[c].bk
               /\ D.nodes[c].fd = IF node[c].fd = X THEN node[X].fd ELSE node[c].fd
<1> DEFINE F == node[X].fd
           B == node[X].bk
<1>1. /\ X \in Chunks /\ F \in Free /\ B \in Free /\ F \in Chunks /\ B \in Chunks
      /\ node \in [Chunks -> malloc_tree_chunk]
  BY RingLinks DEF TypeOK, Free
<1>2. \A c \in Free : (c = F <=> node[c].bk = X) /\ (c = B <=> node[c].fd = X)
  BY RingLinks
<1>3. PICK a : a = [node EXCEPT ![F].bk = B]
  OBVIOUS
<1>4. D.heir = B /\ D.nodes = [a EXCEPT ![B].fd = F]
  BY <1>3 DEF detach_from_ring
<1> HIDE DEF F, B
<1>5. [node[F] EXCEPT !.bk = B] \in malloc_tree_chunk
  <2>1. node[F] \in malloc_tree_chunk
    BY <1>1
  <2> QED  BY <1>1, <2>1 DEF malloc_tree_chunk
<1>6. a \in [Chunks -> malloc_tree_chunk] /\ a[F] = [node[F] EXCEPT !.bk = B]
      /\ \A c \in Chunks : c # F => a[c] = node[c]
  BY <1>1, <1>3, <1>5
<1>7. \A c \in Chunks : /\ a[c].index = node[c].index /\ a[c].parent = node[c].parent
                        /\ a[c].child = node[c].child /\ a[c].fd = node[c].fd
                        /\ a[c].bk = IF c = F THEN B ELSE node[c].bk
  <2>1. node[F] \in malloc_tree_chunk
    BY <1>1
  <2> QED  BY <1>6, <2>1 DEF malloc_tree_chunk
<1>8. [a[B] EXCEPT !.fd = F] \in malloc_tree_chunk /\ a[B] \in malloc_tree_chunk
  <2>1. a[B] \in malloc_tree_chunk
    BY <1>1, <1>6
  <2> QED  BY <1>1, <2>1 DEF malloc_tree_chunk
<1>9. PICK n : n = D.nodes
  OBVIOUS
<1>10. n \in [Chunks -> malloc_tree_chunk] /\ n[B] = [a[B] EXCEPT !.fd = F]
       /\ \A c \in Chunks : c # B => n[c] = a[c]
  BY <1>1, <1>4, <1>6, <1>8, <1>9
<1>11. \A c \in Chunks : /\ n[c].index = a[c].index /\ n[c].parent = a[c].parent
                         /\ n[c].child = a[c].child /\ n[c].bk = a[c].bk
                         /\ n[c].fd = IF c = B THEN F ELSE a[c].fd
  BY <1>8, <1>10 DEF malloc_tree_chunk
<1>12. \A c \in Free : c \in Chunks
  BY DEF Free
<1>13. \A c \in Free : /\ n[c].index = node[c].index /\ n[c].parent = node[c].parent
                       /\ n[c].child = node[c].child
                       /\ n[c].bk = (IF node[c].bk = X THEN B ELSE node[c].bk)
                       /\ n[c].fd = (IF node[c].fd = X THEN F ELSE node[c].fd)
  BY <1>2, <1>7, <1>11, <1>12
<1> QED  BY <1>4, <1>9, <1>10, <1>13 DEF F, B

(* The parent of a node is the address of a bin or another node. *)
LEMMA ParentKind ==
  ASSUME NEW lvl, Tries(lvl), NEW t \in TreeNodes
  PROVE  node[t].parent < 0 \/ node[t].parent \in TreeNodes
<1>1. CASE IsRoot(t, lvl)
  <2>1. Index(t) \in Nat
    <3>1. Index(t) \in Bins
      BY NodeFacts, ChunkFacts
    <3> QED  BY <3>1, SizeNumbers DEF Bins
  <2> QED  BY <1>1, <2>1 DEF IsRoot, Bin
<1>2. CASE \E p \in TreeNodes : IsChild(t, p, lvl)
  BY <1>2 DEF IsChild
<1> QED  BY <1>1, <1>2 DEF Tries

(* The removal of a chunk keeps the tries, and takes the chunk out of the  *)
(* queue of its size.                                                      *)
LEMMA UnlinkKeeps ==
  ASSUME TypeOK, NEW lvl, NEW Q, Shape(lvl, Q), NEW X \in Free, inuse' = inuse \cup {X},
         unlink_large_chunk(X), NEW s, s = ChunkSize[X], NEW k \in 1 .. Len(Q[s]), Q[s][k] = X
  PROVE  /\ TypeOK'
         /\ \E new : Shape(new, [Q EXCEPT ![s] = Queues!RemoveAt(@, k)])'
<1>1. /\ X \in Chunks /\ Tries(lvl) /\ Rings(Q) /\ s \in AllSizes /\ X # null
      /\ treemap \subseteq Bins /\ treebins \in [Bins -> Chunks \cup {null}]
      /\ node \in [Chunks -> malloc_tree_chunk] /\ \A c \in Free : c \in Chunks
  BY ChunkFacts DEF Shape, TypeOK, Free
<1>2. PICK I \in Bins : I = Index(X) /\ I = node[X].index
  BY <1>1, ChunkFacts, RingLinks
<1>3. PICK q \in Seq(Chunks) : q = Q[s] /\ IsRing(q, s)
  BY <1>1 DEF Rings
<1>4. PICK n \in Nat : n = Len(q) /\ k \in 1 .. n /\ q[k] = X
  BY <1>3
<1>5. /\ \A i \in 1 .. n :
           /\ q[i] \in Free /\ ChunkSize[q[i]] = s
           /\ node[q[i]].bk = q[IF i = n THEN 1 ELSE i + 1]
           /\ (node[q[i]].parent # null) <=> (i = 1)
           /\ i # 1 => Leaf(q[i])
      /\ \A i, j \in 1 .. n : q[i] = q[j] => i = j
  BY <1>3, <1>4 DEF IsRing
<1>6. node[X].parent # null <=> k = 1
  BY <1>4, <1>5
<1>7. node[X].bk = X <=> n = 1
  BY <1>1, <1>3, <1>4, RingLinks
<1> DEFINE D == IF node[X].bk # X THEN detach_from_ring(X) ELSE detach_from_tree(X)
           root == node[X].parent # null /\ treebins[I] = X
<1>8. /\ treebins' = (IF root THEN [treebins EXCEPT ![I] = D.heir] ELSE treebins)
      /\ treemap' = (IF root /\ D.heir = null THEN treemap \ {I} ELSE treemap)
      /\ node' = [(IF node[X].parent # null THEN take_place(D.nodes, X, D.heir) ELSE D.nodes)
                      EXCEPT ![X] = Payload]
  BY <1>2 DEF unlink_large_chunk
<1>9. CASE k # 1
  <2>1. n # 1 /\ node[X].parent = null
    BY <1>4, <1>6, <1>9
  <2>2. PICK d : d = detach_from_ring(X)
    OBVIOUS
  <2>3. treebins' = treebins /\ treemap' = treemap /\ node' = [d.nodes EXCEPT ![X] = Payload]
    BY <1>7, <1>8, <2>1, <2>2
  <2>4. /\ d.nodes \in [Chunks -> malloc_tree_chunk]
        /\ \A c \in Free :
               /\ d.nodes[c].index = node[c].index /\ d.nodes[c].parent = node[c].parent
               /\ d.nodes[c].child = node[c].child
               /\ d.nodes[c].bk = IF node[c].bk = X THEN node[X].bk ELSE node[c].bk
               /\ d.nodes[c].fd = IF node[c].fd = X THEN node[X].fd ELSE node[c].fd
    BY <1>1, <1>7, <2>1, <2>2, RingDetached
  <2>5. /\ node' \in [Chunks -> malloc_tree_chunk]
        /\ \A c \in Chunks \ {X} : node'[c] = d.nodes[c]
    BY <2>3, <2>4, PayloadType
  <2>6. TypeOK'
    BY <1>1, <2>3, <2>5 DEF TypeOK
  <2>7. TreeNodes' = TreeNodes
    <3>1. X \notin TreeNodes
      BY <2>1 DEF TreeNodes
    <3>2. \A c \in Free \ {X} : node'[c].parent = node[c].parent
      BY <1>1, <2>4, <2>5
    <3> QED  BY <3>1, <3>2 DEF TreeNodes, Free
  <2>8. Tries(lvl)'
    <3>1. ASSUME NEW t \in TreeNodes
          PROVE  node'[t].parent = node[t].parent /\ node'[t].child = node[t].child
      <4>1. t \in Free /\ t \in Chunks /\ t # X
        BY <2>1 DEF TreeNodes, Free
      <4> QED  BY <2>4, <2>5, <4>1
    <3> QED  BY <1>1, <2>3, <2>7, <3>1, TriesSame
  <2>9. Rings([Q EXCEPT ![s] = Queues!RemoveAt(@, k)])'
    <3>1. ASSUME NEW c \in Free \ {X}
          PROVE  /\ node'[c].index = node[c].index
                 /\ node'[c].bk = IF node[c].bk = X THEN node[X].bk ELSE node[c].bk
                 /\ node'[c].fd = IF node[c].fd = X THEN node[X].fd ELSE node[c].fd
                 /\ node'[c].parent # null <=>
                       node[c].parent # null \/ (k = 1 /\ Len(Q[s]) > 1 /\ c = Q[s][2])
                 /\ node'[c].parent = null => node'[c].child = node[c].child
      <4>1. c \in Free /\ node'[c] = d.nodes[c]
        BY <1>1, <2>5
      <4> QED  BY <1>9, <2>4, <4>1
    <3> QED  BY <1>1, <3>1, RingsRemove
  <2> QED  BY <2>6, <2>8, <2>9 DEF Shape
<1>10. CASE k = 1
  <2>1. X \in TreeNodes /\ node[X].parent # null
    BY <1>1, <1>6, <1>10 DEF TreeNodes, Free
  <2>2. /\ node' = [take_place(D.nodes, X, D.heir) EXCEPT ![X] = Payload]
        /\ treebins' = [treebins EXCEPT ![I] = IF @ = X THEN D.heir ELSE @]
        /\ treemap' = (IF treebins[I] = X /\ D.heir = null THEN treemap \ {I} ELSE treemap)
    <3>1. node' = [take_place(D.nodes, X, D.heir) EXCEPT ![X] = Payload]
      BY <1>8, <2>1
    <3>2. treemap' = (IF treebins[I] = X /\ D.heir = null THEN treemap \ {I} ELSE treemap)
      BY <1>8, <2>1
    <3>3. treebins' = [treebins EXCEPT ![I] = IF @ = X THEN D.heir ELSE @]
      <4> HIDE DEF D
      <4>1. CASE treebins[I] = X
        BY <1>1, <1>8, <2>1, <4>1
      <4>2. CASE treebins[I] # X
        <5>1. [treebins EXCEPT ![I] = IF @ = X THEN D.heir ELSE @] = treebins
          BY <1>1, <4>2
        <5> QED  BY <1>8, <4>2, <5>1
      <4> QED  BY <4>1, <4>2
    <3> QED  BY <3>1, <3>2, <3>3
  <2>3. CASE n # 1
    <3>1. PICK d : d = detach_from_ring(X) /\ d = D
      BY <1>7, <2>3
    <3>2. PICK R : R = d.heir
      OBVIOUS
    <3>3. /\ R = node[X].bk /\ d.nodes \in [Chunks -> malloc_tree_chunk]
          /\ \A c \in Free :
               /\ d.nodes[c].index = node[c].index /\ d.nodes[c].parent = node[c].parent
               /\ d.nodes[c].child = node[c].child
               /\ d.nodes[c].bk = IF node[c].bk = X THEN node[X].bk ELSE node[c].bk
               /\ d.nodes[c].fd = IF node[c].fd = X THEN node[X].fd ELSE node[c].fd
      BY <1>1, <1>7, <2>3, <3>1, <3>2, RingDetached
    <3> HIDE DEF D
    <3>4. /\ R = q[2] /\ R # X /\ R \in Free /\ R # null /\ node[R].parent = null /\ Leaf(R)
          /\ ChunkSize[R] = s /\ R \in Chunks /\ R \notin TreeNodes
      <4>1. 2 \in 1 .. n /\ R = q[2]
        BY <1>4, <1>5, <1>10, <2>3, <3>3
      <4>2. R # X
        BY <1>4, <1>5, <1>10, <4>1
      <4>3. R \in Free /\ node[R].parent = null /\ Leaf(R) /\ ChunkSize[R] = s
        BY <1>5, <4>1
      <4>4. R \in Chunks /\ R \notin TreeNodes /\ R # null
        BY <1>1, <4>3, ChunkFacts DEF TreeNodes
      <4> QED  BY <4>1, <4>2, <4>3, <4>4
    <3>5. Agree(R, X, lvl[X])
      BY <3>4 DEF Agree, Pre, Index
    <3>6. \A t \in TreeNodes : node[t].parent # R
      <4>1. R \in Nat /\ R > 0
        BY <3>4, ChunkFacts
      <4> QED  BY <1>1, <3>4, <4>1, ParentKind
    <3>7. \A b \in {0, 1} : d.nodes[R].child[b] = null
      BY <3>3, <3>4 DEF Leaf
    <3>8. \A t \in TreeNodes : \A b \in {0, 1} :
            d.nodes[t].child[b] = IF node[t].child[b] = R THEN null ELSE node[t].child[b]
      <4> SUFFICES ASSUME NEW t \in TreeNodes, NEW b \in {0, 1}
                   PROVE  d.nodes[t].child[b] = node[t].child[b] /\ node[t].child[b] # R
        OBVIOUS
      <4>1. t \in Free
        BY DEF TreeNodes, Free
      <4>2. node[t].child[b] # null => node[t].child[b] \in TreeNodes
        BY <1>1, NodeFacts
      <4> QED  BY <3>3, <3>4, <4>1, <4>2
    <3>9. treemap' = treemap /\ treebins' = [treebins EXCEPT ![I] = IF @ = X THEN R ELSE @]
          /\ node' = [take_place(d.nodes, X, R) EXCEPT ![X] = Payload]
      BY <2>2, <3>1, <3>2, <3>4
    <3>10. IF Len(Q[s]) > 1 THEN R = Q[s][2] ELSE R \in TreeNodes
      <4>0. n > 1 /\ R = q[2]
        BY <1>4, <2>3, <3>4
      <4>1. Len(Q[s]) > 1 /\ R = Q[s][2]
        BY <1>3, <1>4, <4>0
      <4> QED  BY <4>1
    <3>11. \A c \in Free \ {X} :
             /\ d.nodes[c].bk = IF node[c].bk = X THEN node[X].bk ELSE node[c].bk
             /\ d.nodes[c].fd = IF node[c].fd = X THEN node[X].fd ELSE node[c].fd
             /\ c \notin TreeNodes => d.nodes[c].child = node[c].child
      BY <3>3
    <3>12. PICK m \in [Chunks -> malloc_tree_chunk] : m = d.nodes
      BY <3>3
    <3>13. \A c \in Free : m[c].index = node[c].index /\ m[c].parent = node[c].parent
      BY <3>3, <3>12
    <3>14. Replacement(m, X, R, lvl, Q)
      BY <3>4, <3>5, <3>6, <3>7, <3>8, <3>10, <3>11, <3>12, <3>13 DEF Replacement
    <3>15. TypeOK' /\ \E new : Shape(new, [Q EXCEPT ![s] = Queues!RemoveAt(@, 1)])'
      BY <1>2, <2>1, <3>9, <3>12, <3>14, PlaceTaken
    <3> QED  BY <1>10, <3>15
  <2>4. CASE n = 1 /\ Leaf(X)
    <3>1. D.heir = null /\ D.nodes = node
      BY <1>7, <2>4 DEF detach_from_tree
    <3> HIDE DEF D
    <3>2. /\ treemap' = (IF treebins[I] = X THEN treemap \ {I} ELSE treemap)
          /\ treebins' = [treebins EXCEPT ![I] = IF @ = X THEN null ELSE @]
          /\ node' = [take_place(node, X, null) EXCEPT ![X] = Payload]
      BY <2>2, <3>1
    <3>3. Len(Q[s]) = 1
      BY <1>3, <1>4, <2>4
    <3> QED  BY <1>2, <1>10, <2>1, <2>4, <3>2, <3>3, PlaceEmptied
  <2>5. CASE n = 1 /\ ~Leaf(X)
    <3>1. PICK last : last = rightmost_leaf(X)
      OBVIOUS
    <3>2. /\ last.of \in TreeNodes /\ Under(X, last.of, lvl) /\ last.digit \in {0, 1}
          /\ last.leaf \in TreeNodes /\ node[last.of].child[last.digit] = last.leaf
          /\ Leaf(last.leaf)
      BY <1>1, <2>1, <2>5, <3>1, RightmostLeaf
    <3>3. PICK R \in TreeNodes, P \in TreeNodes, b \in {0, 1} :
             R = last.leaf /\ P = last.of /\ b = last.digit
      BY <3>2
    <3>4. D.heir = R /\ D.nodes = [node EXCEPT ![P].child[b] = null]
      BY <1>7, <2>5, <3>1, <3>3 DEF detach_from_tree
    <3> HIDE DEF D
    <3>5. PICK m : m = [node EXCEPT ![P].child[b] = null]
      OBVIOUS
    <3>6. /\ R \in Free /\ R \in Chunks /\ R # null /\ R # X /\ P \in Chunks
          /\ Under(X, P, lvl) /\ node[P].child[b] = R /\ Leaf(R)
      <4>1. R \in Free /\ R \in Chunks /\ R # null /\ P \in Chunks
        BY <1>1, NodeFacts
      <4> QED  BY <2>5, <3>2, <3>3, <4>1
    <3>7. node[P] \in malloc_tree_chunk /\ [node[P] EXCEPT !.child[b] = null] \in malloc_tree_chunk
      <4>1. node[P] \in malloc_tree_chunk
        BY <1>1, <3>6
      <4> QED  BY <4>1 DEF malloc_tree_chunk
    <3>8. /\ m \in [Chunks -> malloc_tree_chunk] /\ m[P] = [node[P] EXCEPT !.child[b] = null]
          /\ \A c \in Chunks : c # P => m[c] = node[c]
      <4>1. m = [node EXCEPT ![P] = [node[P] EXCEPT !.child[b] = null]]
        BY <1>1, <3>5, <3>6
      <4> QED  BY <1>1, <3>6, <3>7, <4>1
    <3>9. \A c \in Chunks : /\ m[c].index = node[c].index /\ m[c].parent = node[c].parent
                            /\ m[c].fd = node[c].fd /\ m[c].bk = node[c].bk
                            /\ m[c].child = IF c = P THEN [node[P].child EXCEPT ![b] = null]
                                            ELSE node[c].child
      BY <3>7, <3>8 DEF malloc_tree_chunk
    <3>10. Agree(R, X, lvl[X])
      <4>1. Under(P, R, lvl)
        <5>1. IsChild(R, P, lvl)
          BY <1>1, <3>6, NodeFacts
        <5>2. lvl[P] \in Nat /\ lvl[R] \in Nat
          BY <1>1, NodeFacts
        <5> QED  BY <5>1, <5>2 DEF Under, IsChild
      <4>2. Under(X, R, lvl)
        BY <1>1, <2>1, <3>6, <4>1, UnderUnder
      <4> QED  BY <4>2 DEF Under
    <3>11. \A t \in TreeNodes : node[t].parent # R
      <4> SUFFICES ASSUME NEW t \in TreeNodes, node[t].parent = R PROVE FALSE
        OBVIOUS
      <4>1. t \in Free /\ t # null
        BY <1>1, NodeFacts
      <4>2. PICK i \in {0, 1} : node[R].child[i] = t
        BY <1>1, <4>1, ParentIs
      <4> QED  BY <3>6, <4>1, <4>2 DEF Leaf
    <3>12. \A t \in TreeNodes : \A i \in {0, 1} :
            m[t].child[i] = IF node[t].child[i] = R THEN null ELSE node[t].child[i]
      <4> SUFFICES ASSUME NEW t \in TreeNodes, NEW i \in {0, 1}
                   PROVE  m[t].child[i] = IF node[t].child[i] = R THEN null ELSE node[t].child[i]
        OBVIOUS
      <4>1. t \in Chunks /\ node[P].child \in [{0, 1} -> Chunks \cup {null}]
        BY <1>1, <3>7, NodeFacts DEF malloc_tree_chunk
      <4>2. P = node[R].parent /\ b = DigitOf(R, lvl[P])
        BY <1>1, <3>6, ParentIs
      <4>3. node[t].child[i] = R => t = P /\ i = b
        BY <1>1, <4>2, ParentIs
      <4>4. CASE t = P
        BY <3>6, <3>9, <4>1, <4>3, <4>4
      <4>5. CASE t # P
        BY <3>9, <4>1, <4>3, <4>5
      <4> QED  BY <4>4, <4>5
    <3>13. \A i \in {0, 1} : m[R].child[i] = null
      BY <3>6, <3>12 DEF Leaf
    <3>14. \A c \in Free \ {X} : node[c].bk # X /\ node[c].fd # X
      <4> SUFFICES ASSUME NEW c \in Free, c # X PROVE node[c].bk # X /\ node[c].fd # X
        OBVIOUS
      <4>1. node[X].bk = X /\ node[X].fd = X
        BY <1>1, <1>7, <2>5, RingLinks
      <4>2. node[node[c].bk].fd = c /\ node[node[c].fd].bk = c
        BY <1>1, RingLinks
      <4> QED  BY <4>1, <4>2
    <3>15. /\ \A c \in Free : m[c].index = node[c].index /\ m[c].parent = node[c].parent
           /\ \A c \in Free \ {X} :
                /\ m[c].bk = IF node[c].bk = X THEN node[X].bk ELSE node[c].bk
                /\ m[c].fd = IF node[c].fd = X THEN node[X].fd ELSE node[c].fd
                /\ c \notin TreeNodes => m[c].child = node[c].child
      BY <1>1, <3>9, <3>14
    <3>16. treemap' = treemap /\ treebins' = [treebins EXCEPT ![I] = IF @ = X THEN R ELSE @]
           /\ node' = [take_place(m, X, R) EXCEPT ![X] = Payload]
      BY <2>2, <3>4, <3>5, <3>6
    <3>17. IF Len(Q[s]) > 1 THEN R = Q[s][2] ELSE R \in TreeNodes
      BY <1>3, <1>4, <2>5
    <3>18. TypeOK' /\ \E new : Shape(new, [Q EXCEPT ![s] = Queues!RemoveAt(@, 1)])'
      <4>1. Replacement(m, X, R, lvl, Q)
        BY <3>6, <3>8, <3>10, <3>11, <3>12, <3>13, <3>15, <3>17 DEF Replacement
      <4> QED  BY <1>2, <2>1, <3>16, <4>1, PlaceTaken
    <3> QED  BY <1>10, <3>18
  <2> QED  BY <2>3, <2>4, <2>5
<1> QED  BY <1>9, <1>10

-------------------------------------------------------------------------------
(* Searches.                                                               *)

(* Unsigned differences. *)
LEMMA WrapAround ==
  ASSUME NEW m \in Nat, NEW x \in Int, -m <= x, x < m
  PROVE  x % m = IF x < 0 THEN x + m ELSE x
<1>0. m > 0
  OBVIOUS
<1>1. PICK r \in 0 .. m - 1 : r = x % m
  BY <1>0
<1>2. PICK q \in Int : x = m * q + r
  <2>1. x \div m \in Int /\ x = m * (x \div m) + (x % m)
    BY <1>0
  <2>2. PICK q \in Int : q = x \div m
    BY <2>1
  <2> QED  BY <1>1, <2>1, <2>2
<1>3. ASSUME q >= 1 PROVE FALSE
  <2>1. m * 1 <= m * q
    BY <1>3
  <2>2. PICK u \in Int : u = m * q
    OBVIOUS
  <2> QED  BY <1>2, <2>1, <2>2
<1>4. ASSUME q <= -2 PROVE FALSE
  <2>1. m * q <= m * (-2) /\ m * (-2) = -(2 * m)
    BY <1>4
  <2>2. PICK u \in Int : u = m * q
    OBVIOUS
  <2> QED  BY <1>0, <1>2, <2>1, <2>2
<1>5. q = 0 \/ q = -1
  BY <1>3, <1>4
<1>6. m * 0 = 0 /\ m * (-1) = -m
  OBVIOUS
<1>7. CASE q = 0
  BY <1>1, <1>2, <1>6, <1>7
<1>8. CASE q = -1
  BY <1>1, <1>2, <1>6, <1>8
<1> QED  BY <1>5, <1>7, <1>8

(* The remainder that a chunk would leave, if it is large enough; one that *)
(* is not looks worse than none.                                           *)
LEMMA FitFacts ==
  ASSUME NEW nb \in size_t, NEW c \in Chunks
  PROVE  /\ Fit(c, nb) \in size_t /\ Fit(c, nb) \in Nat
         /\ ChunkSize[c] >= nb => Fit(c, nb) = ChunkSize[c] - nb
         /\ ChunkSize[c] < nb => Fit(c, nb) >= SizeRange - nb
<1>1. PICK m \in Nat : m = SizeRange /\ size_t = 0 .. m - 1
  BY SizeNumbers
<1>2. PICK s \in 0 .. m - 1 : s = ChunkSize[c]
  BY <1>1, ChunkFacts
<1>3. nb \in 0 .. m - 1
  BY <1>1
<1>4. -m <= s - nb /\ s - nb < m /\ s - nb \in Int
  BY <1>3
<1>5. (s - nb) % m = IF s - nb < 0 THEN (s - nb) + m ELSE s - nb
  BY <1>4, WrapAround
<1>6. Fit(c, nb) = (s - nb) % m
  BY <1>1, <1>2 DEF Fit
<1> QED  BY <1>1, <1>2, <1>3, <1>5, <1>6

(* The better of a choice and a chunk leaves no more than either. *)
LEMMA BetterFacts ==
  ASSUME NEW nb \in size_t, NEW c \in Chunks, NEW best \in Best
  PROVE  /\ Better(best, c, nb) \in Best
         /\ Better(best, c, nb).rsize <= best.rsize
         /\ Better(best, c, nb).rsize <= Fit(c, nb)
<1>1. Fit(c, nb) \in size_t /\ Fit(c, nb) \in Nat /\ size_t \subseteq Nat
  BY FitFacts, SizeNumbers
<1>2. best.rsize \in size_t /\ best.rsize \in Nat
  BY <1>1 DEF Best
<1> QED  BY <1>1, <1>2 DEF Better, Best

LeftmostEnds == {p \in [at : Chunks \cup {null}, best : Best] : p.at = null}

IsLeftmost(f, nb) ==
    \A t \in Chunks \cup {null}, b \in Best :
        f[[at |-> t, best |-> b]] =
            IF t = null THEN b
            ELSE f[[at |-> leftmost_child(t), best |-> Better(b, t, nb)]]

(* The walk of the leftmost path is defined. *)
LEMMA LeftmostIs ==
  ASSUME TypeOK, NEW nb \in size_t
  PROVE  \E f : /\ IsLeftmost(f, nb)
                /\ \A T0, best0 : leftmost_path(T0, best0, nb) = f[[at |-> T0, best |-> best0]]
<1> DEFINE N == [at : Chunks \cup {null}, best : Best]
           eqn(h) == [p \in N |->
                        IF p.at = null THEN p.best
                        ELSE h[[at |-> leftmost_child(p.at), best |-> Better(p.best, p.at, nb)]]]
           w == CHOOSE h : h = eqn(h)
<1>0. \A t \in Chunks : leftmost_child(t) \in Chunks \cup {null}
  BY DEF TypeOK, malloc_tree_chunk, leftmost_child
<1>1. \E h : h = eqn(h)
  <2> DEFINE ends == LeftmostEnds
             next == [p \in N \ ends |->
                        [at |-> leftmost_child(p.at), best |-> Better(p.best, p.at, nb)]]
             res == [p \in N |-> p.best]
  <2>1. next \in [N \ ends -> N]
    <3> SUFFICES ASSUME NEW p \in N, p \notin ends
                 PROVE  [at |-> leftmost_child(p.at), best |-> Better(p.best, p.at, nb)] \in N
      OBVIOUS
    <3>1. p.at \in Chunks /\ p.best \in Best
      BY DEF LeftmostEnds
    <3>2. leftmost_child(p.at) \in Chunks \cup {null} /\ Better(p.best, p.at, nb) \in Best
      BY <1>0, <3>1, BetterFacts
    <3> QED  BY <3>2
  <2>2. PICK f : f = [q \in N |-> IF q \in ends THEN res[q] ELSE f[next[q]]]
    <3> HIDE DEF next, res, ends, N
    <3>1. WalkDefined(N, ends, next, res)
      BY <2>1, WalkAll
    <3> QED  BY <3>1 DEF WalkDefined
  <2>3. \A q \in N : (q \in ends) = (q.at = null)
    BY DEF LeftmostEnds
  <2>4. f = eqn(f)
    <3>1. ASSUME NEW q \in N PROVE f[q] = eqn(f)[q]
      <4>1. CASE q \in ends
        BY <2>2, <2>3, <4>1
      <4>2. CASE q \notin ends
        BY <2>2, <2>3, <4>2
      <4> QED  BY <4>1, <4>2
    <3>2. f = [q \in N |-> f[q]]
      BY <2>2
    <3> QED  BY <3>1, <3>2
  <2> QED  BY <2>4
<1>2. w = eqn(w)
  <2> HIDE DEF eqn
  <2> QED  BY <1>1
<1>3. \A T0, best0 : leftmost_path(T0, best0, nb) = w[[at |-> T0, best |-> best0]]
  BY DEF leftmost_path
<1>4. IsLeftmost(w, nb)
  <2> SUFFICES ASSUME NEW t \in Chunks \cup {null}, NEW b \in Best
               PROVE  w[[at |-> t, best |-> b]] =
                        IF t = null THEN b
                        ELSE w[[at |-> leftmost_child(t), best |-> Better(b, t, nb)]]
    BY DEF IsLeftmost
  <2> HIDE DEF w
  <2>1. [at |-> t, best |-> b] \in N
    OBVIOUS
  <2> QED  BY <1>2, <2>1
<1> QED  BY <1>3, <1>4

(* r is the best of b and the nodes below a. *)
BestBelow(r, b, a, nb, lvl) ==
    /\ r \in Best /\ r.rsize <= b.rsize
    /\ r = b \/ \E u \in TreeNodes : Under(a, u, lvl) /\ r = [v |-> u, rsize |-> Fit(u, nb)]
    /\ \A u \in TreeNodes : Under(a, u, lvl) => r.rsize <= Fit(u, nb)

(* The least of the sizes below a node is on the leftmost path, for what   *)
(* is to the right of it is larger.                                        *)
LEMMA LeftmostPath ==
  ASSUME TypeOK, NEW lvl, Tries(lvl), NEW nb \in size_t, NEW a \in TreeNodes, NEW b \in Best,
         \A u \in TreeNodes : Under(a, u, lvl) => ChunkSize[u] >= nb,
         NEW r, r = leftmost_path(a, b, nb)
  PROVE  BestBelow(r, b, a, nb, lvl)
<1> DEFINE D == Digits(Index(a))
<1>1. a \in Chunks /\ D \in Nat /\ lvl[a] \in 0 .. D /\ Under(a, a, lvl)
      /\ (\A t \in TreeNodes : t \in Chunks /\ lvl[t] \in Nat) /\ size_t \subseteq Nat
  BY NodeFacts, ChunkFacts, SizeNumbers DEF Under, Agree
<1>2. PICK f : /\ IsLeftmost(f, nb)
               /\ \A T0, best0 : leftmost_path(T0, best0, nb) = f[[at |-> T0, best |-> best0]]
  BY LeftmostIs
<1> DEFINE Good(j) == \A t \in TreeNodes, e \in Best :
                         lvl[t] = j /\ Under(a, t, lvl)
                            => BestBelow(f[[at |-> t, best |-> e]], e, t, nb, lvl)
           T == {k \in 0 .. D : Good(D - k)}
<1>3. ASSUME NEW t \in TreeNodes, Under(a, t, lvl), NEW e \in Best,
             \A c \in TreeNodes, g \in Best : lvl[c] = lvl[t] + 1 /\ Under(a, c, lvl)
                            => BestBelow(f[[at |-> c, best |-> g]], g, c, nb, lvl)
      PROVE  BestBelow(f[[at |-> t, best |-> e]], e, t, nb, lvl)
  <2>1. t \in Chunks /\ t # null
    BY NodeFacts
  <2>2. PICK g \in Best : /\ g = Better(e, t, nb) /\ g.rsize <= e.rsize /\ g.rsize <= Fit(t, nb)
                          /\ g = e \/ g = [v |-> t, rsize |-> Fit(t, nb)]
    BY <2>1, BetterFacts DEF Better
  <2>3. PICK c : c = leftmost_child(t)
    OBVIOUS
  <2>4. PICK z : z = f[[at |-> t, best |-> e]] /\ z = f[[at |-> c, best |-> g]]
    BY <1>2, <2>1, <2>2, <2>3 DEF IsLeftmost
  <2>5. Under(t, t, lvl)
    BY <1>1 DEF Under, Agree
  <2>6. e.rsize \in Nat /\ g.rsize \in Nat /\ \A u \in TreeNodes : Fit(u, nb) \in Nat
    BY <1>1, FitFacts DEF Best
  <2>7. CASE c = null
    <3>1. z = g
      BY <1>2, <2>4, <2>7 DEF IsLeftmost
    <3>2. \A u \in TreeNodes : Under(t, u, lvl) => u = t
      <4> SUFFICES ASSUME NEW u \in TreeNodes, Under(t, u, lvl), u # t PROVE FALSE
        OBVIOUS
      <4>1. PICK d \in {0, 1} : node[t].child[d] \in TreeNodes
        BY UnderSplit
      <4>2. node[t].child[d] # null
        BY <4>1, NodeFacts
      <4> QED  BY <2>3, <2>7, <4>2 DEF leftmost_child
    <3>3. BestBelow(g, e, t, nb, lvl)
      BY <2>2, <2>5, <3>2 DEF BestBelow
    <3> QED  BY <2>4, <3>1, <3>3
  <2>8. CASE c # null
    <3>1. PICK d \in {0, 1} : c = node[t].child[d] /\ (node[t].child[0] # null => d = 0)
      BY <2>3 DEF leftmost_child
    <3>2. c \in TreeNodes /\ lvl[c] = lvl[t] + 1 /\ c \in Chunks
      BY <2>8, <3>1, NodeFacts DEF IsChild
    <3>3. Under(c, c, lvl)
      BY <1>1, <3>2 DEF Under, Agree
    <3>4. \A u \in TreeNodes : Under(c, u, lvl) => Under(t, u, lvl)
      BY <2>8, <3>1, UnderChild
    <3>5. Under(a, c, lvl)
      BY <1>3, <3>2, <3>3, <3>4, UnderUnder
    <3>6. BestBelow(z, g, c, nb, lvl)
      BY <1>3, <2>4, <3>2, <3>5
    <3>7. /\ z \in Best /\ z.rsize <= g.rsize /\ z.rsize \in Nat
          /\ z = g \/ \E u \in TreeNodes : Under(c, u, lvl) /\ z = [v |-> u, rsize |-> Fit(u, nb)]
          /\ \A u \in TreeNodes : Under(c, u, lvl) => z.rsize <= Fit(u, nb)
      BY <1>1, <3>6 DEF BestBelow, Best
    <3>8. ASSUME NEW u \in TreeNodes, Under(t, u, lvl) PROVE z.rsize <= Fit(u, nb)
      <4>1. CASE u = t
        BY <2>2, <2>6, <3>7, <4>1
      <4>2. CASE u # t
        <5>1. PICK i \in {0, 1} : node[t].child[i] \in TreeNodes /\ Under(node[t].child[i], u, lvl)
          BY <3>8, <4>2, UnderSplit
        <5>2. CASE i = d
          BY <3>1, <3>7, <5>1, <5>2
        <5>3. CASE i # d
          <6>1. node[t].child[i] # null
            BY <5>1, NodeFacts
          <6>2. d = 0 /\ i = 1
            BY <3>1, <5>3, <6>1
          <6>3. ChunkSize[c] < ChunkSize[u]
            BY <2>8, <3>1, <3>3, <5>1, <6>1, <6>2, ChildOrder
          <6>4. ChunkSize[c] >= nb /\ ChunkSize[u] >= nb
            BY <1>3, <3>2, <3>5, <3>8, UnderUnder
          <6>5. Fit(c, nb) < Fit(u, nb)
            <7>1. Fit(c, nb) = ChunkSize[c] - nb /\ Fit(u, nb) = ChunkSize[u] - nb
              BY <1>1, <3>2, <6>4, FitFacts
            <7>2. ChunkSize[c] \in Nat /\ ChunkSize[u] \in Nat /\ nb \in Nat
              BY <1>1, <3>2, ChunkFacts
            <7> QED  BY <6>3, <7>1, <7>2
          <6>6. z.rsize <= Fit(c, nb)
            BY <3>2, <3>3, <3>7
          <6> QED  BY <2>6, <3>2, <3>7, <6>5, <6>6
        <5> QED  BY <5>2, <5>3
      <4> QED  BY <4>1, <4>2
    <3>9. z = e \/ \E u \in TreeNodes : Under(t, u, lvl) /\ z = [v |-> u, rsize |-> Fit(u, nb)]
      BY <2>2, <2>5, <3>4, <3>7
    <3>10. z.rsize <= e.rsize
      BY <2>2, <2>6, <3>7
    <3> QED  BY <2>4, <3>7, <3>8, <3>9, <3>10 DEF BestBelow
  <2> QED  BY <2>7, <2>8
<1>4. Good(D)
  <2> SUFFICES ASSUME NEW t \in TreeNodes, NEW e \in Best, lvl[t] = D, Under(a, t, lvl)
               PROVE  BestBelow(f[[at |-> t, best |-> e]], e, t, nb, lvl)
    OBVIOUS
  <2>1. \A c \in TreeNodes : ~(lvl[c] = lvl[t] + 1 /\ Under(a, c, lvl))
    <3>1. \A c \in TreeNodes : lvl[c] \in 0 .. Digits(Index(c))
      BY NodeFacts
    <3>2. \A c \in TreeNodes : Under(a, c, lvl) => Index(c) = Index(a)
      BY DEF Under, Agree
    <3> QED  BY <1>1, <3>1, <3>2
  <2> QED  BY <1>3, <2>1
<1>5. ASSUME NEW j \in 0 .. D - 1, Good(j + 1) PROVE Good(j)
  BY <1>3, <1>5
<1>6. \A k \in 0 .. D : k \in T
  <2> HIDE DEF Good, D
  <2>1. 0 \in T
    <3>1. D - 0 = D /\ 0 \in 0 .. D
      BY <1>1
    <3> QED  BY <1>4, <3>1
  <2>2. ASSUME NEW k \in 1 .. D, k - 1 \in T PROVE k \in T
    <3>1. k \in 0 .. D /\ D - k \in 0 .. D - 1 /\ (D - k) + 1 = D - (k - 1)
      BY <1>1
    <3>2. Good((D - k) + 1)
      BY <2>2, <3>1
    <3> QED  BY <1>5, <3>1, <3>2
  <2> HIDE DEF T
  <2> QED  BY <1>1, <2>1, <2>2, IntervalInduction
<1>7. Good(lvl[a])
  <2>1. D - lvl[a] \in 0 .. D /\ D - (D - lvl[a]) = lvl[a]
    BY <1>1
  <2>2. D - lvl[a] \in T
    <3> HIDE DEF T
    <3> QED  BY <1>6, <2>1
  <2> HIDE DEF Good
  <2> QED  BY <2>1, <2>2
<1> QED  BY <1>1, <1>2, <1>7

(* The right subtree that the descent has passed by after the node t. *)
Passed(t, z, K) ==
    IF node[t].child[1] # null /\ node[t].child[1] # node[t].child[TopBit(K)]
    THEN node[t].child[1] ELSE z

SizedSteps == [at : Chunks, best : Best, rst : Chunks \cup {null}, key : size_t]
SizedEnds(nb) ==
    {p \in SizedSteps : Better(p.best, p.at, nb).rsize = 0 \/ node[p.at].child[TopBit(p.key)] = null}

IsSized(f, nb) ==
    \A t \in Chunks, e \in Best, z \in Chunks \cup {null}, K \in size_t :
        f[[at |-> t, best |-> e, rst |-> z, key |-> K]] =
            IF Better(e, t, nb).rsize = 0 THEN [best |-> Better(e, t, nb), rst |-> null]
            ELSE IF node[t].child[TopBit(K)] = null
            THEN [best |-> Better(e, t, nb), rst |-> Passed(t, z, K)]
            ELSE f[[at |-> node[t].child[TopBit(K)], best |-> Better(e, t, nb),
                    rst |-> Passed(t, z, K), key |-> ShiftLeft(K)]]

(* The walk of the descent for a request is defined. *)
LEMMA SizedIs ==
  ASSUME TypeOK, NEW nb \in size_t
  PROVE  \E f : /\ IsSized(f, nb)
                /\ \A T0, best0, K0 : sized_path(T0, best0, nb, K0)
                                        = f[[at |-> T0, best |-> best0, rst |-> null, key |-> K0]]
<1> DEFINE N == SizedSteps
           eqn(h) == [p \in N |->
                        IF Better(p.best, p.at, nb).rsize = 0
                        THEN [best |-> Better(p.best, p.at, nb), rst |-> null]
                        ELSE IF node[p.at].child[TopBit(p.key)] = null
                        THEN [best |-> Better(p.best, p.at, nb), rst |-> Passed(p.at, p.rst, p.key)]
                        ELSE h[[at |-> node[p.at].child[TopBit(p.key)],
                                best |-> Better(p.best, p.at, nb),
                                rst |-> Passed(p.at, p.rst, p.key), key |-> ShiftLeft(p.key)]]]
           w == CHOOSE h : h = eqn(h)
<1>0. ASSUME NEW t \in Chunks, NEW K \in size_t, NEW z \in Chunks \cup {null}
      PROVE  /\ node[t].child[TopBit(K)] \in Chunks \cup {null}
             /\ Passed(t, z, K) \in Chunks \cup {null} /\ ShiftLeft(K) \in size_t
  <2>1. node[t].child \in [{0, 1} -> Chunks \cup {null}]
    BY DEF TypeOK, malloc_tree_chunk
  <2>2. TopBit(K) \in {0, 1} /\ ShiftLeft(K) \in size_t
    BY KeyBits
  <2> QED  BY <2>1, <2>2 DEF Passed
<1>1. \E h : h = eqn(h)
  <2> DEFINE ends == SizedEnds(nb)
             next == [p \in N \ ends |->
                        [at |-> node[p.at].child[TopBit(p.key)],
                         best |-> Better(p.best, p.at, nb),
                         rst |-> Passed(p.at, p.rst, p.key), key |-> ShiftLeft(p.key)]]
             res == [p \in N |-> [best |-> Better(p.best, p.at, nb),
                                  rst |-> IF Better(p.best, p.at, nb).rsize = 0 THEN null
                                          ELSE Passed(p.at, p.rst, p.key)]]
  <2>1. next \in [N \ ends -> N]
    <3> SUFFICES ASSUME NEW p \in N, p \notin ends
                 PROVE  [at |-> node[p.at].child[TopBit(p.key)],
                         best |-> Better(p.best, p.at, nb),
                         rst |-> Passed(p.at, p.rst, p.key), key |-> ShiftLeft(p.key)] \in N
      OBVIOUS
    <3>1. /\ p.at \in Chunks /\ p.best \in Best /\ p.key \in size_t /\ p.rst \in Chunks \cup {null}
          /\ node[p.at].child[TopBit(p.key)] # null
      BY DEF SizedEnds, SizedSteps
    <3>2. Better(p.best, p.at, nb) \in Best
      BY <3>1, BetterFacts
    <3>3. /\ node[p.at].child[TopBit(p.key)] \in Chunks
          /\ Passed(p.at, p.rst, p.key) \in Chunks \cup {null} /\ ShiftLeft(p.key) \in size_t
      BY <1>0, <3>1
    <3> QED  BY <3>2, <3>3 DEF SizedSteps
  <2>2. PICK f : f = [q \in N |-> IF q \in ends THEN res[q] ELSE f[next[q]]]
    <3> HIDE DEF next, res, ends, N
    <3>1. WalkDefined(N, ends, next, res)
      BY <2>1, WalkAll
    <3> QED  BY <3>1 DEF WalkDefined
  <2>3. \A q \in N : q \in ends <=> \/ Better(q.best, q.at, nb).rsize = 0
                                   \/ node[q.at].child[TopBit(q.key)] = null
    BY DEF SizedEnds
  <2>4. f = eqn(f)
    <3>1. ASSUME NEW q \in N PROVE f[q] = eqn(f)[q]
      <4>1. CASE q \in ends
        BY <2>2, <2>3, <4>1
      <4>2. CASE q \notin ends
        BY <2>2, <2>3, <4>2
      <4> QED  BY <4>1, <4>2
    <3>2. f = [q \in N |-> f[q]]
      BY <2>2
    <3> QED  BY <3>1, <3>2
  <2> QED  BY <2>4
<1>2. w = eqn(w)
  <2> HIDE DEF eqn
  <2> QED  BY <1>1
<1>3. \A T0, best0, K0 : sized_path(T0, best0, nb, K0)
                            = w[[at |-> T0, best |-> best0, rst |-> null, key |-> K0]]
  BY DEF sized_path, Passed, SizedSteps
<1>4. IsSized(w, nb)
  <2> SUFFICES ASSUME NEW t \in Chunks, NEW e \in Best, NEW z \in Chunks \cup {null}, NEW K \in size_t
               PROVE  w[[at |-> t, best |-> e, rst |-> z, key |-> K]] =
            IF Better(e, t, nb).rsize = 0 THEN [best |-> Better(e, t, nb), rst |-> null]
            ELSE IF node[t].child[TopBit(K)] = null
            THEN [best |-> Better(e, t, nb), rst |-> Passed(t, z, K)]
            ELSE w[[at |-> node[t].child[TopBit(K)], best |-> Better(e, t, nb),
                    rst |-> Passed(t, z, K), key |-> ShiftLeft(K)]]
    BY DEF IsSized
  <2> HIDE DEF w
  <2>1. [at |-> t, best |-> e, rst |-> z, key |-> K] \in N
    BY DEF SizedSteps
  <2> QED  BY <1>2, <2>1
<1> QED  BY <1>3, <1>4

(* No chunk yet, and the remainder of one that would be larger than any. *)
None(nb) == [v |-> null, rsize |-> (-nb) % SizeRange]

(* The best so far is none, or a node of the bin of the request. *)
Reached(best, nb) ==
    /\ best \in Best
    /\ \/ best = None(nb)
       \/ /\ best.v \in TreeNodes /\ Index(best.v) = compute_tree_index(nb)
          /\ ChunkSize[best.v] >= nb /\ best.rsize = ChunkSize[best.v] - nb

(* The subtree of the bin that was passed by holds large enough sizes. *)
PassedBy(z, nb, lvl) ==
    z # null =>
        /\ z \in TreeNodes /\ Index(z) = compute_tree_index(nb)
        /\ \A w \in TreeNodes : Under(z, w, lvl) => ChunkSize[w] >= nb

(* The best, or what was passed by, is no larger than u. *)
Covered(u, best, z, nb, lvl) ==
    \/ best.rsize <= ChunkSize[u] - nb
    \/ z # null /\ \E w \in TreeNodes : Under(z, w, lvl) /\ ChunkSize[w] <= ChunkSize[u]

InBin(u, nb) == Index(u) = compute_tree_index(nb) /\ ChunkSize[u] >= nb

(* What the descent leaves to the search of the leftmost path. *)
Searched(best, z, nb, lvl) ==
    /\ Reached(best, nb) /\ PassedBy(z, nb, lvl)
    /\ \A u \in TreeNodes : InBin(u, nb) => Covered(u, best, z, nb, lvl)

(* What holds when the descent comes to the node t. *)
Searching(t, best, z, nb, lvl) ==
    /\ Index(t) = compute_tree_index(nb)
    /\ Pre(t, lvl[t]) = Prefix(nb, compute_tree_index(nb), lvl[t])
    /\ Reached(best, nb) /\ PassedBy(z, nb, lvl)
    /\ z # null => \A x, w \in TreeNodes : Under(t, x, lvl) /\ Under(z, w, lvl)
                                              => ChunkSize[x] < ChunkSize[w]
    /\ \A u \in TreeNodes : InBin(u, nb) => Under(t, u, lvl) \/ Covered(u, best, z, nb, lvl)

(* The numbers of a request for a large chunk. *)
LEMMA RequestFacts ==
  ASSUME NEW nb, IsSize(nb)
  PROVE  /\ nb \in size_t /\ nb \in Nat /\ nb > 0
         /\ compute_tree_index(nb) \in Bins /\ Digits(compute_tree_index(nb)) \in 2 .. SizeWidth
         /\ None(nb) \in Best /\ None(nb).rsize = SizeRange - nb /\ None(nb).v = null
<1>1. PICK m \in Nat : m = SizeRange /\ size_t = 0 .. m - 1
  BY SizeNumbers
<1>2. nb \in size_t /\ nb \in Nat /\ nb > 0
  <2>1. MIN_LARGE_SIZE \in Nat \ {0}
    BY SizeNumbers
  <2> QED  BY <1>1, <2>1 DEF IsSize
<1>3. compute_tree_index(nb) \in Bins /\ Digits(compute_tree_index(nb)) \in 2 .. SizeWidth
  BY IndexFacts
<1>4. (-nb) % m = m - nb
  <2>1. -nb \in Int /\ -m <= -nb /\ -nb < 0 /\ -nb < m /\ (-nb) + m = m - nb
    BY <1>1, <1>2
  <2> QED  BY <2>1, WrapAround
<1>5. (-nb) % SizeRange = m - nb /\ m - nb \in size_t
  BY <1>1, <1>2, <1>4
<1>6. None(nb) = [v |-> null, rsize |-> m - nb]
  BY <1>5 DEF None
<1> QED  BY <1>1, <1>2, <1>3, <1>5, <1>6 DEF Best

(* The best after a node that the search comes to. *)
LEMMA ReachedNext ==
  ASSUME NEW nb, IsSize(nb), NEW best, Reached(best, nb),
         NEW t \in TreeNodes, Index(t) = compute_tree_index(nb)
  PROVE  /\ best.rsize \in Nat /\ best.rsize <= SizeRange - nb
         /\ Reached(Better(best, t, nb), nb) /\ Better(best, t, nb).rsize \in Nat
         /\ Better(best, t, nb).rsize <= best.rsize
         /\ ChunkSize[t] >= nb => Better(best, t, nb).rsize <= ChunkSize[t] - nb
<1>1. t \in Chunks /\ \A c \in TreeNodes : c \in Chunks
  BY DEF TreeNodes
<1>2. PICK m \in Nat : m = SizeRange /\ size_t = 0 .. m - 1
  BY SizeNumbers
<1>3. nb \in size_t /\ nb \in Nat /\ nb > 0 /\ None(nb).rsize = m - nb
  BY <1>2, RequestFacts
<1>4. best \in Best /\ best.rsize \in Nat /\ best.rsize <= m - nb
  <2>1. best \in Best /\ best.rsize \in 0 .. m - 1
    BY <1>2 DEF Reached, Best
  <2>2. ASSUME best.v \in TreeNodes, best.rsize = ChunkSize[best.v] - nb PROVE best.rsize <= m - nb
    <3>1. ChunkSize[best.v] \in 0 .. m - 1
      BY <1>1, <1>2, <2>2, ChunkFacts
    <3> QED  BY <1>3, <2>2, <3>1
  <2> QED  BY <1>3, <2>1, <2>2 DEF Reached
<1>5. /\ Better(best, t, nb) \in Best /\ Better(best, t, nb).rsize <= best.rsize
      /\ Better(best, t, nb).rsize <= Fit(t, nb) /\ Better(best, t, nb).rsize \in Nat
  <2>1. /\ Better(best, t, nb) \in Best /\ Better(best, t, nb).rsize <= best.rsize
        /\ Better(best, t, nb).rsize <= Fit(t, nb)
    BY <1>1, <1>3, <1>4, BetterFacts
  <2>2. Better(best, t, nb).rsize \in 0 .. m - 1
    BY <1>2, <2>1 DEF Best
  <2> QED  BY <2>1, <2>2
<1>6. CASE ChunkSize[t] >= nb
  <2>1. Fit(t, nb) = ChunkSize[t] - nb
    BY <1>1, <1>3, <1>6, FitFacts
  <2>2. Better(best, t, nb) = best \/ Better(best, t, nb) = [v |-> t, rsize |-> ChunkSize[t] - nb]
    BY <2>1 DEF Better
  <2>3. Reached(Better(best, t, nb), nb)
    BY <1>5, <1>6, <2>2 DEF Reached
  <2> QED  BY <1>2, <1>4, <1>5, <2>1, <2>3
<1>7. CASE ~(ChunkSize[t] >= nb)
  <2>1. ChunkSize[t] \in Nat
    BY <1>1, ChunkFacts
  <2>2. Fit(t, nb) >= m - nb /\ Fit(t, nb) \in Nat
    BY <1>1, <1>2, <1>3, <1>7, <2>1, FitFacts
  <2>3. Better(best, t, nb) = best
    BY <1>2, <1>3, <1>4, <2>2 DEF Better
  <2> QED  BY <1>2, <1>4, <1>7, <2>3
<1> QED  BY <1>6, <1>7

(* One step of the descent for a request: what is not below the next node  *)
(* is too small, or no smaller than the best or than what was passed by.   *)
LEMMA SizedStep ==
  ASSUME TypeOK, NEW lvl, Tries(lvl), NEW nb, IsSize(nb), NEW I, I = compute_tree_index(nb),
         NEW t \in TreeNodes, NEW best, NEW z, Searching(t, best, z, nb, lvl),
         NEW K, K = Key(nb, I, lvl[t]), NEW found, found = Better(best, t, nb)
  PROVE  /\ found.rsize = 0 => Searched(found, null, nb, lvl)
         /\ found.rsize # 0 =>
              /\ lvl[t] \in 0 .. Digits(I) - 1
              /\ node[t].child[TopBit(K)] = null => Searched(found, Passed(t, z, K), nb, lvl)
              /\ node[t].child[TopBit(K)] # null =>
                   /\ node[t].child[TopBit(K)] \in TreeNodes
                   /\ lvl[node[t].child[TopBit(K)]] = lvl[t] + 1
                   /\ ShiftLeft(K) = Key(nb, I, lvl[t] + 1)
                   /\ Searching(node[t].child[TopBit(K)], found, Passed(t, z, K), nb, lvl)
<1>1. /\ Index(t) = I /\ Pre(t, lvl[t]) = Prefix(nb, I, lvl[t])
      /\ Reached(best, nb) /\ PassedBy(z, nb, lvl)
      /\ z # null => \A x, w \in TreeNodes : Under(t, x, lvl) /\ Under(z, w, lvl)
                                                => ChunkSize[x] < ChunkSize[w]
      /\ \A u \in TreeNodes : InBin(u, nb) => Under(t, u, lvl) \/ Covered(u, best, z, nb, lvl)
  BY DEF Searching
<1>2. nb \in size_t /\ nb \in Nat /\ nb > 0 /\ Digits(I) \in 2 .. SizeWidth
  BY RequestFacts
<1>3. /\ \A c \in TreeNodes : c \in Chunks /\ c # null /\ ChunkSize[c] \in Nat
      /\ Digits(I) \in Nat /\ lvl[t] \in 0 .. Digits(I) /\ lvl[t] \in Nat
  BY <1>1, NodeFacts, ChunkFacts
<1>4. /\ best.rsize \in Nat /\ found.rsize \in Nat /\ Reached(found, nb) /\ found.rsize <= best.rsize
      /\ ChunkSize[t] >= nb => found.rsize <= ChunkSize[t] - nb
  BY <1>1, ReachedNext
<1>5. ASSUME found.rsize = 0 PROVE Searched(found, null, nb, lvl)
  <2>1. \A u \in TreeNodes : InBin(u, nb) => found.rsize <= ChunkSize[u] - nb
    BY <1>2, <1>3, <1>5 DEF InBin
  <2> QED  BY <1>4, <2>1 DEF Searched, PassedBy, Covered
<1>6. ASSUME found.rsize # 0 PROVE lvl[t] \in 0 .. Digits(I) - 1
  <2>1. ASSUME lvl[t] = Digits(I) PROVE FALSE
    <3>1. ChunkSize[t] = nb
      <4>1. Prefix(ChunkSize[t], I, Digits(I)) = Prefix(nb, I, Digits(I))
        BY <1>1, <2>1 DEF Pre
      <4> QED  BY <1>2, <1>3, <4>1, PrefixWhole
    <3>2. found.rsize <= ChunkSize[t] - nb
      BY <1>2, <1>4, <3>1
    <3> QED  BY <1>2, <1>4, <1>6, <3>1, <3>2
  <2> QED  BY <1>3, <2>1
<1>7. SUFFICES ASSUME found.rsize # 0, NEW j, j = lvl[t], j \in 0 .. Digits(I) - 1
      PROVE  /\ node[t].child[TopBit(K)] = null => Searched(found, Passed(t, z, K), nb, lvl)
             /\ node[t].child[TopBit(K)] # null =>
                  /\ node[t].child[TopBit(K)] \in TreeNodes
                  /\ lvl[node[t].child[TopBit(K)]] = j + 1
                  /\ ShiftLeft(K) = Key(nb, I, j + 1)
                  /\ Searching(node[t].child[TopBit(K)], found, Passed(t, z, K), nb, lvl)
  BY <1>5, <1>6
<1>8. PICK b \in {0, 1} : /\ b = TopBit(K) /\ ShiftLeft(K) = Key(nb, I, j + 1)
                          /\ Prefix(nb, I, j + 1) = 2 * Prefix(nb, I, j) + b
                          /\ Prefix(nb, I, j) \in Nat
  <2>1. TopBit(K) = Digit(nb, I, j) /\ ShiftLeft(K) = Key(nb, I, j + 1)
    BY <1>2, <1>7, KeyStep
  <2>2. /\ Prefix(nb, I, j) \in Nat /\ Digit(nb, I, j) \in {0, 1}
        /\ Prefix(nb, I, j + 1) = 2 * Prefix(nb, I, j) + Digit(nb, I, j)
    BY <1>2, <1>7, PrefixStep
  <2> QED  BY <2>1, <2>2
<1>9. PICK next : next = node[t].child[b]
  OBVIOUS
<1>10. PICK y : y = Passed(t, z, K)
  OBVIOUS
<1>11. PICK r : r = node[t].child[1]
  OBVIOUS
<1>12. y = IF r # null /\ r # next THEN r ELSE z
  BY <1>8, <1>9, <1>10, <1>11 DEF Passed
<1>13. \A i \in {0, 1} : node[t].child[i] # null =>
          /\ node[t].child[i] \in TreeNodes /\ lvl[node[t].child[i]] = j + 1
          /\ Agree(node[t].child[i], t, j) /\ DigitOf(node[t].child[i], j) = i
  BY <1>7, NodeFacts DEF IsChild
<1>14. ASSUME NEW i \in {0, 1}, node[t].child[i] # null,
              NEW x \in TreeNodes, Under(node[t].child[i], x, lvl)
       PROVE  /\ Under(t, x, lvl) /\ x # t /\ Index(x) = I
              /\ Prefix(ChunkSize[x], I, j + 1) = 2 * Prefix(nb, I, j) + i
  <2>1. Under(t, x, lvl) /\ x # t /\ Pre(x, j + 1) = 2 * Pre(t, j) + i
    BY <1>7, <1>14, UnderChild
  <2>2. Index(x) = I
    BY <1>1, <2>1 DEF Under, Agree
  <2> QED  BY <1>1, <1>7, <2>1, <2>2 DEF Pre
<1>15. j + 1 \in 0 .. Digits(I)
  BY <1>3, <1>7
(* What is to the left of the digit of the request is less than it, and    *)
(* what is to the right more.                                              *)
<1>16. ASSUME NEW i \in {0, 1}, node[t].child[i] # null,
              NEW x \in TreeNodes, Under(node[t].child[i], x, lvl)
       PROVE  /\ i = 0 /\ b = 1 => ChunkSize[x] < nb
              /\ i = 1 /\ b = 0 => nb < ChunkSize[x]
  <2>1. Prefix(ChunkSize[x], I, j + 1) = 2 * Prefix(nb, I, j) + i
    BY <1>14, <1>16
  <2>2. ASSUME i = 0, b = 1 PROVE ChunkSize[x] < nb
    <3>1. Prefix(ChunkSize[x], I, j + 1) < Prefix(nb, I, j + 1)
      BY <1>8, <2>1, <2>2
    <3> QED  BY <1>2, <1>3, <1>15, <3>1, PrefixLess
  <2>3. ASSUME i = 1, b = 0 PROVE nb < ChunkSize[x]
    <3>1. Prefix(nb, I, j + 1) < Prefix(ChunkSize[x], I, j + 1)
      BY <1>8, <2>1, <2>3
    <3> QED  BY <1>2, <1>3, <1>15, <3>1, PrefixLess
  <2> QED  BY <2>2, <2>3
<1>17. ASSUME r # null, r # next
       PROVE  /\ y = r /\ b = 0 /\ r \in TreeNodes /\ Under(r, r, lvl) /\ Under(t, r, lvl)
              /\ Index(r) = I
              /\ \A w \in TreeNodes : Under(r, w, lvl) => ChunkSize[w] >= nb
  <2>1. y = r /\ b = 0
    BY <1>8, <1>9, <1>11, <1>12, <1>17
  <2>2. r \in TreeNodes
    BY <1>11, <1>13, <1>17
  <2>3. Under(r, r, lvl)
    <3>1. lvl[r] \in Nat
      BY <2>2, NodeFacts
    <3> QED  BY <2>2, <3>1 DEF Under, Agree
  <2>4. Under(t, r, lvl) /\ Index(r) = I
    BY <1>11, <1>14, <1>17, <2>2, <2>3
  <2>5. ASSUME NEW w \in TreeNodes, Under(r, w, lvl) PROVE ChunkSize[w] >= nb
    <3>1. nb < ChunkSize[w]
      BY <1>11, <1>16, <1>17, <2>1, <2>5
    <3> QED  BY <1>2, <1>3, <3>1
  <2> QED  BY <2>1, <2>2, <2>3, <2>4, <2>5
<1>18. PassedBy(y, nb, lvl)
  <2>1. CASE r # null /\ r # next
    BY <1>17, <2>1 DEF PassedBy
  <2>2. CASE ~(r # null /\ r # next)
    BY <1>1, <1>12, <2>2
  <2> QED  BY <2>1, <2>2
<1>19. ASSUME NEW u \in TreeNodes, InBin(u, nb)
       PROVE  (next # null /\ Under(next, u, lvl)) \/ Covered(u, found, y, nb, lvl)
  <2>1. ChunkSize[u] >= nb /\ ChunkSize[u] \in Nat
    BY <1>3, <1>19 DEF InBin
  <2>2. CASE u = t
    BY <1>4, <2>1, <2>2 DEF Covered
  <2>3. CASE u # t /\ Under(t, u, lvl)
    <3>1. PICK i \in {0, 1} : node[t].child[i] \in TreeNodes /\ Under(node[t].child[i], u, lvl)
      BY <2>3, UnderSplit
    <3>2. node[t].child[i] # null
      BY <1>3, <3>1
    <3>3. CASE i = b
      BY <1>9, <3>1, <3>2, <3>3
    <3>4. CASE i # b
      <4>1. ~(i = 0 /\ b = 1)
        BY <1>2, <1>16, <2>1, <3>1, <3>2
      <4>2. i = 1 /\ b = 0
        BY <3>4, <4>1
      <4>3. r # next
        <5>1. next # null => DigitOf(next, j) = 0
          BY <1>9, <1>13, <4>2
        <5>2. DigitOf(r, j) = 1
          BY <1>11, <1>13, <3>2, <4>2
        <5> QED  BY <1>11, <3>2, <4>2, <5>1, <5>2
      <4>4. y = r /\ r # null
        BY <1>11, <1>12, <3>2, <4>2, <4>3
      <4> QED  BY <1>11, <2>1, <3>1, <4>2, <4>4 DEF Covered
    <3> QED  BY <3>3, <3>4
  <2>4. CASE ~Under(t, u, lvl)
    <3>1. Covered(u, best, z, nb, lvl)
      BY <1>1, <1>19, <2>4
    <3>2. CASE best.rsize <= ChunkSize[u] - nb
      BY <1>2, <1>4, <2>1, <3>2 DEF Covered
    <3>3. CASE z # null /\ \E w \in TreeNodes : Under(z, w, lvl) /\ ChunkSize[w] <= ChunkSize[u]
      <4>1. PICK w \in TreeNodes : Under(z, w, lvl) /\ ChunkSize[w] <= ChunkSize[u]
        BY <3>3
      <4>2. CASE r # null /\ r # next
        <5>1. r \in TreeNodes /\ Under(r, r, lvl) /\ Under(t, r, lvl) /\ y = r
          BY <1>17, <4>2
        <5>2. ChunkSize[r] < ChunkSize[w]
          BY <1>1, <3>3, <4>1, <5>1
        <5>3. ChunkSize[r] <= ChunkSize[u]
          BY <1>3, <2>1, <4>1, <5>1, <5>2
        <5> QED  BY <4>2, <5>1, <5>3 DEF Covered
      <4>3. CASE ~(r # null /\ r # next)
        BY <1>12, <3>3, <4>3 DEF Covered
      <4> QED  BY <4>2, <4>3
    <3> QED  BY <3>1, <3>2, <3>3 DEF Covered
  <2> QED  BY <2>2, <2>3, <2>4
<1>20. ASSUME next = null PROVE Searched(found, y, nb, lvl)
  BY <1>4, <1>18, <1>19, <1>20 DEF Searched
<1>21. ASSUME next # null
       PROVE  next \in TreeNodes /\ lvl[next] = j + 1 /\ Searching(next, found, y, nb, lvl)
  <2>1. next \in TreeNodes /\ lvl[next] = j + 1
    BY <1>9, <1>13, <1>21
  <2>2. Under(next, next, lvl)
    <3>1. lvl[next] \in Nat
      BY <2>1, NodeFacts
    <3> QED  BY <2>1, <3>1 DEF Under, Agree
  <2>3. Index(next) = I /\ Pre(next, lvl[next]) = Prefix(nb, I, lvl[next])
    <3>1. Index(next) = I /\ Prefix(ChunkSize[next], I, j + 1) = 2 * Prefix(nb, I, j) + b
      BY <1>9, <1>14, <1>21, <2>1, <2>2
    <3> QED  BY <1>8, <2>1, <3>1 DEF Pre
  <2>4. ASSUME y # null, NEW x \in TreeNodes, NEW w \in TreeNodes,
               Under(next, x, lvl), Under(y, w, lvl)
        PROVE  ChunkSize[x] < ChunkSize[w]
    <3>1. CASE r # null /\ r # next
      BY <1>9, <1>11, <1>17, <1>21, <2>4, <3>1, ChildOrder
    <3>2. CASE ~(r # null /\ r # next)
      <4>1. Under(t, x, lvl)
        BY <1>9, <1>14, <1>21, <2>4
      <4> QED  BY <1>1, <1>12, <2>4, <3>2, <4>1
    <3> QED  BY <3>1, <3>2
  <2>5. \A u \in TreeNodes : InBin(u, nb) => Under(next, u, lvl) \/ Covered(u, found, y, nb, lvl)
    BY <1>19
  <2> QED  BY <1>4, <1>18, <2>1, <2>3, <2>4, <2>5 DEF Searching
<1> QED  BY <1>8, <1>9, <1>10, <1>20, <1>21

(* The descent for a request, from the root of its bin. *)
LEMMA SizedPath ==
  ASSUME TypeOK, NEW lvl, Tries(lvl), NEW nb, IsSize(nb), NEW I, I = compute_tree_index(nb),
         treebins[I] # null,
         NEW r, r = sized_path(treebins[I], None(nb), nb, sizebits(nb, I))
  PROVE  Searched(r.best, r.rst, nb, lvl)
<1> DEFINE D == Digits(I)
           t0 == treebins[I]
           Good(j) == \A f : \A t \in TreeNodes, e \in Best, z \in Chunks \cup {null} :
                        IsSized(f, nb) /\ lvl[t] = j /\ Searching(t, e, z, nb, lvl)
                          => LET v == f[[at |-> t, best |-> e, rst |-> z, key |-> Key(nb, I, j)]]
                             IN Searched(v.best, v.rst, nb, lvl)
           T == {k \in 0 .. D : Good(D - k)}
<1>1. /\ nb \in size_t /\ nb \in Nat /\ I \in Bins /\ D \in 2 .. SizeWidth /\ D \in Nat
      /\ None(nb) \in Best
  <2>1. Digits(I) \in 2 .. SizeWidth /\ SizeWidth \in Nat
    BY RequestFacts, SizeNumbers
  <2> QED  BY <2>1, RequestFacts
<1>2. /\ t0 \in TreeNodes /\ t0 \in Chunks /\ Index(t0) = I /\ lvl[t0] = 0
      /\ \A c \in TreeNodes : c \in Chunks
  <2>1. t0 \in TreeNodes /\ Index(t0) = I /\ IsRoot(t0, lvl)
    BY <1>1 DEF Tries
  <2> QED  BY <2>1 DEF IsRoot, TreeNodes
<1>3. ASSUME NEW f, IsSized(f, nb), NEW t \in TreeNodes, NEW e \in Best, NEW z \in Chunks \cup {null},
             NEW j, j = lvl[t], Searching(t, e, z, nb, lvl), j \in 0 .. D,
             j \in 0 .. D - 1 => Good(j + 1),
             NEW v, v = f[[at |-> t, best |-> e, rst |-> z, key |-> Key(nb, I, j)]]
      PROVE  Searched(v.best, v.rst, nb, lvl)
  <2>1. PICK K \in size_t : K = Key(nb, I, j)
    <3>1. CASE j \in 0 .. D - 1
      BY <1>1, <3>1, KeyStep
    <3>2. CASE j = D
      BY <1>1, <3>2, KeyLast
    <3> QED  BY <1>1, <1>3, <3>1, <3>2
  <2>2. PICK g \in Best : g = Better(e, t, nb)
    BY <1>1, <1>2, BetterFacts
  <2>3. PICK c : c = node[t].child[TopBit(K)]
    OBVIOUS
  <2>4. PICK y : y = Passed(t, z, K)
    OBVIOUS
  <2>5. v = IF g.rsize = 0 THEN [best |-> g, rst |-> null]
            ELSE IF c = null THEN [best |-> g, rst |-> y]
            ELSE f[[at |-> c, best |-> g, rst |-> y, key |-> ShiftLeft(K)]]
    BY <1>2, <1>3, <2>1, <2>2, <2>3, <2>4 DEF IsSized
  <2>6. /\ g.rsize = 0 => Searched(g, null, nb, lvl)
        /\ g.rsize # 0 =>
              /\ j \in 0 .. D - 1
              /\ c = null => Searched(g, y, nb, lvl)
              /\ c # null =>
                   /\ c \in TreeNodes /\ lvl[c] = j + 1 /\ ShiftLeft(K) = Key(nb, I, j + 1)
                   /\ Searching(c, g, y, nb, lvl)
    BY <1>3, <2>1, <2>2, <2>3, <2>4, SizedStep
  <2>7. CASE g.rsize = 0
    BY <2>5, <2>6, <2>7
  <2>8. CASE g.rsize # 0 /\ c = null
    BY <2>5, <2>6, <2>8
  <2>9. CASE g.rsize # 0 /\ c # null
    <3>1. y \in Chunks \cup {null}
      <4>1. node[t].child \in [{0, 1} -> Chunks \cup {null}]
        BY <1>2 DEF TypeOK, malloc_tree_chunk
      <4> QED  BY <2>4, <4>1 DEF Passed
    <3>2. Good(j + 1)
      BY <1>3, <2>6, <2>9
    <3>3. v = f[[at |-> c, best |-> g, rst |-> y, key |-> Key(nb, I, j + 1)]]
      BY <2>5, <2>6, <2>9
    <3> QED  BY <1>3, <2>6, <2>9, <3>1, <3>2, <3>3
  <2> QED  BY <2>7, <2>8, <2>9
<1>4. Good(D)
  BY <1>1, <1>3
<1>5. ASSUME NEW j \in 0 .. D - 1, Good(j + 1) PROVE Good(j)
  <2>1. j \in 0 .. D
    BY <1>1
  <2> QED  BY <1>3, <1>5, <2>1
<1>6. \A k \in 0 .. D : k \in T
  <2> HIDE DEF Good, D
  <2>1. 0 \in T
    <3>1. D - 0 = D /\ 0 \in 0 .. D
      BY <1>1
    <3> QED  BY <1>4, <3>1
  <2>2. ASSUME NEW k \in 1 .. D, k - 1 \in T PROVE k \in T
    <3>1. k \in 0 .. D /\ D - k \in 0 .. D - 1 /\ (D - k) + 1 = D - (k - 1)
      BY <1>1
    <3>2. Good((D - k) + 1)
      BY <2>2, <3>1
    <3> QED  BY <1>5, <3>1, <3>2
  <2> HIDE DEF T
  <2> QED  BY <1>1, <2>1, <2>2, IntervalInduction
<1>7. Good(0)
  <2>1. D \in 0 .. D /\ D - D = 0
    BY <1>1
  <2>2. D \in T
    <3> HIDE DEF T
    <3> QED  BY <1>6, <2>1
  <2> HIDE DEF Good
  <2> QED  BY <2>1, <2>2
<1>8. Searching(t0, None(nb), null, nb, lvl)
  <2>1. Pre(t0, 0) = Prefix(nb, I, 0)
    <3>1. Pre(t0, 0) = Fixed(I)
      BY <1>2, ChunkFacts, IndexFacts DEF Pre, Index
    <3>2. Prefix(nb, I, 0) = Fixed(I)
      BY IndexFacts
    <3> QED  BY <3>1, <3>2
  <2>2. ASSUME NEW u \in TreeNodes, InBin(u, nb) PROVE Under(t0, u, lvl)
    <3>1. Index(u) = I /\ u \in Chunks /\ lvl[u] \in Nat
      BY <2>2, NodeFacts DEF InBin
    <3>2. Agree(u, t0, 0)
      BY <1>2, <3>1, AgreeFirst
    <3> QED  BY <1>2, <3>1, <3>2 DEF Under
  <2>3. Reached(None(nb), nb) /\ PassedBy(null, nb, lvl)
    BY <1>1 DEF Reached, PassedBy
  <2> QED  BY <1>2, <2>1, <2>2, <2>3 DEF Searching
<1>9. PICK f : /\ IsSized(f, nb)
               /\ \A T0, best0, K0 : sized_path(T0, best0, nb, K0)
                                       = f[[at |-> T0, best |-> best0, rst |-> null, key |-> K0]]
  BY <1>1, SizedIs
<1>10. r = f[[at |-> t0, best |-> None(nb), rst |-> null, key |-> Key(nb, I, 0)]]
  <2>1. sizebits(nb, I) = Key(nb, I, 0)
    BY <1>1, KeyFirst
  <2> QED  BY <1>9, <2>1
<1>11. null \in Chunks \cup {null}
  OBVIOUS
<1> QED  BY <1>1, <1>2, <1>7, <1>8, <1>9, <1>10, <1>11

(* The least of the large enough nodes. *)
LeastFit(v, nb) ==
    /\ v \in TreeNodes /\ ChunkSize[v] >= nb
    /\ \A u \in TreeNodes : ChunkSize[u] >= nb => ChunkSize[v] <= ChunkSize[u]

(* Every node is in the bin of its size, below the root of it; what is in  *)
(* the lower bin is less.                                                  *)
LEMMA BinFacts ==
  ASSUME NEW lvl, Tries(lvl), NEW u \in TreeNodes
  PROVE  /\ u \in Chunks /\ u # null /\ IsSize(ChunkSize[u]) /\ ChunkSize[u] \in Nat
         /\ Index(u) \in Bins /\ Index(u) \in treemap /\ treebins[Index(u)] # null
         /\ treebins[Index(u)] \in TreeNodes
         /\ Under(treebins[Index(u)], u, lvl)
         /\ \A S : IsSize(S) /\ S <= ChunkSize[u] => compute_tree_index(S) <= Index(u)
<1>1. u \in Chunks /\ u # null /\ lvl[u] \in Nat
  BY NodeFacts
<1>2. IsSize(ChunkSize[u]) /\ ChunkSize[u] \in Nat /\ Index(u) \in Bins
  BY <1>1, ChunkFacts
<1>3. 0 \in 0 .. lvl[u]
  BY <1>1
<1>4. PICK a \in TreeNodes : lvl[a] = 0 /\ Agree(u, a, 0)
  BY <1>3, Ancestor
<1>5. IsRoot(a, lvl) /\ a # null /\ Index(a) = Index(u)
  BY <1>4, NodeFacts DEF Agree
<1>6. treebins[Index(u)] = a
  BY <1>5 DEF IsRoot
<1>7. Under(a, u, lvl)
  BY <1>1, <1>4 DEF Under
<1>8. Index(u) \in treemap
  BY <1>2, <1>5, <1>6 DEF Tries
<1>9. \A S : IsSize(S) /\ S <= ChunkSize[u] => compute_tree_index(S) <= Index(u)
  BY <1>2, IndexMono DEF Index
<1> QED  BY <1>1, <1>2, <1>4, <1>5, <1>6, <1>7, <1>8, <1>9

(* A marked bin has a root, and what is below it is in that bin. *)
LEMMA MarkedFacts ==
  ASSUME TypeOK, NEW lvl, Tries(lvl), NEW I \in treemap
  PROVE  /\ I \in Bins /\ I \in Nat /\ treebins[I] \in TreeNodes /\ treebins[I] # null
         /\ Under(treebins[I], treebins[I], lvl)
         /\ \A u \in TreeNodes : Under(treebins[I], u, lvl) <=> Index(u) = I
<1>1. I \in Bins /\ I \in Nat
  BY DEF TypeOK, Bins
<1>2. treebins[I] \in TreeNodes /\ Index(treebins[I]) = I /\ treebins[I] # null
  BY <1>1 DEF Tries
<1>3. \A u \in TreeNodes : Under(treebins[I], u, lvl) => Index(u) = I
  BY <1>2 DEF Under, Agree
<1>4. \A u \in TreeNodes : Index(u) = I => Under(treebins[I], u, lvl)
  BY BinFacts
<1> QED  BY <1>1, <1>2, <1>3, <1>4

(* The search for a large chunk is right: the node of the least size that  *)
(* is enough, or null if there is none.                                    *)
LEMMA BestLarge ==
  ASSUME TypeOK, NEW lvl, Tries(lvl), NEW nb, IsSize(nb), NEW v, v = best_large(nb)
  PROVE  /\ v = null => \A u \in TreeNodes : ChunkSize[u] < nb
         /\ v # null => LeastFit(v, nb)
<1> DEFINE idx == compute_tree_index(nb)
           same == IF treebins[idx] = null THEN [best |-> None(nb), rst |-> null]
                   ELSE sized_path(treebins[idx], None(nb), nb, sizebits(nb, idx))
           leftbits == {I \in treemap : I > idx}
           t == IF same.rst = null /\ same.best.v = null /\ leftbits # {}
                THEN treebins[Min(leftbits)] ELSE same.rst
<1>1. v = leftmost_path(t, same.best, nb).v
  BY DEF best_large, None
<1>2. PICK m \in Nat : m = SizeRange /\ size_t = 0 .. m - 1
  BY SizeNumbers
<1>3. /\ nb \in size_t /\ nb \in Nat /\ nb > 0 /\ idx \in Bins /\ idx \in Nat
      /\ None(nb) \in Best /\ None(nb).rsize = m - nb /\ None(nb).v = null
  BY <1>2, RequestFacts DEF Bins
<1>4. \A u \in TreeNodes : /\ u \in Chunks /\ u # null /\ ChunkSize[u] \in Nat /\ ChunkSize[u] < m
                           /\ Index(u) \in Nat /\ Index(u) \in treemap
  <2> SUFFICES ASSUME NEW u \in TreeNodes
               PROVE  /\ u \in Chunks /\ u # null /\ ChunkSize[u] \in Nat /\ ChunkSize[u] < m
                      /\ Index(u) \in Nat /\ Index(u) \in treemap
    OBVIOUS
  <2>1. u \in Chunks /\ u # null /\ IsSize(ChunkSize[u]) /\ Index(u) \in Bins /\ Index(u) \in treemap
    BY BinFacts
  <2> QED  BY <1>2, <2>1 DEF IsSize, Bins
<1>5. \A u, w \in TreeNodes : Index(w) < Index(u) => ChunkSize[w] < ChunkSize[u]
  <2> SUFFICES ASSUME NEW u \in TreeNodes, NEW w \in TreeNodes, ~(ChunkSize[w] < ChunkSize[u])
               PROVE  ~(Index(w) < Index(u))
    OBVIOUS
  <2>1. IsSize(ChunkSize[u]) /\ ChunkSize[u] <= ChunkSize[w]
    BY <1>4, BinFacts
  <2>2. compute_tree_index(ChunkSize[u]) <= Index(w)
    BY <2>1, BinFacts
  <2> QED  BY <1>4, <2>2 DEF Index
<1>6. \A u \in TreeNodes : ChunkSize[u] >= nb => Index(u) >= idx
  <2> SUFFICES ASSUME NEW u \in TreeNodes, ChunkSize[u] >= nb PROVE Index(u) >= idx
    OBVIOUS
  <2>1. compute_tree_index(nb) <= Index(u)
    BY <1>3, <1>4, BinFacts
  <2> QED  BY <1>3, <1>4, <2>1
<1>7. \A u \in TreeNodes : Index(u) > idx => ChunkSize[u] > nb
  <2> SUFFICES ASSUME NEW u \in TreeNodes, ~(ChunkSize[u] > nb) PROVE ~(Index(u) > idx)
    OBVIOUS
  <2>1. IsSize(ChunkSize[u]) /\ ChunkSize[u] <= nb
    BY <1>3, <1>4, BinFacts
  <2>2. compute_tree_index(ChunkSize[u]) <= compute_tree_index(nb)
    BY <2>1, IndexMono
  <2> QED  BY <1>3, <1>4, <2>2 DEF Index
<1>8. Searched(same.best, same.rst, nb, lvl)
  <2>1. CASE treebins[idx] = null
    <3>1. same = [best |-> None(nb), rst |-> null]
      BY <2>1
    <3>2. \A u \in TreeNodes : Index(u) # idx
      BY <2>1, BinFacts
    <3>3. Searched(None(nb), null, nb, lvl)
      BY <1>3, <3>2 DEF Searched, Reached, PassedBy, InBin
    <3> QED  BY <3>1, <3>3
  <2>2. CASE treebins[idx] # null
    <3>1. same = sized_path(treebins[idx], None(nb), nb, sizebits(nb, idx))
      BY <2>2
    <3> QED  BY <2>2, <3>1, SizedPath
  <2> QED  BY <2>1, <2>2
<1> HIDE DEF idx
<1>9. PICK best, z : best = same.best /\ z = same.rst
  OBVIOUS
<1>10. /\ Reached(best, nb) /\ PassedBy(z, nb, lvl)
       /\ \A u \in TreeNodes : InBin(u, nb) => Covered(u, best, z, nb, lvl)
  BY <1>8, <1>9 DEF Searched
<1>11. /\ best \in Best /\ best.rsize \in Nat
       /\ best = None(nb) \/ /\ best.v \in TreeNodes /\ Index(best.v) = idx
                             /\ ChunkSize[best.v] >= nb /\ best.rsize = ChunkSize[best.v] - nb
  BY <1>2, <1>10 DEF Reached, Best, idx
<1>12. \A u : InBin(u, nb) <=> Index(u) = idx /\ ChunkSize[u] >= nb
  BY DEF InBin, idx
<1>13. v = leftmost_path(t, best, nb).v
       /\ t = IF z = null /\ best.v = null /\ leftbits # {} THEN treebins[Min(leftbits)] ELSE z
  BY <1>1, <1>9
<1> HIDE DEF same, t
<1>14. PICK f : /\ IsLeftmost(f, nb)
               /\ \A T0, best0 : leftmost_path(T0, best0, nb) = f[[at |-> T0, best |-> best0]]
  BY <1>3, LeftmostIs
<1>15. t = null => v = best.v
  <2>1. f[[at |-> null, best |-> best]] = best
    BY <1>11, <1>14 DEF IsLeftmost
  <2>2. leftmost_path(null, best, nb) = best
    BY <1>14, <2>1
  <2> QED  BY <1>13, <2>2
(* What the leftmost path finds below a node of large enough sizes. *)
<1>16. ASSUME t \in TreeNodes, \A u \in TreeNodes : Under(t, u, lvl) => ChunkSize[u] >= nb,
              Under(t, t, lvl)
       PROVE  /\ v \in TreeNodes /\ ChunkSize[v] >= nb /\ ChunkSize[v] - nb <= best.rsize
              /\ Under(t, v, lvl) \/ (v = best.v /\ Index(v) = idx)
              /\ \A u \in TreeNodes : Under(t, u, lvl) => ChunkSize[v] <= ChunkSize[u]
  <2>1. PICK r : r = leftmost_path(t, best, nb)
    OBVIOUS
  <2>2. BestBelow(r, best, t, nb, lvl)
    BY <1>3, <1>11, <1>16, <2>1, LeftmostPath
  <2>3. /\ r.rsize \in Nat /\ r.rsize <= best.rsize
        /\ r = best \/ \E u \in TreeNodes : Under(t, u, lvl) /\ r = [v |-> u, rsize |-> Fit(u, nb)]
        /\ \A u \in TreeNodes : Under(t, u, lvl) => r.rsize <= Fit(u, nb)
    BY <1>2, <2>2 DEF BestBelow, Best
  <2>4. \A u \in TreeNodes : ChunkSize[u] >= nb => Fit(u, nb) = ChunkSize[u] - nb
    BY <1>3, <1>4, FitFacts
  <2>5. v = r.v
    BY <1>13, <2>1
  <2>6. r.rsize <= ChunkSize[t] - nb /\ ChunkSize[t] \in Nat /\ ChunkSize[t] < m
    BY <1>4, <1>16, <2>3, <2>4
  <2>7. r.rsize # None(nb).rsize
    BY <1>2, <1>3, <2>3, <2>6
  <2>8. /\ v \in TreeNodes /\ ChunkSize[v] >= nb /\ r.rsize = ChunkSize[v] - nb
        /\ Under(t, v, lvl) \/ (v = best.v /\ Index(v) = idx)
    <3>1. CASE r = best
      BY <1>11, <2>5, <2>7, <3>1
    <3>2. CASE \E u \in TreeNodes : Under(t, u, lvl) /\ r = [v |-> u, rsize |-> Fit(u, nb)]
      BY <1>16, <2>4, <2>5, <3>2
    <3> QED  BY <2>3, <3>1, <3>2
  <2>9. ASSUME NEW u \in TreeNodes, Under(t, u, lvl) PROVE ChunkSize[v] <= ChunkSize[u]
    <3>1. r.rsize <= ChunkSize[u] - nb
      BY <1>16, <2>3, <2>4, <2>9
    <3>2. ChunkSize[u] \in Nat /\ ChunkSize[v] \in Nat
      BY <1>4, <2>8
    <3> QED  BY <1>3, <2>8, <3>1, <3>2
  <2> QED  BY <2>3, <2>8, <2>9
<1>17. CASE z = null /\ best.v = null
  <2>1. best = None(nb)
    BY <1>4, <1>11, <1>17
  <2>2. \A u \in TreeNodes : ChunkSize[u] >= nb => Index(u) \in leftbits
    <3> SUFFICES ASSUME NEW u \in TreeNodes, ChunkSize[u] >= nb PROVE Index(u) \in leftbits
      OBVIOUS
    <3>1. ASSUME Index(u) = idx PROVE FALSE
      <4>1. Covered(u, best, z, nb, lvl)
        BY <1>10, <1>12, <3>1
      <4>2. m - nb <= ChunkSize[u] - nb
        BY <1>3, <1>17, <2>1, <4>1 DEF Covered
      <4>3. ChunkSize[u] \in Nat /\ ChunkSize[u] < m
        BY <1>4
      <4> QED  BY <1>2, <1>3, <4>2, <4>3
    <3>2. Index(u) >= idx /\ Index(u) \in Nat /\ Index(u) \in treemap
      BY <1>4, <1>6
    <3> QED  BY <1>3, <3>1, <3>2
  <2>3. CASE leftbits = {}
    <3>1. t = null
      BY <1>13, <1>17, <2>3
    <3>2. v = null
      BY <1>15, <1>17, <3>1
    <3>3. \A u \in TreeNodes : ChunkSize[u] < nb
      BY <1>3, <1>4, <2>2, <2>3
    <3> QED  BY <3>2, <3>3
  <2>4. CASE leftbits # {}
    <3>1. leftbits \in SUBSET Nat
      BY MarkedFacts
    <3>2. PICK I \in leftbits : \A x \in leftbits : I <= x
      <4> HIDE DEF leftbits
      <4> QED  BY <2>4, <3>1, LeastNat
    <3>3. Min(leftbits) = I
      <4> HIDE DEF leftbits
      <4> QED  BY <3>1, <3>2, MinIs
    <3>4. I \in treemap /\ I > idx /\ I \in Nat
      BY <3>1, <3>2
    <3>5. t = treebins[I]
      BY <1>13, <1>17, <2>4, <3>3
    <3>6. /\ t \in TreeNodes /\ Under(t, t, lvl)
          /\ \A u \in TreeNodes : Under(t, u, lvl) <=> Index(u) = I
      BY <3>4, <3>5, MarkedFacts
    <3>7. \A u \in TreeNodes : Under(t, u, lvl) => ChunkSize[u] >= nb
      <4>1. \A u \in TreeNodes : Index(u) = I => ChunkSize[u] > nb
        BY <1>7, <3>4
      <4> QED  BY <1>3, <1>4, <3>6, <4>1
    <3>8. /\ v \in TreeNodes /\ ChunkSize[v] >= nb
          /\ Under(t, v, lvl) \/ v = best.v
          /\ \A u \in TreeNodes : Under(t, u, lvl) => ChunkSize[v] <= ChunkSize[u]
      BY <1>16, <3>6, <3>7
    <3>9. v # null /\ Index(v) = I
      BY <1>4, <1>17, <3>6, <3>8
    <3>10. ASSUME NEW u \in TreeNodes, ChunkSize[u] >= nb PROVE ChunkSize[v] <= ChunkSize[u]
      <4>1. Index(u) \in Nat /\ I <= Index(u)
        BY <1>4, <2>2, <3>2, <3>10
      <4>2. CASE Index(u) = I
        BY <3>6, <3>8, <4>2
      <4>3. CASE Index(u) # I
        <5>1. Index(v) < Index(u)
          BY <3>4, <3>9, <4>1, <4>3
        <5>2. ChunkSize[v] < ChunkSize[u]
          BY <1>5, <3>8, <5>1
        <5> QED  BY <1>4, <3>8, <5>2
      <4> QED  BY <4>2, <4>3
    <3> QED  BY <3>8, <3>9, <3>10 DEF LeastFit
  <2> QED  BY <2>3, <2>4
<1>18. CASE ~(z = null /\ best.v = null)
  <2>1. t = z
    BY <1>13, <1>18
  <2>2. /\ v \in TreeNodes /\ ChunkSize[v] >= nb /\ Index(v) = idx /\ ChunkSize[v] - nb <= best.rsize
        /\ z # null => \A u \in TreeNodes : Under(z, u, lvl) => ChunkSize[v] <= ChunkSize[u]
    <3>1. CASE z = null
      <4>1. v = best.v /\ best # None(nb)
        BY <1>3, <1>15, <1>18, <2>1, <3>1
      <4>2. v \in TreeNodes /\ ChunkSize[v] >= nb /\ Index(v) = idx /\ best.rsize = ChunkSize[v] - nb
        BY <1>11, <4>1
      <4> QED  BY <1>11, <3>1, <4>2
    <3>2. CASE z # null
      <4>1. /\ z \in TreeNodes /\ Index(z) = idx
            /\ \A w \in TreeNodes : Under(z, w, lvl) => ChunkSize[w] >= nb
        BY <1>10, <3>2 DEF PassedBy, idx
      <4>2. Under(z, z, lvl)
        <5>1. lvl[z] \in Nat
          BY <4>1, NodeFacts
        <5> QED  BY <4>1, <5>1 DEF Under, Agree
      <4>3. /\ v \in TreeNodes /\ ChunkSize[v] >= nb /\ ChunkSize[v] - nb <= best.rsize
            /\ Under(z, v, lvl) \/ (v = best.v /\ Index(v) = idx)
            /\ \A u \in TreeNodes : Under(z, u, lvl) => ChunkSize[v] <= ChunkSize[u]
        BY <1>16, <2>1, <4>1, <4>2
      <4>4. Under(z, v, lvl) => Index(v) = Index(z)
        BY DEF Under, Agree
      <4> QED  BY <4>1, <4>3, <4>4
    <3> QED  BY <3>1, <3>2
  <2>3. ASSUME NEW u \in TreeNodes, ChunkSize[u] >= nb PROVE ChunkSize[v] <= ChunkSize[u]
    <3>1. ChunkSize[u] \in Nat /\ ChunkSize[v] \in Nat /\ Index(u) \in Nat /\ Index(u) >= idx
      BY <1>4, <1>6, <2>2, <2>3
    <3>2. CASE Index(u) = idx
      <4>1. Covered(u, best, z, nb, lvl)
        BY <1>10, <1>12, <2>3, <3>2
      <4>2. CASE best.rsize <= ChunkSize[u] - nb
        BY <1>3, <1>11, <2>2, <3>1, <4>2
      <4>3. CASE z # null /\ \E w \in TreeNodes : Under(z, w, lvl) /\ ChunkSize[w] <= ChunkSize[u]
        <5>1. PICK w \in TreeNodes : Under(z, w, lvl) /\ ChunkSize[w] <= ChunkSize[u]
          BY <4>3
        <5>2. ChunkSize[v] <= ChunkSize[w] /\ ChunkSize[w] \in Nat
          BY <1>4, <2>2, <4>3, <5>1
        <5> QED  BY <3>1, <5>1, <5>2
      <4> QED  BY <4>1, <4>2, <4>3 DEF Covered
    <3>3. CASE Index(u) # idx
      <4>1. Index(v) < Index(u)
        BY <1>3, <2>2, <3>1, <3>3
      <4>2. ChunkSize[v] < ChunkSize[u]
        BY <1>5, <2>2, <4>1
      <4> QED  BY <3>1, <4>2
    <3> QED  BY <3>2, <3>3
  <2>4. v # null
    BY <1>4, <2>2
  <2> QED  BY <2>2, <2>3, <2>4 DEF LeastFit
<1> QED  BY <1>17, <1>18

(* A request that no chunk is large enough for. *)
TooLarge(nb) ==
    /\ nb \in size_t /\ nb \in Nat /\ nb > 0
    /\ \A c \in Chunks : ChunkSize[c] < nb

(* One that is out of the range of the index is such. *)
LEMMA BeyondIndex ==
  ASSUME NEW nb \in size_t, ~is_small(nb), ~IsSize(nb)
  PROVE  TooLarge(nb)
<1>1. nb \in Nat /\ nb >= MIN_LARGE_SIZE /\ MIN_LARGE_SIZE \in Nat \ {0}
  <2>1. MIN_LARGE_SIZE \in Nat \ {0} /\ size_t \subseteq Nat
    BY SizeNumbers
  <2> QED  BY <2>1 DEF is_small
<1>2. PICK r \in Nat : r = IndexRange
  <2>1. PICK M \in Nat : M = MIN_LARGE_SIZE
    BY <1>1
  <2>2. PICK N \in Nat : N = 2^UnsignedWidth
    BY UnsignedAssumption
  <2> QED  BY <2>1, <2>2 DEF IndexRange
<1>3. nb >= r
  BY <1>1, <1>2 DEF IsSize
<1>4. ASSUME NEW c \in Chunks PROVE ChunkSize[c] < nb
  <2>1. ChunkSize[c] < r
    BY <1>2, ChunkAssumption
  <2>2. ChunkSize[c] \in Nat
    BY ChunkFacts
  <2> QED  BY <1>1, <1>2, <1>3, <2>1, <2>2
<1> QED  BY <1>1, <1>4 DEF TooLarge

(* Every size has a bin to look in, and a key to look with, also when its  *)
(* index is not told from all of its digits.                               *)
LEMMA AnyIndex ==
  ASSUME NEW S \in size_t
  PROVE  compute_tree_index(S) \in Bins
<1>1. /\ SizeWidth \in Nat /\ NTREEBINS \in Nat /\ NTREEBINS \div 2 \in Nat /\ NTREEBINS >= 2
      /\ NTREEBINS \div 2 <= SizeWidth /\ NTREEBINS \div 2 >= 1
      /\ SizeRange = Pow(SizeWidth) /\ SizeRange \in Nat /\ size_t = 0 .. SizeRange - 1
  BY SizeNumbers
<1>2. /\ \A i \in 0 .. SizeWidth : Pow(i) \in Nat \ {0}
      /\ \A i, j \in 0 .. SizeWidth : i <= j => Pow(i) <= Pow(j)
  BY PowFacts
<1>3. PICK M \in Nat \ {0} : M = MIN_LARGE_SIZE
  BY SizeNumbers
<1>4. PICK N \in Nat \ {0} : N = 2^UnsignedWidth
  BY UnsignedAssumption
<1>5. S \in Nat /\ \E Y \in Nat : Y = S \div M
  <2>1. S \in Nat
    BY <1>1
  <2> QED  BY <2>1, DivMod
<1>6. PICK Y \in Nat : Y = S \div M
  BY <1>5
<1>7. PICK X \in Nat : X = Y % N
  BY <1>4
<1>8. X < Pow(SizeWidth)
  <2>1. X <= Y
    <3>1. PICK q \in Nat : q = Y \div N
      BY DivMod
    <3>2. Y % N \in Nat /\ Y = N * q + (Y % N)
      BY <3>1, DivMod
    <3>3. PICK u \in Nat : u = N * q
      OBVIOUS
    <3> QED  BY <1>7, <3>2, <3>3
  <2>2. Y <= S
    <3>1. S % M \in Nat /\ S = M * Y + (S % M)
      BY <1>5, <1>6, DivMod
    <3>2. 1 * Y <= M * Y
      OBVIOUS
    <3>3. PICK u \in Nat : u = M * Y
      OBVIOUS
    <3> QED  BY <1>1, <3>1, <3>2, <3>3
  <2> QED  BY <1>1, <2>1, <2>2
<1>9. PICK H \in 1 .. SizeWidth : H = NTREEBINS \div 2
  BY <1>1
<1>10. PICK K : K = floor_log2(X)
  OBVIOUS
<1>11. compute_tree_index(S) =
         IF X = 0 THEN 0
         ELSE IF X > Pow(H) - 1 THEN NTREEBINS - 1
         ELSE 2 * K + ((S \div Pow(K + TREEBIN_SHIFT - 1)) % 2)
  <2>1. X = (S \div MIN_LARGE_SIZE) % 2^UnsignedWidth
    BY <1>3, <1>4, <1>6, <1>7
  <2> QED  BY <1>9, <1>10, <2>1 DEF compute_tree_index, Pow
<1>12. CASE X = 0 \/ X > Pow(H) - 1
  BY <1>1, <1>11, <1>12 DEF Bins
<1>13. CASE X # 0 /\ ~(X > Pow(H) - 1)
  <2>1. K \in 0 .. SizeWidth - 1 /\ Pow(K) <= X
    BY <1>8, <1>10, <1>13, Log2
  <2>2. K < H
    <3>1. ASSUME H <= K PROVE FALSE
      <4>1. H \in 0 .. SizeWidth /\ K \in 0 .. SizeWidth
        BY <1>1, <2>1
      <4>2. Pow(H) <= Pow(K) /\ Pow(K) \in Nat /\ Pow(H) \in Nat
        BY <1>2, <3>1, <4>1
      <4> QED  BY <1>13, <2>1, <4>2
    <3> QED  BY <1>1, <2>1, <3>1
  <2>3. PICK J \in 0 .. (NTREEBINS \div 2) - 1 : J = K
    BY <1>1, <1>9, <2>1, <2>2
  <2>4. J + TREEBIN_SHIFT - 1 \in 2 .. SizeWidth - 2
    BY BinBounds
  <2>5. PICK Z \in Nat \ {0} : Z = Pow(J + TREEBIN_SHIFT - 1)
    <3>1. J + TREEBIN_SHIFT - 1 \in 0 .. SizeWidth
      BY <1>1, <2>4
    <3> QED  BY <1>2, <3>1
  <2>6. PICK V \in Nat : V = S \div Z
    BY <1>5, DivMod
  <2>7. PICK b \in {0, 1} : b = V % 2
    OBVIOUS
  <2>8. compute_tree_index(S) = 2 * J + b
    BY <1>11, <1>13, <2>3, <2>5, <2>6, <2>7
  <2>9. 2 * J + b \in Bins
    BY BinBounds
  <2> QED  BY <2>8, <2>9
<1> QED  BY <1>12, <1>13

LEMMA AnyKey ==
  ASSUME NEW S \in size_t, NEW I \in Bins
  PROVE  sizebits(S, I) \in size_t
<1>1. /\ SizeWidth \in Nat /\ TREEBIN_SHIFT \in Nat /\ TREEBIN_SHIFT >= 3 /\ NTREEBINS \in Nat
      /\ NTREEBINS = 2 * (NTREEBINS \div 2) /\ NTREEBINS \div 2 \in Nat
      /\ NTREEBINS \div 2 + TREEBIN_SHIFT <= SizeWidth
      /\ size_t = 0 .. SizeRange - 1
  BY SizeNumbers
<1>2. PICK R \in Nat \ {0} : R = SizeRange
  BY SizeNumbers, PowFacts
<1>3. I \in Nat /\ I \div 2 \in Nat /\ I \div 2 <= (NTREEBINS \div 2) - 1
  BY <1>1 DEF Bins
<1>4. leftshift_for_tree_index(I) \in 0 .. SizeWidth
  BY <1>1, <1>3 DEF leftshift_for_tree_index
<1>5. PICK E \in Nat : E = 2^leftshift_for_tree_index(I)
  <2>1. Pow(leftshift_for_tree_index(I)) \in Nat
    BY <1>4, PowFacts
  <2> QED  BY <2>1 DEF Pow
<1>6. PICK Y \in Nat : Y = S * E
  BY <1>1, <1>2
<1>7. Y % R \in 0 .. R - 1
  OBVIOUS
<1>8. sizebits(S, I) = Y % R
  BY <1>2, <1>5, <1>6 DEF sizebits
<1> QED  BY <1>1, <1>2, <1>7, <1>8

(* No chunk looks better than none to such a request. *)
LEMMA NoneBetter ==
  ASSUME NEW nb, TooLarge(nb), NEW c \in Chunks
  PROVE  None(nb) \in Best /\ None(nb).rsize # 0 /\ Better(None(nb), c, nb) = None(nb)
<1>1. PICK m \in Nat : m = SizeRange /\ size_t = 0 .. m - 1
  BY SizeNumbers
<1>2. nb \in Nat /\ nb > 0 /\ nb < m /\ nb \in size_t /\ ChunkSize[c] < nb
  BY <1>1 DEF TooLarge
<1>3. (-nb) % m = m - nb
  <2>1. -nb \in Int /\ -m <= -nb /\ -nb < 0 /\ -nb < m /\ (-nb) + m = m - nb
    BY <1>1, <1>2
  <2> QED  BY <2>1, WrapAround
<1>4. None(nb) = [v |-> null, rsize |-> m - nb] /\ m - nb \in size_t
  BY <1>1, <1>2, <1>3 DEF None
<1>5. Fit(c, nb) \in Nat /\ Fit(c, nb) >= m - nb
  BY <1>1, <1>2, FitFacts
<1>6. Better(None(nb), c, nb) = None(nb)
  BY <1>1, <1>2, <1>4, <1>5 DEF Better
<1> QED  BY <1>1, <1>2, <1>4, <1>6 DEF Best

(* Levels are no deeper than a size has digits. *)
LEMMA LevelBound ==
  ASSUME NEW lvl, Tries(lvl), NEW t \in TreeNodes
  PROVE  /\ lvl[t] \in 0 .. SizeWidth
         /\ \A b \in {0, 1} : node[t].child[b] # null =>
               /\ node[t].child[b] \in TreeNodes
               /\ lvl[node[t].child[b]] = lvl[t] + 1
               /\ lvl[t] \in 0 .. SizeWidth - 1
<1>1. t \in Chunks /\ lvl[t] \in 0 .. Digits(Index(t))
  BY NodeFacts
<1>2. Digits(Index(t)) \in 2 .. SizeWidth /\ SizeWidth \in Nat
  BY <1>1, ChunkFacts, SizeNumbers
<1>3. \A b \in {0, 1} : node[t].child[b] # null =>
               /\ node[t].child[b] \in TreeNodes /\ IsChild(node[t].child[b], t, lvl)
               /\ lvl[t] \in 0 .. Digits(Index(t)) - 1
  BY NodeFacts
<1>4. lvl[t] \in 0 .. SizeWidth
  BY <1>1, <1>2
<1>5. ASSUME NEW b \in {0, 1}, node[t].child[b] # null
      PROVE  /\ node[t].child[b] \in TreeNodes
             /\ lvl[node[t].child[b]] = lvl[t] + 1
             /\ lvl[t] \in 0 .. SizeWidth - 1
  BY <1>2, <1>3, <1>5 DEF IsChild
<1> QED  BY <1>4, <1>5

(* The leftmost path then leads to nothing, *)
LEMMA NoneLeftmost ==
  ASSUME TypeOK, NEW lvl, Tries(lvl), NEW nb, TooLarge(nb), NEW a \in TreeNodes \cup {null}
  PROVE  leftmost_path(a, None(nb), nb) = None(nb)
<1>1. nb \in size_t
  BY DEF TooLarge
<1>2. PICK f : /\ IsLeftmost(f, nb)
               /\ \A T0, best0 : leftmost_path(T0, best0, nb) = f[[at |-> T0, best |-> best0]]
  BY <1>1, LeftmostIs
<1> DEFINE Good(j) == \A t \in TreeNodes :
                         lvl[t] = j => f[[at |-> t, best |-> None(nb)]] = None(nb)
           T == {k \in 0 .. SizeWidth : Good(SizeWidth - k)}
<1>3. SizeWidth \in Nat
  BY SizeNumbers
<1>4. None(nb) \in Best
  <2>1. PICK m \in Nat : m = SizeRange /\ size_t = 0 .. m - 1
    BY SizeNumbers
  <2>2. nb \in Nat /\ nb > 0 /\ nb < m
    BY <2>1 DEF TooLarge
  <2>3. (-nb) % m \in 0 .. m - 1
    BY <2>1, <2>2
  <2> QED  BY <2>1, <2>3 DEF None, Best
<1>5. f[[at |-> null, best |-> None(nb)]] = None(nb)
  BY <1>2, <1>4 DEF IsLeftmost
<1>6. ASSUME NEW t \in TreeNodes,
             \A c \in TreeNodes : lvl[c] = lvl[t] + 1 => f[[at |-> c, best |-> None(nb)]] = None(nb)
      PROVE  f[[at |-> t, best |-> None(nb)]] = None(nb)
  <2>1. t \in Chunks /\ t # null
    BY NodeFacts
  <2>2. PICK c : c = leftmost_child(t)
    OBVIOUS
  <2>3. Better(None(nb), t, nb) = None(nb)
    BY <2>1, NoneBetter
  <2>4. f[[at |-> t, best |-> None(nb)]] = f[[at |-> c, best |-> None(nb)]]
    BY <1>2, <1>4, <2>1, <2>2, <2>3 DEF IsLeftmost
  <2>5. c = null \/ (c \in TreeNodes /\ lvl[c] = lvl[t] + 1)
    BY <2>2, LevelBound DEF leftmost_child
  <2> QED  BY <1>5, <1>6, <2>4, <2>5
<1>7. Good(SizeWidth)
  <2> SUFFICES ASSUME NEW t \in TreeNodes, lvl[t] = SizeWidth
               PROVE  f[[at |-> t, best |-> None(nb)]] = None(nb)
    OBVIOUS
  <2>1. \A c \in TreeNodes : lvl[c] \in 0 .. SizeWidth
    BY LevelBound
  <2>2. \A c \in TreeNodes : lvl[c] # lvl[t] + 1
    BY <1>3, <2>1
  <2> QED  BY <1>6, <2>2
<1>8. ASSUME NEW j \in 0 .. SizeWidth - 1, Good(j + 1) PROVE Good(j)
  BY <1>6, <1>8
<1>9. \A k \in 0 .. SizeWidth : k \in T
  <2> HIDE DEF Good
  <2>1. 0 \in T
    <3>1. SizeWidth - 0 = SizeWidth /\ 0 \in 0 .. SizeWidth
      BY <1>3
    <3> QED  BY <1>7, <3>1
  <2>2. ASSUME NEW k \in 1 .. SizeWidth, k - 1 \in T PROVE k \in T
    <3>1. k \in 0 .. SizeWidth /\ SizeWidth - k \in 0 .. SizeWidth - 1
          /\ (SizeWidth - k) + 1 = SizeWidth - (k - 1)
      BY <1>3
    <3>2. Good((SizeWidth - k) + 1)
      BY <2>2, <3>1
    <3> QED  BY <1>8, <3>1, <3>2
  <2> HIDE DEF T
  <2> QED  BY <1>3, <2>1, <2>2, IntervalInduction
<1>10. ASSUME NEW t \in TreeNodes PROVE f[[at |-> t, best |-> None(nb)]] = None(nb)
  <2>1. lvl[t] \in 0 .. SizeWidth
    BY LevelBound
  <2>2. SizeWidth - lvl[t] \in 0 .. SizeWidth /\ SizeWidth - (SizeWidth - lvl[t]) = lvl[t]
    BY <1>3, <2>1
  <2>3. SizeWidth - lvl[t] \in T
    <3> HIDE DEF T
    <3> QED  BY <1>9, <2>2
  <2>4. Good(lvl[t])
    <3> HIDE DEF Good
    <3> QED  BY <2>2, <2>3
  <2> QED  BY <2>4
<1>11. f[[at |-> a, best |-> None(nb)]] = None(nb)
  BY <1>5, <1>10
<1> QED  BY <1>2, <1>11

(* and so does the descent by the digits of the request. *)
Nothing(r, nb) == r.best = None(nb) /\ r.rst \in TreeNodes \cup {null}

LEMMA NoneSized ==
  ASSUME TypeOK, NEW lvl, Tries(lvl), NEW nb, TooLarge(nb), NEW a \in TreeNodes, NEW K0 \in size_t
  PROVE  Nothing(sized_path(a, None(nb), nb, K0), nb)
<1>1. nb \in size_t
  BY DEF TooLarge
<1>2. PICK f : /\ IsSized(f, nb)
               /\ \A T0, best0, K1 : sized_path(T0, best0, nb, K1)
                                       = f[[at |-> T0, best |-> best0, rst |-> null, key |-> K1]]
  BY <1>1, SizedIs
<1> DEFINE Good(j) == \A t \in TreeNodes, z \in TreeNodes \cup {null}, K \in size_t :
                         lvl[t] = j
                           => Nothing(f[[at |-> t, best |-> None(nb), rst |-> z, key |-> K]], nb)
           T == {k \in 0 .. SizeWidth : Good(SizeWidth - k)}
<1>3. SizeWidth \in Nat
  BY SizeNumbers
<1>4. TreeNodes \subseteq Chunks
  BY DEF TreeNodes
<1>5. ASSUME NEW t \in TreeNodes, NEW z \in TreeNodes \cup {null}, NEW K \in size_t,
             \A c \in TreeNodes, x \in TreeNodes \cup {null}, L \in size_t : lvl[c] = lvl[t] + 1
                => Nothing(f[[at |-> c, best |-> None(nb), rst |-> x, key |-> L]], nb)
      PROVE  Nothing(f[[at |-> t, best |-> None(nb), rst |-> z, key |-> K]], nb)
  <2>1. t \in Chunks /\ z \in Chunks \cup {null}
    BY <1>4
  <2>2. None(nb) \in Best /\ None(nb).rsize # 0 /\ Better(None(nb), t, nb) = None(nb)
    BY <2>1, NoneBetter
  <2>3. PICK L \in size_t : L = ShiftLeft(K)
    BY KeyBits
  <2>4. PICK b \in {0, 1} : b = TopBit(K)
    BY KeyBits
  <2>5. PICK c : c = node[t].child[b]
    OBVIOUS
  <2>6. PICK x : x = Passed(t, z, K)
    OBVIOUS
  <2>7. f[[at |-> t, best |-> None(nb), rst |-> z, key |-> K]] =
          IF c = null THEN [best |-> None(nb), rst |-> x]
          ELSE f[[at |-> c, best |-> None(nb), rst |-> x, key |-> L]]
    <3> DEFINE g == Better(None(nb), t, nb)
    <3>1. f[[at |-> t, best |-> None(nb), rst |-> z, key |-> K]] =
            IF g.rsize = 0 THEN [best |-> g, rst |-> null]
            ELSE IF node[t].child[TopBit(K)] = null THEN [best |-> g, rst |-> Passed(t, z, K)]
            ELSE f[[at |-> node[t].child[TopBit(K)], best |-> g,
                    rst |-> Passed(t, z, K), key |-> ShiftLeft(K)]]
      BY <1>2, <2>1, <2>2 DEF IsSized
    <3> HIDE DEF g
    <3>2. g = None(nb) /\ g.rsize # 0
      BY <2>2 DEF g
    <3> QED  BY <2>3, <2>4, <2>5, <2>6, <3>1, <3>2
  <2>8. x \in TreeNodes \cup {null}
    <3>1. node[t].child[1] # null => node[t].child[1] \in TreeNodes
      BY LevelBound
    <3> QED  BY <2>6, <3>1 DEF Passed
  <2>9. CASE c = null
    BY <2>7, <2>8, <2>9 DEF Nothing
  <2>10. CASE c # null
    <3>1. c \in TreeNodes /\ lvl[c] = lvl[t] + 1
      BY <2>5, <2>10, LevelBound
    <3> QED  BY <1>5, <2>7, <2>8, <2>10, <3>1
  <2> QED  BY <2>9, <2>10
<1>6. Good(SizeWidth)
  <2> SUFFICES ASSUME NEW t \in TreeNodes, NEW z \in TreeNodes \cup {null}, NEW K \in size_t,
                      lvl[t] = SizeWidth
               PROVE  Nothing(f[[at |-> t, best |-> None(nb), rst |-> z, key |-> K]], nb)
    OBVIOUS
  <2>1. \A c \in TreeNodes : lvl[c] \in 0 .. SizeWidth
    BY LevelBound
  <2>2. \A c \in TreeNodes : lvl[c] # lvl[t] + 1
    BY <1>3, <2>1
  <2> QED  BY <1>5, <2>2
<1>7. ASSUME NEW j \in 0 .. SizeWidth - 1, Good(j + 1) PROVE Good(j)
  BY <1>5, <1>7
<1>8. \A k \in 0 .. SizeWidth : k \in T
  <2> HIDE DEF Good
  <2>1. 0 \in T
    <3>1. SizeWidth - 0 = SizeWidth /\ 0 \in 0 .. SizeWidth
      BY <1>3
    <3> QED  BY <1>6, <3>1
  <2>2. ASSUME NEW k \in 1 .. SizeWidth, k - 1 \in T PROVE k \in T
    <3>1. k \in 0 .. SizeWidth /\ SizeWidth - k \in 0 .. SizeWidth - 1
          /\ (SizeWidth - k) + 1 = SizeWidth - (k - 1)
      BY <1>3
    <3>2. Good((SizeWidth - k) + 1)
      BY <2>2, <3>1
    <3> QED  BY <1>7, <3>1, <3>2
  <2> HIDE DEF T
  <2> QED  BY <1>3, <2>1, <2>2, IntervalInduction
<1>9. Good(lvl[a])
  <2>1. lvl[a] \in 0 .. SizeWidth
    BY LevelBound
  <2>2. SizeWidth - lvl[a] \in 0 .. SizeWidth /\ SizeWidth - (SizeWidth - lvl[a]) = lvl[a]
    BY <1>3, <2>1
  <2>3. SizeWidth - lvl[a] \in T
    <3> HIDE DEF T
    <3> QED  BY <1>8, <2>2
  <2> HIDE DEF Good
  <2> QED  BY <2>2, <2>3
<1>10. null \in TreeNodes \cup {null}
  OBVIOUS
<1>11. Nothing(f[[at |-> a, best |-> None(nb), rst |-> null, key |-> K0]], nb)
  BY <1>9, <1>10
<1> QED  BY <1>2, <1>11

(* The search for a request that is too large comes back empty, in         *)
(* whatever bin it begins.                                                 *)
LEMMA TooLargeNone ==
  ASSUME TypeOK, NEW lvl, Tries(lvl), NEW nb, TooLarge(nb), NEW v, v = best_large(nb)
  PROVE  v = null
<1> DEFINE idx == compute_tree_index(nb)
           same == IF treebins[idx] = null THEN [best |-> None(nb), rst |-> null]
                   ELSE sized_path(treebins[idx], None(nb), nb, sizebits(nb, idx))
           leftbits == {I \in treemap : I > idx}
           t == IF same.rst = null /\ same.best.v = null /\ leftbits # {}
                THEN treebins[Min(leftbits)] ELSE same.rst
<1>1. v = leftmost_path(t, same.best, nb).v
  BY DEF best_large, None
<1>2. nb \in size_t
  BY DEF TooLarge
<1>3. Nothing(same, nb)
  <2>1. idx \in Bins
    BY <1>2, AnyIndex
  <2>2. sizebits(nb, idx) \in size_t
    BY <1>2, <2>1, AnyKey
  <2>3. treebins[idx] # null => treebins[idx] \in TreeNodes
    BY <2>1 DEF Tries
  <2>4. CASE treebins[idx] = null
    <3>1. same = [best |-> None(nb), rst |-> null]
      BY <2>4
    <3> QED  BY <3>1 DEF Nothing
  <2>5. CASE treebins[idx] # null
    <3>1. same = sized_path(treebins[idx], None(nb), nb, sizebits(nb, idx))
      BY <2>5
    <3> QED  BY <2>2, <2>3, <2>5, <3>1, NoneSized
  <2> QED  BY <2>4, <2>5
<1>4. same.best = None(nb) /\ same.rst \in TreeNodes \cup {null}
  BY <1>3 DEF Nothing
<1> HIDE DEF idx, same
<1>5. t \in TreeNodes \cup {null}
  <2>1. CASE leftbits = {}
    BY <1>4, <2>1
  <2>2. CASE leftbits # {}
    <3>1. leftbits \in SUBSET Nat
      BY MarkedFacts
    <3>2. PICK I \in leftbits : \A x \in leftbits : I <= x
      <4> HIDE DEF leftbits
      <4> QED  BY <2>2, <3>1, LeastNat
    <3>3. Min(leftbits) = I
      <4> HIDE DEF leftbits
      <4> QED  BY <3>1, <3>2, MinIs
    <3>4. treebins[I] \in TreeNodes
      BY <3>2, MarkedFacts
    <3> QED  BY <1>4, <3>3, <3>4
  <2> QED  BY <2>1, <2>2
<1> HIDE DEF t
<1>6. leftmost_path(t, None(nb), nb) = None(nb)
  BY <1>5, NoneLeftmost
<1>7. None(nb).v = null
  BY DEF None
<1> QED  BY <1>1, <1>4, <1>6, <1>7

(* The search for a small request is right: the least node of all. *)
LEMMA BestSmall ==
  ASSUME TypeOK, NEW lvl, Tries(lvl), NEW nb \in size_t, is_small(nb), treemap # {},
         NEW v, v = best_small(nb)
  PROVE  LeastFit(v, nb)
<1>1. treemap \in SUBSET Nat
  BY MarkedFacts
<1>2. PICK I \in treemap : \A x \in treemap : I <= x
  BY <1>1, LeastNat
<1>3. Min(treemap) = I /\ I \in Nat
  BY <1>1, <1>2, MinIs
<1>4. PICK t : t = treebins[I]
  OBVIOUS
<1>5. /\ t \in TreeNodes /\ t # null /\ Under(t, t, lvl)
      /\ \A u \in TreeNodes : Under(t, u, lvl) <=> Index(u) = I
  BY <1>4, MarkedFacts
<1>6. nb \in Nat /\ MIN_LARGE_SIZE \in Nat /\ nb < MIN_LARGE_SIZE
  BY SizeNumbers DEF is_small
<1>7. \A u \in TreeNodes : /\ u \in Chunks /\ ChunkSize[u] \in Nat /\ ChunkSize[u] >= nb
                           /\ Fit(u, nb) = ChunkSize[u] - nb /\ Fit(u, nb) \in Nat
                           /\ Fit(u, nb) \in size_t /\ Index(u) \in treemap /\ Index(u) \in Nat
  <2> SUFFICES ASSUME NEW u \in TreeNodes
               PROVE  /\ u \in Chunks /\ ChunkSize[u] \in Nat /\ ChunkSize[u] >= nb
                      /\ Fit(u, nb) = ChunkSize[u] - nb /\ Fit(u, nb) \in Nat
                      /\ Fit(u, nb) \in size_t /\ Index(u) \in treemap /\ Index(u) \in Nat
    OBVIOUS
  <2>1. u \in Chunks /\ IsSize(ChunkSize[u]) /\ ChunkSize[u] \in Nat /\ Index(u) \in treemap
    BY BinFacts
  <2>2. ChunkSize[u] >= nb
    BY <1>6, <2>1 DEF IsSize
  <2>3. Fit(u, nb) = ChunkSize[u] - nb /\ Fit(u, nb) \in Nat /\ Fit(u, nb) \in size_t
    BY <2>1, <2>2, FitFacts
  <2> QED  BY <1>1, <2>1, <2>2, <2>3
<1>8. PICK b : b = [v |-> t, rsize |-> Fit(t, nb)]
  OBVIOUS
<1>9. b \in Best /\ Better(b, t, nb) = b /\ b.v = t /\ b.rsize = Fit(t, nb)
  BY <1>5, <1>7, <1>8 DEF Best, Better
<1>10. PICK f : /\ IsLeftmost(f, nb)
                /\ \A T0, best0 : leftmost_path(T0, best0, nb) = f[[at |-> T0, best |-> best0]]
  BY LeftmostIs
<1>11. leftmost_path(leftmost_child(t), b, nb) = leftmost_path(t, b, nb)
  <2>1. t \in Chunks
    BY <1>5, <1>7
  <2>2. f[[at |-> t, best |-> b]] = f[[at |-> leftmost_child(t), best |-> b]]
    BY <1>5, <1>9, <1>10, <2>1 DEF IsLeftmost
  <2> QED  BY <1>10, <2>2
<1>12. PICK r : r = leftmost_path(t, b, nb)
  OBVIOUS
<1>13. v = r.v
  BY <1>3, <1>4, <1>8, <1>11, <1>12 DEF best_small
<1>14. BestBelow(r, b, t, nb, lvl)
  BY <1>5, <1>7, <1>9, <1>12, LeftmostPath
<1>15. v \in TreeNodes /\ Under(t, v, lvl) /\ r.rsize = Fit(v, nb)
  BY <1>5, <1>9, <1>13, <1>14 DEF BestBelow
<1>16. ASSUME NEW u \in TreeNodes PROVE ChunkSize[v] <= ChunkSize[u]
  <2>1. Index(v) = I /\ I <= Index(u)
    BY <1>2, <1>5, <1>7, <1>15
  <2>2. CASE Index(u) = I
    <3>1. r.rsize <= Fit(u, nb)
      BY <1>5, <1>14, <2>2 DEF BestBelow
    <3> QED  BY <1>6, <1>7, <1>15, <3>1
  <2>3. CASE Index(u) # I
    <3>1. ASSUME ChunkSize[u] <= ChunkSize[v] PROVE FALSE
      <4>1. IsSize(ChunkSize[u])
        BY BinFacts
      <4>2. compute_tree_index(ChunkSize[u]) <= Index(v)
        BY <1>15, <3>1, <4>1, BinFacts
      <4>3. Index(u) <= I
        BY <2>1, <4>2 DEF Index
      <4> QED  BY <1>3, <1>7, <2>1, <2>3, <4>3
    <3> QED  BY <1>7, <1>15, <3>1
  <2> QED  BY <2>2, <2>3
<1> QED  BY <1>7, <1>15, <1>16 DEF LeastFit

-------------------------------------------------------------------------------
(* The invariant.                                                          *)

(* The tries are well formed at first. *)
LEMMA InitInv == Init => TreeInv
<1> SUFFICES ASSUME Init PROVE TreeInv
  OBVIOUS
<1> DEFINE lvl == [c \in Chunks |-> 0]
           Q == [s \in AllSizes |-> <<>>]
<1>1. /\ treemap = {} /\ treebins = [I \in Bins |-> null] /\ inuse = Chunks
      /\ node = [c \in Chunks |-> Payload]
  BY DEF Init
<1>2. TypeOK
  BY <1>1, PayloadType DEF TypeOK
<1>3. Free = {} /\ TreeNodes = {}
  BY <1>1 DEF Free, TreeNodes
<1>4. Tries(lvl)
  BY <1>1, <1>3 DEF Tries
<1>5. ASSUME NEW s \in AllSizes PROVE IsRing(Q[s], s)
  <2>1. Q[s] = <<>> /\ <<>> \in Seq(Chunks) /\ Len(<<>>) = 0
    OBVIOUS
  <2>2. 1 .. 0 = {}
    OBVIOUS
  <2> HIDE DEF Q
  <2> QED  BY <2>1, <2>2 DEF IsRing
<1>6. Rings(Q)
  <2>1. Q \in [AllSizes -> Seq(Chunks)]
    OBVIOUS
  <2> HIDE DEF Q
  <2> QED  BY <1>3, <1>5, <2>1 DEF Rings
<1> HIDE DEF lvl, Q
<1> QED  BY <1>2, <1>4, <1>6 DEF TreeInv, Shape

(* The head of a queue is a node of the trie, and heads its ring. *)
LEMMA QueueHead ==
  ASSUME NEW Q, Rings(Q), NEW s \in AllSizes, Q[s] # <<>>
  PROVE  /\ Q[s] \in Seq(Chunks) /\ Len(Q[s]) \in Nat /\ Len(Q[s]) >= 1
         /\ Q[s][1] \in TreeNodes /\ ChunkSize[Q[s][1]] = s /\ Ring(Q[s][1]) = Q[s]
<1>1. IsRing(Q[s], s) /\ Q[s] \in Seq(Chunks)
  BY DEF Rings
<1>2. Len(Q[s]) \in Nat /\ Len(Q[s]) >= 1
  BY <1>1
<1>3. Q[s][1] \in Free /\ ChunkSize[Q[s][1]] = s /\ node[Q[s][1]].parent # null
  BY <1>1, <1>2 DEF IsRing
<1>4. Q[s][1] \in TreeNodes
  BY <1>3 DEF Free, TreeNodes
<1>5. Ring(Q[s][1]) = Q[s]
  BY <1>1, <1>2, RingIs
<1> QED  BY <1>1, <1>2, <1>3, <1>4, <1>5

(* A free chunk is in the queue of its size. *)
LEMMA InQueue ==
  ASSUME NEW Q, Rings(Q), NEW x \in Free
  PROVE  /\ ChunkSize[x] \in AllSizes /\ Q[ChunkSize[x]] # <<>>
         /\ \E k \in 1 .. Len(Q[ChunkSize[x]]) : Q[ChunkSize[x]][k] = x
<1>1. ChunkSize[x] \in AllSizes
  BY DEF Free, AllSizes
<1>2. \E k \in 1 .. Len(Q[ChunkSize[x]]) : Q[ChunkSize[x]][k] = x
  BY DEF Rings
<1>3. Q[ChunkSize[x]] # <<>>
  <2>1. Len(<<>>) = 0 /\ 1 .. 0 = {}
    OBVIOUS
  <2> QED  BY <1>2, <2>1
<1> QED  BY <1>1, <1>2, <1>3

(* The queues of AbstractTreeBins. *)
Bar == [s \in {ChunkSize[c] : c \in Chunks} |-> QueueOf(s)]

BarRight == \A Q : Rings(Q) => Bar = Q

(* They are those of the description. *)
LEMMA BarIs == BarRight
<1> SUFFICES ASSUME NEW Q, Rings(Q) PROVE Bar = Q
  BY DEF BarRight
<1>1. Bar = [s \in AllSizes |-> QueueOf(s)]
  BY DEF Bar, AllSizes
<1>2. Q = [s \in AllSizes |-> Q[s]]
  BY DEF Rings
<1>3. \A s \in AllSizes : QueueOf(s) = Q[s]
  BY QueueIs
<1> QED  BY <1>1, <1>2, <1>3

(* The oldest chunk leaves a queue. *)
LEMMA RemoveFirst ==
  ASSUME NEW q \in Seq(Chunks), q # <<>>
  PROVE  Queues!RemoveAt(q, 1) = Tail(q)
<1>1. Len(q) \in Nat /\ Len(q) >= 1 /\ 1 \in 1 .. Len(q)
  OBVIOUS
<1>2. PICK r \in Seq(Chunks) :
         /\ r = Queues!RemoveAt(q, 1) /\ Len(r) = Len(q) - 1
         /\ \A j \in 1 .. Len(q) - 1 : r[j] = IF j < 1 THEN q[j] ELSE q[j + 1]
  BY <1>1, RemoveAtIs
<1>3. Tail(q) \in Seq(Chunks) /\ Len(Tail(q)) = Len(q) - 1
      /\ \A j \in 1 .. Len(q) - 1 : Tail(q)[j] = q[j + 1]
  OBVIOUS
<1>4. \A j \in 1 .. Len(q) - 1 : r[j] = Tail(q)[j]
  BY <1>1, <1>2, <1>3
<1>5. r = Tail(q)
  BY <1>2, <1>3, <1>4, SeqEqual
<1> QED  BY <1>2, <1>5

(* A chunk that is freed joins at the end of the queue of its size. *)
LEMMA InsertStep ==
  ASSUME TreeInv, NEW X \in Chunks, Insert(X)
  PROVE  TreeInv' /\ Queues!Insert(X)
<1>1. PICK lvl, Q : Shape(lvl, Q)
  BY DEF TreeInv
<1>2. TypeOK /\ Rings(Q) /\ Q \in [AllSizes -> Seq(Chunks)]
  BY <1>1 DEF TreeInv, Shape, Rings
<1>3. PICK R : R = [Q EXCEPT ![ChunkSize[X]] = Append(@, X)]
  OBVIOUS
<1>4. TypeOK' /\ \E new : Shape(new, R)'
  BY <1>1, <1>2, <1>3, InsertKeeps
<1>5. TreeInv' /\ Rings(R)'
  BY <1>4 DEF TreeInv, Shape
<1>6. Bar = Q
  BY <1>2, BarIs DEF BarRight
<1>7. BarRight'
  BY BarIs, PTL
<1>8. Bar' = R
  BY <1>5, <1>7 DEF BarRight
<1>9. \A s \in AllSizes : \A k \in DOMAIN Q[s] : Q[s][k] # X
  <2> SUFFICES ASSUME NEW s \in AllSizes, NEW k \in DOMAIN Q[s], Q[s][k] = X PROVE FALSE
    OBVIOUS
  <2>1. IsRing(Q[s], s) /\ Q[s] \in Seq(Chunks)
    BY <1>2 DEF Rings
  <2>2. k \in 1 .. Len(Q[s])
    BY <2>1
  <2>3. X \in Free
    BY <2>1, <2>2 DEF IsRing
  <2> QED  BY <2>3 DEF Free, Insert
<1>10. Queues!Sizes = AllSizes
  BY DEF Queues!Sizes, AllSizes
<1>11. Queues!Insert(X) <=> /\ \A s \in AllSizes : \A k \in DOMAIN Bar[s] : Bar[s][k] # X
                            /\ Bar' = [Bar EXCEPT ![ChunkSize[X]] = Append(@, X)]
  BY <1>10 DEF Queues!Insert, Bar
<1> QED  BY <1>3, <1>5, <1>6, <1>8, <1>9, <1>11

(* One that is unlinked leaves the queue from where it is. *)
LEMMA UnlinkStep ==
  ASSUME TreeInv, NEW X \in Free, inuse' = inuse \cup {X}, unlink_large_chunk(X)
  PROVE  TreeInv' /\ Queues!Unlink(X)
         /\ (X \in TreeNodes => Bar' = [Bar EXCEPT ![ChunkSize[X]] = Tail(@)])
<1>1. PICK lvl, Q : Shape(lvl, Q)
  BY DEF TreeInv
<1>2. TypeOK /\ Rings(Q) /\ Q \in [AllSizes -> Seq(Chunks)]
  BY <1>1 DEF TreeInv, Shape, Rings
<1>3. PICK s \in AllSizes : s = ChunkSize[X] /\ Q[s] # <<>>
  BY <1>2, InQueue
<1>4. Q[s] \in Seq(Chunks) /\ Len(Q[s]) >= 1 /\ Len(Q[s]) \in Nat /\ DOMAIN Q[s] = 1 .. Len(Q[s])
  BY <1>2, <1>3
<1>5. PICK k \in 1 .. Len(Q[s]) : Q[s][k] = X /\ (X \in TreeNodes => k = 1)
  <2>1. CASE X \in TreeNodes
    <3>1. Q[s][1] = X /\ 1 \in 1 .. Len(Q[s])
      BY <1>2, <1>3, <1>4, <2>1, Distinct
    <3> QED  BY <3>1
  <2>2. CASE X \notin TreeNodes
    BY <1>2, <1>3, <2>2, InQueue
  <2> QED  BY <2>1, <2>2
<1>6. PICK R : R = [Q EXCEPT ![s] = Queues!RemoveAt(@, k)]
  OBVIOUS
<1>7. TypeOK' /\ \E new : Shape(new, R)'
  BY <1>1, <1>2, <1>3, <1>5, <1>6, UnlinkKeeps
<1>8. TreeInv' /\ Rings(R)'
  BY <1>7 DEF TreeInv, Shape
<1>9. Bar = Q
  BY <1>2, BarIs DEF BarRight
<1>10. BarRight'
  BY BarIs, PTL
<1>11. Bar' = R
  BY <1>8, <1>10 DEF BarRight
<1>12. Queues!Unlink(X) <=> \E i \in DOMAIN Bar[ChunkSize[X]] :
                               /\ Bar[ChunkSize[X]][i] = X
                               /\ Bar' = [Bar EXCEPT ![ChunkSize[X]] = Queues!RemoveAt(@, i)]
  BY DEF Queues!Unlink, Bar
<1>13. Queues!Unlink(X)
  BY <1>3, <1>4, <1>5, <1>6, <1>9, <1>11, <1>12
<1>14. X \in TreeNodes => Bar' = [Bar EXCEPT ![ChunkSize[X]] = Tail(@)]
  <2> SUFFICES ASSUME X \in TreeNodes PROVE R = [Q EXCEPT ![s] = Tail(@)]
    BY <1>3, <1>9, <1>11
  <2>1. Queues!RemoveAt(Q[s], 1) = Tail(Q[s])
    BY <1>3, <1>4, RemoveFirst
  <2> QED  BY <1>2, <1>5, <1>6, <2>1
<1> QED  BY <1>8, <1>13, <1>14

(* A request takes the oldest chunk of the least size that is enough. *)
LEMMA TakeStep ==
  ASSUME TreeInv, NEW nb \in Requests, tmalloc_large(nb) \/ tmalloc_small(nb)
  PROVE  TreeInv' /\ Queues!Take(nb)
<1>1. PICK lvl, Q : Shape(lvl, Q)
  BY DEF TreeInv
<1>2. TypeOK /\ Tries(lvl) /\ Rings(Q) /\ Q \in [AllSizes -> Seq(Chunks)]
  BY <1>1 DEF TreeInv, Shape, Rings
<1>3. nb \in size_t /\ nb \in Nat /\ MIN_LARGE_SIZE \in Nat
  BY TreeAssumption, SizeNumbers
<1>4. PICK v : LeastFit(v, nb) /\ inuse' = inuse \cup {v} /\ unlink_large_chunk(v)
  <2>1. CASE tmalloc_large(nb)
    <3>1. PICK v : /\ v = best_large(nb) /\ ~is_small(nb) /\ v # null
                   /\ inuse' = inuse \cup {v} /\ unlink_large_chunk(v)
      BY <2>1 DEF tmalloc_large
    <3>2. IsSize(nb)
      <4>1. ASSUME TooLarge(nb) PROVE FALSE
        BY <1>2, <3>1, <4>1, TooLargeNone
      <4> QED  BY <1>3, <3>1, <4>1, BeyondIndex
    <3>3. LeastFit(v, nb)
      BY <1>2, <3>1, <3>2, BestLarge
    <3> QED  BY <3>1, <3>3
  <2>2. CASE tmalloc_small(nb)
    <3>1. PICK v : /\ v = best_small(nb) /\ is_small(nb) /\ treemap # {}
                   /\ inuse' = inuse \cup {v} /\ unlink_large_chunk(v)
      BY <2>2 DEF tmalloc_small
    <3>2. LeastFit(v, nb)
      BY <1>2, <1>3, <3>1, BestSmall
    <3> QED  BY <3>1, <3>2
  <2> QED  BY <2>1, <2>2
<1>5. v \in TreeNodes /\ v \in Free /\ v \in Chunks
  BY <1>4 DEF LeastFit, TreeNodes, Free
<1>6. TreeInv' /\ Bar' = [Bar EXCEPT ![ChunkSize[v]] = Tail(@)]
  BY <1>4, <1>5, UnlinkStep
<1>7. Bar = Q
  BY <1>2, BarIs DEF BarRight
<1> DEFINE S == {s \in AllSizes : s >= nb /\ Q[s] # <<>>}
<1>8. ChunkSize[v] \in S
  <2>1. ChunkSize[v] \in AllSizes /\ Q[ChunkSize[v]] # <<>>
    BY <1>2, <1>5, InQueue
  <2> QED  BY <1>4, <2>1 DEF LeastFit
<1>9. \A x \in S : x \in Nat /\ ChunkSize[v] <= x
  <2> SUFFICES ASSUME NEW x \in S PROVE x \in Nat /\ ChunkSize[v] <= x
    OBVIOUS
  <2>1. Q[x][1] \in TreeNodes /\ ChunkSize[Q[x][1]] = x
    BY <1>2, QueueHead
  <2>2. Q[x][1] \in Chunks
    BY <2>1 DEF TreeNodes
  <2> QED  BY <1>4, <2>1, <2>2, ChunkFacts DEF LeastFit
<1>10. Min(S) = ChunkSize[v]
  <2> HIDE DEF S
  <2> QED  BY <1>8, <1>9, MinIs
<1>11. Queues!Sufficient(nb) = S
  <2>1. Queues!Sufficient(nb) = {s \in Queues!Sizes : s >= nb /\ Bar[s] # <<>>}
    BY DEF Queues!Sufficient, Bar
  <2>2. Queues!Sizes = AllSizes
    BY DEF Queues!Sizes, AllSizes
  <2> QED  BY <1>7, <2>1, <2>2
<1> HIDE DEF S
<1>12. Queues!Min(S) = Min(S)
  BY DEF Queues!Min, Min
<1>13. Queues!Take(nb) <=> /\ Queues!Sufficient(nb) # {}
                           /\ Bar' = [Bar EXCEPT ![Queues!Min(Queues!Sufficient(nb))] = Tail(@)]
  BY DEF Queues!Take, Bar
<1>14. Queues!Take(nb)
  BY <1>6, <1>8, <1>10, <1>11, <1>12, <1>13
<1> QED  BY <1>6, <1>14

(* Every step keeps the invariant, and is one of the queues. *)
LEMMA NextStep ==
  ASSUME TreeInv, Next
  PROVE  TreeInv' /\ Queues!Next
<1>1. CASE \E X \in Chunks : Insert(X)
  <2>1. PICK X \in Chunks : Insert(X)
    BY <1>1
  <2>2. TreeInv' /\ Queues!Insert(X)
    BY <2>1, InsertStep
  <2> QED  BY <2>2 DEF Queues!Next
<1>2. CASE \E X \in Chunks : Unlink(X)
  <2>1. PICK X \in Chunks : Unlink(X)
    BY <1>2
  <2>2. X \in Free /\ inuse' = inuse \cup {X} /\ unlink_large_chunk(X)
    BY <2>1 DEF Unlink, Free
  <2>3. TreeInv' /\ Queues!Unlink(X)
    BY <2>2, UnlinkStep
  <2> QED  BY <2>3 DEF Queues!Next
<1>3. CASE \E nb \in Requests : tmalloc_large(nb) \/ tmalloc_small(nb)
  <2>1. PICK nb \in Requests : tmalloc_large(nb) \/ tmalloc_small(nb)
    BY <1>3
  <2>2. TreeInv' /\ Queues!Take(nb)
    BY <2>1, TakeStep
  <2> QED  BY <2>2 DEF Queues!Next
<1> QED  BY <1>1, <1>2, <1>3 DEF Next

(* A step of no chunk leaves the description as it is. *)
LEMMA StutterInv ==
  ASSUME TreeInv, UNCHANGED vars
  PROVE  TreeInv' /\ Bar' = Bar
<1>1. treemap' = treemap /\ treebins' = treebins /\ node' = node /\ inuse' = inuse
  BY DEF vars
<1>2. TypeOK'
  BY <1>1 DEF TreeInv, TypeOK
<1>3. PICK lvl, Q : Shape(lvl, Q)
  BY DEF TreeInv
<1>4. Free' = Free /\ TreeNodes' = TreeNodes
  BY <1>1 DEF Free, TreeNodes
<1>5. Rings(Q)'
  <2>1. Rings(Q)
    BY <1>3 DEF Shape
  <2>2. ASSUME NEW s \in AllSizes PROVE IsRing(Q[s], s)'
    <3>1. IsRing(Q[s], s)
      BY <2>1 DEF Rings
    <3> QED  BY <1>1, <1>4, <3>1 DEF IsRing, Leaf
  <2>3. Q \in [AllSizes -> Seq(Chunks)]
        /\ \A c \in Free' : \E k \in 1 .. Len(Q[ChunkSize[c]]) : Q[ChunkSize[c]][k] = c
    BY <1>4, <2>1 DEF Rings
  <2> QED  BY <2>2, <2>3 DEF Rings
<1>6. Tries(lvl)'
  BY <1>1, <1>3, <1>4 DEF Shape, Tries, IsRoot, IsChild
<1>7. TreeInv'
  BY <1>2, <1>5, <1>6 DEF TreeInv, Shape
<1>8. Bar = Q
  BY <1>3, BarIs DEF Shape, BarRight
<1>9. BarRight'
  BY BarIs, PTL
<1>10. Bar' = Q
  BY <1>5, <1>9 DEF BarRight
<1> QED  BY <1>7, <1>8, <1>10

(***************************************************************************)
(* The bins are tries with a ring at each node in every state: with some   *)
(* level for each node and some queue for each size, the digits of a node  *)
(* up to its level are those of the way to it, and its ring is the queue.  *)
(* No insertion, removal or allocation (malloc.c:3643-3780) breaks this,   *)
(* for chunks below IndexRange (malloc.c:2835) and requests of any size.   *)
(***************************************************************************)
THEOREM TreeInvariance == Spec => []TreeInv
<1>1. TreeInv /\ [Next]_vars => TreeInv'
  BY NextStep, StutterInv
<1> QED  BY <1>1, InitInv, PTL DEF Spec

(* In every state all that do_check_treebins asserts holds. *)
LEMMA ChecksHold == TreeInv => CheckTreebins
<1> SUFFICES ASSUME TreeInv PROVE CheckTreebins
  OBVIOUS
<1>1. PICK lvl, Q : Shape(lvl, Q)
  BY DEF TreeInv
<1>2. TypeOK /\ Tries(lvl) /\ Rings(Q)
  BY <1>1 DEF TreeInv, Shape
<1>3. node \in [Chunks -> malloc_tree_chunk] /\ \A I \in Bins : I \in treemap <=> treebins[I] # null
  BY <1>2 DEF TypeOK, Tries
<1>4. ASSUME NEW t \in TreeNodes PROVE do_check_tree(t)
  <2>1. t \in Chunks /\ t \in Free /\ t # null /\ node[t].parent # null
    BY <1>2, NodeFacts
  <2>2. PICK s \in AllSizes : s = ChunkSize[t] /\ IsSize(s)
    BY <2>1, ChunkFacts
  <2>3. PICK I \in Bins : I = compute_tree_index(s) /\ I = Index(t) /\ node[t].index = I
    <3>1. node[t].index = Index(t)
      BY <1>2, Distinct
    <3> QED  BY <2>1, <2>2, <3>1, ChunkFacts DEF Index
  <2>4. /\ s >= minsize_for_tree_index(I)
        /\ I = NTREEBINS - 1 \/ s < minsize_for_tree_index(I + 1)
    BY <2>2, <2>3, IndexFacts
  <2>5. /\ Q[s] # <<>> /\ Q[s] \in Seq(Chunks) /\ Len(Q[s]) >= 1 /\ Q[s][1] = t
        /\ IsRing(Q[s], s) /\ Ring(t) = Q[s]
    <3>1. Q[s] # <<>> /\ Q[s][1] = t
      BY <1>2, <2>2, Distinct
    <3> QED  BY <1>2, <3>1, QueueHead DEF Rings
  <2>6. ASSUME NEW n \in DOMAIN Ring(t) PROVE do_check_node(t, Ring(t)[n])
    <3>1. n \in 1 .. Len(Q[s]) /\ 1 \in 1 .. Len(Q[s])
      BY <2>5, <2>6
    <3>2. PICK u : u = Q[s][n]
      OBVIOUS
    <3>3. /\ u \in Free /\ ChunkSize[u] = s /\ node[u].index = I
          /\ (node[u].parent # null) <=> (n = 1)
          /\ n # 1 => Leaf(u)
          /\ u = t => n = 1
      BY <2>3, <2>5, <3>1, <3>2 DEF IsRing
    <3>4. u # null /\ u \notin inuse
      BY <3>3, ChunkFacts DEF Free
    <3>5. node[node[u].fd].bk = u /\ node[node[u].bk].fd = u
      BY <1>2, <3>3, RingLinks
    <3>6. n = 1 => u = t
      BY <2>5, <3>2
    <3> QED  BY <2>2, <2>3, <2>5, <3>2, <3>3, <3>4, <3>5, <3>6 DEF do_check_node
  <2>7. \/ node[t].parent = Bin(I) /\ treebins[I] = t
        \/ \E b \in {0, 1} : node[t].parent # t /\ node[node[t].parent].child[b] = t
    <3>1. CASE IsRoot(t, lvl)
      BY <2>3, <3>1 DEF IsRoot
    <3>2. CASE \E p \in TreeNodes : IsChild(t, p, lvl)
      <4>1. PICK p \in TreeNodes : IsChild(t, p, lvl)
        BY <3>2
      <4>2. DigitOf(t, lvl[p]) \in {0, 1}
        BY <1>2, <4>1, ChildDigit
      <4>3. node[t].parent = p /\ node[p].child[DigitOf(t, lvl[p])] = t /\ lvl[t] = lvl[p] + 1
        BY <4>1 DEF IsChild
      <4>4. t # p
        <5>1. lvl[p] \in Nat
          BY <1>2, NodeFacts
        <5> QED  BY <4>3, <5>1
      <4> QED  BY <4>2, <4>3, <4>4
    <3> QED  BY <1>2, <3>1, <3>2 DEF Tries
  <2>8. \A b \in {0, 1} : node[t].child[b] # null =>
           node[t].child[b] \in TreeNodes /\ node[node[t].child[b]].parent = t
    BY <1>2, NodeFacts DEF IsChild
  <2>9. ASSUME node[t].child[0] # null, node[t].child[1] # null
        PROVE  ChunkSize[node[t].child[0]] < ChunkSize[node[t].child[1]]
    <3>1. \A c \in TreeNodes : Under(c, c, lvl)
      <4>1. \A c \in TreeNodes : lvl[c] \in Nat
        BY <1>2, NodeFacts
      <4> QED  BY <4>1 DEF Under, Agree
    <3>2. /\ Under(node[t].child[0], node[t].child[0], lvl)
          /\ Under(node[t].child[1], node[t].child[1], lvl)
      BY <2>8, <2>9, <3>1
    <3> QED  BY <1>2, <2>9, <3>2, ChildOrder
  <2>10. \A b \in {0, 1} : node[t].child[b] # null => node[node[t].child[b]].parent = t
    BY <2>8
  <2> QED  BY <2>2, <2>3, <2>4, <2>6, <2>7, <2>9, <2>10 DEF do_check_tree
<1> QED  BY <1>3, <1>4 DEF CheckTreebins

(* In every state the descent finds each free chunk, and the search comes  *)
(* back empty only if there is nothing to find.                            *)
LEMMA AllFound == TreeInv => EveryChunkFound
<1> SUFFICES ASSUME TreeInv PROVE EveryChunkFound
  OBVIOUS
<1>1. PICK lvl, Q : Shape(lvl, Q)
  BY DEF TreeInv
<1>2. TypeOK /\ Tries(lvl) /\ Rings(Q)
  BY <1>1 DEF TreeInv, Shape
<1>3. ASSUME NEW x \in Chunks \ inuse
      PROVE  LET I == compute_tree_index(ChunkSize[x])
                 t == descend(treebins[I], ChunkSize[x], sizebits(ChunkSize[x], I)).at
             IN /\ treebins[I] # null
                /\ \E n \in DOMAIN Ring(t) : Ring(t)[n] = x
  <2>1. x \in Free /\ x \in Chunks
    BY DEF Free
  <2>2. PICK I : I = compute_tree_index(ChunkSize[x]) /\ I = Index(x)
    BY DEF Index
  <2>3. PICK end : end = descend(treebins[I], ChunkSize[x], sizebits(ChunkSize[x], I))
    OBVIOUS
  <2>4. PICK s \in AllSizes : s = ChunkSize[x] /\ Q[s] # <<>> /\ \E k \in 1 .. Len(Q[s]) : Q[s][k] = x
    BY <1>2, <2>1, InQueue
  <2>5. PICK h \in TreeNodes : h = Q[s][1] /\ ChunkSize[h] = s /\ Ring(h) = Q[s]
                              /\ Q[s] \in Seq(Chunks)
    BY <1>2, <2>4, QueueHead
  <2>6. treebins[I] # null /\ end.at \in TreeNodes /\ ChunkSize[end.at] = s
    BY <1>2, <2>1, <2>2, <2>3, <2>4, <2>5, DescentHits
  <2>7. end.at = h
    BY <1>2, <2>5, <2>6, Distinct
  <2>8. \E n \in DOMAIN Ring(end.at) : Ring(end.at)[n] = x
    BY <2>4, <2>5, <2>7
  <2> QED  BY <2>2, <2>3, <2>6, <2>8
<1>4. ASSUME NEW nb \in Requests, ~is_small(nb), NEW c \in Chunks \ inuse, ChunkSize[c] >= nb
      PROVE  best_large(nb) # null
  <2>1. nb \in size_t /\ nb \in Nat /\ MIN_LARGE_SIZE \in Nat
    BY TreeAssumption, SizeNumbers
  <2>2. IsSize(nb)
    <3>1. ASSUME TooLarge(nb) PROVE FALSE
      <4>1. ChunkSize[c] < nb
        BY <3>1 DEF TooLarge
      <4>2. ChunkSize[c] \in Nat
        BY ChunkFacts
      <4> QED  BY <1>4, <2>1, <4>1, <4>2
    <3> QED  BY <1>4, <2>1, <3>1, BeyondIndex
  <2>3. c \in Free /\ c \in Chunks /\ ChunkSize[c] \in Nat
    BY ChunkFacts DEF Free
  <2>4. PICK s \in AllSizes : s = ChunkSize[c] /\ Q[s] # <<>>
    BY <1>2, <2>3, InQueue
  <2>5. PICK h \in TreeNodes : ChunkSize[h] = s
    BY <1>2, <2>4, QueueHead
  <2>6. ASSUME best_large(nb) = null PROVE FALSE
    <3>1. ChunkSize[h] < nb
      BY <1>2, <2>2, <2>6, BestLarge
    <3> QED  BY <1>4, <2>1, <2>3, <2>4, <2>5, <3>1
  <2> QED  BY <2>6
<1> QED  BY <1>3, <1>4 DEF EveryChunkFound

(***************************************************************************)
(* CheckTreebins for every set of chunks below IndexRange and every number *)
(* of bins: the assertions that the debug build makes of the tries         *)
(* (malloc.c:3296-3356) never fail.                                        *)
(***************************************************************************)
THEOREM TreebinsAlwaysCheck == Spec => []CheckTreebins
<1>1. TreeInv => CheckTreebins
  BY ChecksHold
<1> QED  BY <1>1, TreeInvariance, PTL

(***************************************************************************)
(* EveryChunkFound for every set of chunks below IndexRange: the digits of *)
(* a size lead to the chunks of it, and tmalloc_large gives up on a        *)
(* request of any size only when no free chunk is large enough             *)
(* (malloc.c:3391-3411 and 4429-4482).                                     *)
(***************************************************************************)
THEOREM ChunksAlwaysFound == Spec => []EveryChunkFound
<1>1. TreeInv => EveryChunkFound
  BY AllFound
<1> QED  BY <1>1, TreeInvariance, PTL

(***************************************************************************)
(* The tries implement the queues of AbstractTreeBins: every insertion     *)
(* appends to the queue of the size, every removal takes its chunk out of  *)
(* that queue, and no other chunk moves, however the tries are rearranged. *)
(***************************************************************************)
THEOREM QueuesImplemented == Spec => QueuesKept
<1>1. Init => Queues!Init
  <2> SUFFICES ASSUME Init PROVE Queues!Init
    OBVIOUS
  <2>1. TreeNodes = {}
    BY DEF Init, TreeNodes
  <2>2. \A s : QueueOf(s) = <<>>
    BY <2>1 DEF QueueOf
  <2> QED  BY <2>2 DEF Queues!Init, Queues!Sizes
<1>2. TreeInv /\ [Next]_vars => [Queues!Next]_Bar
  BY NextStep, StutterInv
<1> QED
  BY <1>1, <1>2, TreeInvariance, PTL DEF Spec, QueuesKept, Queues!Spec, Bar

(***************************************************************************)
(* BestFit for every set of chunks below IndexRange and requests of any    *)
(* size: what tmalloc_large and tmalloc_small (malloc.c:4429-4523)         *)
(* allocate is the chunk of the least size that is enough, and of these    *)
(* the one free for longest.                                               *)
(***************************************************************************)
THEOREM AllocationBestFit == Spec => BestFit
<1>1. TreeInv /\ [Next]_vars
        => [\A nb \in Requests : tmalloc_large(nb) \/ tmalloc_small(nb) => Queues!Take(nb)]_vars
  BY TakeStep
<1> QED  BY <1>1, TreeInvariance, PTL DEF Spec, BestFit
=================================================================================
