-------------------------------- MODULE TreeBins --------------------------------
(***************************************************************************)
(* The tree bins of the allocator (malloc.c): the bitwise tries that hold  *)
(* its large free chunks, with the pointers and the steps of the code.     *)
(* Malloc keeps these chunks as an abstract bin; this module shows that    *)
(* the tries are one.                                                      *)
(*                                                                         *)
(* A chunk is a positive address, 0 is the null pointer and -(I + 1) the   *)
(* address of the bin I, which the code stores in the parent field of the  *)
(* root.  treemap is the set of its marked bits.                           *)
(***************************************************************************)
EXTENDS MallocSizes, FiniteSetsExt, Functions

CONSTANTS
    NTREEBINS,
    Chunks,
    ChunkSize,          \* chunksize(c), in words
    Requests            \* the padded sizes asked for

ASSUME TreeAssumption ==
    /\ NTREEBINS \in Nat /\ NTREEBINS > 0 /\ NTREEBINS % 2 = 0
    /\ NTREEBINS \div 2 + TREEBIN_SHIFT <= SizeWidth
    /\ Chunks \subseteq Nat \ {0} /\ IsFiniteSet(Chunks)
    /\ ChunkSize \in [Chunks -> size_t]
    /\ \A c \in Chunks : ChunkSize[c] % 2 = 0 /\ ChunkSize[c] >= MIN_LARGE_SIZE
    /\ Requests \subseteq size_t

(* A chunk whose index would be taken of less than its size: the code does *)
(* not check that there is none, do_check_tree would stop at one, and the  *)
(* search for a smaller request would miss it.                             *)
ASSUME ChunkAssumption == \A c \in Chunks : ChunkSize[c] < IndexRange

VARIABLES
    treemap,            \* the marked bins
    treebins,           \* the root of each bin, or 0
    node,               \* the malloc_tree_chunk at each free chunk
    inuse               \* the chunks not in a bin: their cinuse bit is set

vars == <<treemap, treebins, node, inuse>>

null == 0
Bins == 0 .. NTREEBINS - 1
Bin(I) == -(I + 1)
malloc_tree_chunk ==
    [index : Bins, parent : Chunks \cup {null} \cup {Bin(I) : I \in Bins},
     child : [{0, 1} -> Chunks \cup {null}], fd : Chunks \cup {null}, bk : Chunks \cup {null}]

(* The links of a chunk in use are payload; no step reads them.            *)
Payload == [index |-> 0, parent |-> null, child |-> [b \in {0, 1} |-> null],
            fd |-> null, bk |-> null]

-------------------------------------------------------------------------------
(* Sizes and the digits that index the tries.                              *)

floor_log2(X) == CHOOSE K \in 0 .. SizeWidth - 1 : 2^K <= X /\ X < 2^(K + 1)

(* Two bins for each power of two, and the last for all that is larger; X  *)
(* is an unsigned int.                                                     *)
compute_tree_index(S) ==
    LET X == (S \div MIN_LARGE_SIZE) % 2^UnsignedWidth
        K == floor_log2(X)
    IN IF X = 0 THEN 0
       ELSE IF X > 2^(NTREEBINS \div 2) - 1 THEN NTREEBINS - 1
       ELSE 2 * K + ((S \div 2^(K + TREEBIN_SHIFT - 1)) % 2)

minsize_for_tree_index(I) ==
    2^((I \div 2) + TREEBIN_SHIFT) + (I % 2) * 2^((I \div 2) + TREEBIN_SHIFT - 1)

(* Mutant: the last bin is indexed as if it held one range like the rest. *)
leftshift_uniform(I) == SizeWidth - 1 - ((I \div 2) + TREEBIN_SHIFT - 2)

(* The shift that brings the first digit not fixed by the bin to the top. *)
leftshift_for_tree_index(I) ==
    IF I = NTREEBINS - 1 THEN 0 ELSE SizeWidth - 1 - ((I \div 2) + TREEBIN_SHIFT - 2)

sizebits(S, I) == (S * 2^leftshift_for_tree_index(I)) % SizeRange
TopBit(K) == K \div 2^(SizeWidth - 1)
ShiftLeft(K) == (2 * K) % SizeRange

-------------------------------------------------------------------------------
(* Insertion.                                                              *)

(* Where the descent from T by the digits K ends: at the node of size S,   *)
(* or at the node whose child of the next digit is null.                   *)
descend(T0, S, K0) ==
    LET walk[p \in [at : Chunks, key : size_t]] ==
            LET C == node[p.at].child[TopBit(p.key)]
            IN IF ChunkSize[p.at] = S \/ C = null
               THEN [at |-> p.at, digit |-> TopBit(p.key)]
               ELSE walk[[at |-> C, key |-> ShiftLeft(p.key)]]
    IN walk[[at |-> T0, key |-> K0]]

Alone(X, I, parent) ==
    [index |-> I, parent |-> parent, child |-> [b \in {0, 1} |-> null], fd |-> X, bk |-> X]

insert_large_chunk(X) ==
    LET S == ChunkSize[X]
        I == compute_tree_index(S)
        end == descend(treebins[I], S, sizebits(S, I))
        T == end.at
        F == node[T].fd
    IN /\ treemap' = treemap \cup {I}
       /\ IF I \notin treemap
          THEN /\ treebins' = [treebins EXCEPT ![I] = X]
               /\ node' = [node EXCEPT ![X] = Alone(X, I, Bin(I))]
          ELSE /\ UNCHANGED treebins
               /\ node' =
                    IF ChunkSize[T] # S
                    THEN [node EXCEPT ![X] = Alone(X, I, T), ![T].child[end.digit] = X]
                    ELSE [[node EXCEPT ![X] = [Alone(X, I, null) EXCEPT !.fd = F, !.bk = T],
                                       ![T].fd = X] EXCEPT ![F].bk = X]

-------------------------------------------------------------------------------
(* Removal.                                                                *)

Leaf(X) == node[X].child = [b \in {0, 1} |-> null]

(* The rightmost descendant of X, with the child pointer that leads to it. *)
rightmost_leaf(X) ==
    LET Last(T) == IF node[T].child[1] # null THEN 1 ELSE 0
        walk[T \in Chunks] ==
            LET C == node[T].child[Last(T)]
            IN IF Leaf(T) \/ Leaf(C)
               THEN [leaf |-> C, of |-> T, digit |-> Last(T)]
               ELSE walk[C]
    IN walk[X]

(* What replaces X, and the nodes once it is out of its ring or place.     *)
detach_from_ring(X) ==
    [heir |-> node[X].bk,
     nodes |-> [[node EXCEPT ![node[X].fd].bk = node[X].bk] EXCEPT ![node[X].bk].fd = node[X].fd]]

(* Mutant: the only child of X takes its place, as in a search tree. *)
detach_from_tree_child(X) ==
    LET b == IF node[X].child[1] # null THEN 1 ELSE 0
        R == node[X].child[b]
    IN IF Leaf(X) THEN [heir |-> null, nodes |-> node]
       ELSE IF node[X].child[1 - b] = null
       THEN [heir |-> R, nodes |-> [node EXCEPT ![X].child = node[R].child]]
       ELSE LET last == rightmost_leaf(X)
            IN [heir |-> last.leaf, nodes |-> [node EXCEPT ![last.of].child[last.digit] = null]]

detach_from_tree(X) ==
    LET last == rightmost_leaf(X)
    IN IF Leaf(X) THEN [heir |-> null, nodes |-> node]
       ELSE [heir |-> last.leaf, nodes |-> [node EXCEPT ![last.of].child[last.digit] = null]]

(* R takes the place of X below XP, with the children X has left.          *)
take_place(nodes, X, R) ==
    LET XP == nodes[X].parent
        Child(c) == nodes[X].child[c]
        inherited == [b \in {0, 1} |-> IF Child(b) # null THEN Child(b) ELSE nodes[R].child[b]]
        Above(n) ==
            IF treebins[nodes[X].index] = X THEN n
            ELSE [n EXCEPT ![XP].child[IF n[XP].child[0] = X THEN 0 ELSE 1] = R]
        Below(n) ==
            IF R = null THEN n
            ELSE [c \in Chunks |->
                    IF c = R THEN [n[R] EXCEPT !.parent = XP, !.child = inherited]
                    ELSE IF c \in {Child(0), Child(1)} THEN [n[c] EXCEPT !.parent = R]
                    ELSE n[c]]
    IN Below(Above(nodes))

(* Mutant: the mark of a bin that becomes empty is kept. *)
unlink_large_chunk_marked(X) ==
    LET D == IF node[X].bk # X THEN detach_from_ring(X) ELSE detach_from_tree(X)
        I == node[X].index
    IN /\ treebins' = IF node[X].parent # null /\ treebins[I] = X
                      THEN [treebins EXCEPT ![I] = D.heir] ELSE treebins
       /\ UNCHANGED treemap
       /\ node' = [(IF node[X].parent # null THEN take_place(D.nodes, X, D.heir) ELSE D.nodes)
                      EXCEPT ![X] = Payload]

unlink_large_chunk(X) ==
    LET D == IF node[X].bk # X THEN detach_from_ring(X) ELSE detach_from_tree(X)
        I == node[X].index
        root == node[X].parent # null /\ treebins[I] = X
    IN /\ treebins' = IF root THEN [treebins EXCEPT ![I] = D.heir] ELSE treebins
       /\ treemap' = IF root /\ D.heir = null THEN treemap \ {I} ELSE treemap
       /\ node' = [(IF node[X].parent # null THEN take_place(D.nodes, X, D.heir) ELSE D.nodes)
                      EXCEPT ![X] = Payload]

-------------------------------------------------------------------------------
(* Searches.  best is the pair of v and rsize, the remainder it would      *)
(* leave; both are compared as unsigned numbers.                           *)

Best == [v : Chunks \cup {null}, rsize : size_t]
Fit(T, nb) == (ChunkSize[T] - nb) % SizeRange
Better(best, T, nb) ==
    IF Fit(T, nb) < best.rsize THEN [v |-> T, rsize |-> Fit(T, nb)] ELSE best

leftmost_child(T) == IF node[T].child[0] # null THEN node[T].child[0] ELSE node[T].child[1]

(* The best of T and the nodes down its leftmost path.                     *)
leftmost_path(T0, best0, nb) ==
    LET walk[p \in [at : Chunks \cup {null}, best : Best]] ==
            IF p.at = null THEN p.best
            ELSE walk[[at |-> leftmost_child(p.at), best |-> Better(p.best, p.at, nb)]]
    IN walk[[at |-> T0, best |-> best0]]

(* Mutant: the first right subtree passed by is kept. *)
sized_path_first(T0, best0, nb, K0) ==
    LET walk[p \in [at : Chunks, best : Best, rst : Chunks \cup {null}, key : size_t]] ==
            LET found == Better(p.best, p.at, nb)
                rt == node[p.at].child[1]
                next == node[p.at].child[TopBit(p.key)]
                passed == IF p.rst = null /\ rt # null /\ rt # next THEN rt ELSE p.rst
            IN IF found.rsize = 0 THEN [best |-> found, rst |-> null]
               ELSE IF next = null THEN [best |-> found, rst |-> passed]
               ELSE walk[[at |-> next, best |-> found, rst |-> passed, key |-> ShiftLeft(p.key)]]
    IN walk[[at |-> T0, best |-> best0, rst |-> null, key |-> K0]]

(* The descent of tmalloc_large by the digits of nb: the best fit on the   *)
(* way, and rst, the deepest right subtree it passed by (null if the fit   *)
(* is exact: the search ends there).                                       *)
sized_path(T0, best0, nb, K0) ==
    LET walk[p \in [at : Chunks, best : Best, rst : Chunks \cup {null}, key : size_t]] ==
            LET found == Better(p.best, p.at, nb)
                rt == node[p.at].child[1]
                next == node[p.at].child[TopBit(p.key)]
                passed == IF rt # null /\ rt # next THEN rt ELSE p.rst
            IN IF found.rsize = 0 THEN [best |-> found, rst |-> null]
               ELSE IF next = null THEN [best |-> found, rst |-> passed]
               ELSE walk[[at |-> next, best |-> found, rst |-> passed, key |-> ShiftLeft(p.key)]]
    IN walk[[at |-> T0, best |-> best0, rst |-> null, key |-> K0]]

(* The chunk tmalloc_large settles on, or null.                            *)
best_large(nb) ==
    LET idx == compute_tree_index(nb)
        none == [v |-> null, rsize |-> (-nb) % SizeRange]
        same == IF treebins[idx] = null THEN [best |-> none, rst |-> null]
                ELSE sized_path(treebins[idx], none, nb, sizebits(nb, idx))
        leftbits == {I \in treemap : I > idx}
        t == IF same.rst = null /\ same.best.v = null /\ leftbits # {}
             THEN treebins[Min(leftbits)] ELSE same.rst
    IN leftmost_path(t, same.best, nb).v

(* The chunk tmalloc_small settles on: the least of the first bin.         *)
best_small(nb) ==
    LET t == treebins[Min(treemap)]
    IN leftmost_path(leftmost_child(t), [v |-> t, rsize |-> Fit(t, nb)], nb).v

-------------------------------------------------------------------------------
Init ==
    /\ treemap = {}
    /\ treebins = [I \in Bins |-> null]
    /\ node = [c \in Chunks |-> Payload]
    /\ inuse = Chunks

Insert(X) ==
    /\ X \in inuse
    /\ inuse' = inuse \ {X}
    /\ insert_large_chunk(X)

(* A free neighbour of a chunk that is freed, or extended, is unlinked.    *)
Unlink(X) ==
    /\ X \notin inuse
    /\ inuse' = inuse \cup {X}
    /\ unlink_large_chunk(X)

tmalloc_large(nb) ==
    LET v == best_large(nb)
    IN /\ ~is_small(nb) /\ treemap # {} /\ v # null
       /\ inuse' = inuse \cup {v}
       /\ unlink_large_chunk(v)

tmalloc_small(nb) ==
    LET v == best_small(nb)
    IN /\ is_small(nb) /\ treemap # {}
       /\ inuse' = inuse \cup {v}
       /\ unlink_large_chunk(v)

Next ==
    \/ \E X \in Chunks : Insert(X) \/ Unlink(X)
    \/ \E nb \in Requests : tmalloc_large(nb) \/ tmalloc_small(nb)

Spec == Init /\ [][Next]_vars

-------------------------------------------------------------------------------
(* The chunks of the trie below t, those on the rings of its nodes too.    *)
Ring(t) ==
    LET from[n \in 0 .. Cardinality(Chunks)] == IF n = 0 THEN t ELSE node[from[n - 1]].bk
        len == Min({n \in 1 .. Cardinality(Chunks) : from[n] = t} \cup {Cardinality(Chunks)})
    IN [n \in 1 .. len |-> from[n - 1]]

do_check_node(t, u) ==
    /\ u # null
    /\ node[u].index = compute_tree_index(ChunkSize[t])
    /\ ChunkSize[u] = ChunkSize[t] /\ u \notin inuse
    /\ node[node[u].fd].bk = u /\ node[node[u].bk].fd = u
    /\ (u = t) <=> (node[u].parent # null)
    /\ u # t => Leaf(u)

(* do_check_tree, its recursion unfolded: the assertions for every chunk   *)
(* of a bin that is reached through the children of its nodes.             *)
do_check_tree(t) ==
    LET s == ChunkSize[t]
        I == node[t].index
        c0 == node[t].child[0]
        c1 == node[t].child[1]
    IN /\ s >= minsize_for_tree_index(I)
       /\ I = NTREEBINS - 1 \/ s < minsize_for_tree_index(I + 1)
       /\ \A n \in DOMAIN Ring(t) : do_check_node(t, Ring(t)[n])
       /\ \/ node[t].parent = Bin(I) /\ treebins[I] = t
          \/ \E b \in {0, 1} : node[t].parent # t /\ node[node[t].parent].child[b] = t
       /\ \A b \in {0, 1} : node[t].child[b] # null => node[node[t].child[b]].parent = t
       /\ c0 # null /\ c1 # null => ChunkSize[c0] < ChunkSize[c1]

TreeNodes == {c \in Chunks \ inuse : node[c].parent # null}

(* The assertions of do_check_treebin and do_check_tree (malloc.c) hold in *)
(* every bin, and the map of the bins marks just the ones that are not     *)
(* empty.  A node has its child, parent and ring pointers where they may   *)
(* point.                                                                  *)
CheckTreebins ==
    /\ node \in [Chunks -> malloc_tree_chunk]
    /\ \A I \in Bins : I \in treemap <=> treebins[I] # null
    /\ \A t \in TreeNodes : do_check_tree(t)

(* bin_find finds every free chunk: the digits of its size lead from the   *)
(* root of its bin to the node whose ring it is on.  And the search for a  *)
(* request comes back empty only if no free chunk is large enough.         *)
EveryChunkFound ==
    /\ \A x \in Chunks \ inuse :
           LET I == compute_tree_index(ChunkSize[x])
               t == descend(treebins[I], ChunkSize[x], sizebits(ChunkSize[x], I)).at
           IN /\ treebins[I] # null
              /\ \E n \in DOMAIN Ring(t) : Ring(t)[n] = x
    /\ \A nb \in Requests :
           ~is_small(nb) /\ (\E c \in Chunks \ inuse : ChunkSize[c] >= nb)
               => best_large(nb) # null

(* The queue of a size: the ring of its tree node, followed backwards.     *)
QueueOf(s) ==
    LET base == {c \in TreeNodes : ChunkSize[c] = s}
    IN IF base = {} THEN <<>> ELSE Ring(CHOOSE c \in base : TRUE)

Queues == INSTANCE AbstractTreeBins
    WITH queue <- [s \in {ChunkSize[c] : c \in Chunks} |-> QueueOf(s)]

(* The tries implement the queues: a chunk that is freed joins at the end  *)
(* of the queue of its size, one that is unlinked leaves it from anywhere, *)
(* and no other chunk moves, however the tries are rearranged.             *)
QueuesKept == Queues!Spec

(* A request is served by the oldest of the chunks that fit it best, as    *)
(* the comments on the searches say: of the least size that is enough, the *)
(* chunk that has been free for longest.                                   *)
BestFit ==
    [][\A nb \in Requests : tmalloc_large(nb) \/ tmalloc_small(nb) => Queues!Take(nb)]_vars
===============================================================================
