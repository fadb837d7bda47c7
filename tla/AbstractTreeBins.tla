---------------------------- MODULE AbstractTreeBins ----------------------------
(***************************************************************************)
(* What the large bins of the allocator promise: the free chunks of one    *)
(* size are a queue, and a request is served by the oldest chunk of the    *)
(* least size that is enough.                                              *)
(***************************************************************************)
EXTENDS Integers, SequencesExt

CONSTANTS Chunks, ChunkSize, Requests

VARIABLE queue      \* for each size, its free chunks, oldest first

Sizes == {ChunkSize[c] : c \in Chunks}
Sufficient(nb) == {s \in Sizes : s >= nb /\ queue[s] # <<>>}

Init == queue = [s \in Sizes |-> <<>>]

Insert(c) ==
    /\ \A s \in Sizes : \A k \in DOMAIN queue[s] : queue[s][k] # c
    /\ queue' = [queue EXCEPT ![ChunkSize[c]] = Append(@, c)]

Unlink(c) ==
    \E k \in DOMAIN queue[ChunkSize[c]] :
        /\ queue[ChunkSize[c]][k] = c
        /\ queue' = [queue EXCEPT ![ChunkSize[c]] = RemoveAt(@, k)]

Take(nb) ==
    /\ Sufficient(nb) # {}
    /\ queue' = [queue EXCEPT ![Min(Sufficient(nb))] = Tail(@)]

Next ==
    \/ \E c \in Chunks : Insert(c) \/ Unlink(c)
    \/ \E nb \in Requests : Take(nb)

Spec == Init /\ [][Next]_queue
===============================================================================
