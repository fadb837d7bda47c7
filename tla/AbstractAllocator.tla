--------------------------- MODULE AbstractAllocator ---------------------------
(***************************************************************************)
(* What malloc, free and their relatives promise a program: a block that   *)
(* is handed out is aligned and disjoint from every other block in use; a  *)
(* block in use stays where it is; realloc keeps what the block holds, as  *)
(* far as the new size goes, and the old block if it fails.                *)
(***************************************************************************)
EXTENDS Integers

CONSTANT Alignment      \* MALLOC_ALIGNMENT

(* address -> the words asked for, how many of them hold what the program  *)
(* has written, the alignment asked for, and how many times the address is *)
(* handed out                                                              *)
VARIABLE blocks

Extent(mem) == mem .. mem + blocks[mem].size - 1

(* A block of no words still has an address of its own.                    *)
Sound ==
    \A mem \in DOMAIN blocks :
        /\ mem % Alignment = 0 /\ mem % blocks[mem].aligned = 0
        /\ blocks[mem].owners = 1
        /\ \A o \in DOMAIN blocks \ {mem} : o \notin Extent(mem)

Init == DOMAIN blocks = {}

Kept(mems) == \A mem \in mems : mem \in DOMAIN blocks' /\ blocks'[mem] = blocks[mem]

(* Several blocks at once: independent_calloc. *)
Allocate ==
    /\ Kept(DOMAIN blocks)
    /\ \A mem \in DOMAIN blocks' \ DOMAIN blocks : blocks'[mem].held = blocks'[mem].size

Free == DOMAIN blocks' \subseteq DOMAIN blocks /\ Kept(DOMAIN blocks')

Reallocate ==
    \E old \in DOMAIN blocks, new \in DOMAIN blocks' :
        /\ DOMAIN blocks' = (DOMAIN blocks \ {old}) \cup {new}
        /\ Kept(DOMAIN blocks \ {old})
        /\ LET n == blocks'[new].size
           IN blocks'[new].held = IF n < blocks[old].held THEN n ELSE blocks[old].held

Next == (Allocate \/ Free \/ Reallocate) /\ Sound'

Spec == Init /\ [][Next]_blocks
===============================================================================
