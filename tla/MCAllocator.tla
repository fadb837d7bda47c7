------------------------------ MODULE MCAllocator ------------------------------
(***************************************************************************)
(* A heap of at most eight pages of eight words, with chunks of 4 to 14    *)
(* words in small bins, and six programs.                                  *)
(***************************************************************************)
EXTENDS Allocator

Idle ==
    [requests |-> {1, 9}, resizes |-> {}, factors |-> {}, alignments |-> {}, lists |-> {},
     pads |-> {}, limits |-> {}, options |-> {}, blocks |-> 3, taken |-> 0, foreign |-> 0]

(* malloc, calloc and free, of small and large chunks. *)
Mallocs == [Idle EXCEPT !.requests = {0, 9, 14}, !.factors = {2, 130}]

(* realloc within, into and out of each kind of neighbour. *)
Reallocs == [Idle EXCEPT !.requests = {0, 5, 14}, !.resizes = {0, 5, 9}, !.taken = 16, !.foreign = 16]

(* Chunks cut up, and merged outside of free. *)
Aligns ==
    [Idle EXCEPT !.requests = {1, 5}, !.alignments = {1, 2, 6, 8}, !.taken = 16, !.foreign = 16]
Lists ==
    [Idle EXCEPT !.requests = {1, 5}, !.lists = BoundedSeq({1, 5}, 2), !.taken = 8, !.foreign = 8]

(* Others move the break, top is trimmed, the parameters change. *)
Trims == [Idle EXCEPT !.pads = {0, 8}, !.options = {<<"M_TRIM_THRESHOLD", 4>>},
                !.taken = 8, !.foreign = 10]
Limits ==
    [Idle EXCEPT !.limits = {0, 24, 255}, !.blocks = 2, !.taken = 8, !.foreign = 9,
                 !.options = {<<"M_GRANULARITY", 16>>, <<"M_GRANULARITY", 12>>}]

AllPrograms == {Mallocs, Reallocs, Aligns, Lists, Trims, Limits}
===============================================================================
