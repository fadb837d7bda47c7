------------------------ MODULE AbstractTransformation ------------------------
(***************************************************************************)
(* What a Transformation (transform.h) promises the search: it holds one   *)
(* rewrite; each proposal changes it in some way; and a proposal is        *)
(* settled by exactly one of Undo, which gives the rewrite of before the   *)
(* proposal back, and Accept, which leaves the proposed one in place.      *)
(***************************************************************************)
CONSTANT Rewrite        \* the rewrites a proposal may lead to

VARIABLES
    rewrite,            \* the function under search, as getFunction() returns it
    saved,              \* the rewrite at the last proposal
    pending             \* a proposal has been neither accepted nor undone

vars == <<rewrite, saved, pending>>

Init ==
    /\ rewrite \in Rewrite
    /\ saved = rewrite
    /\ pending = FALSE

Propose ==
    /\ ~pending
    /\ rewrite' \in Rewrite
    /\ saved' = rewrite
    /\ pending' = TRUE

Undo ==
    /\ pending
    /\ rewrite' = saved
    /\ pending' = FALSE
    /\ UNCHANGED saved

Accept ==
    /\ pending
    /\ pending' = FALSE
    /\ UNCHANGED <<rewrite, saved>>

Next == Propose \/ Undo \/ Accept

Spec == Init /\ [][Next]_vars
===============================================================================
