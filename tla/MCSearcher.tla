------------------------------- MODULE MCSearcher -------------------------------
(***************************************************************************)
(* A search among five rewrites of zero to three instructions, two of them *)
(* correct, tested by two workers.                                         *)
(***************************************************************************)
EXTENDS Searcher, TLC

CONSTANTS empty, wrong, crash, right, long

MCRewrite == {empty, wrong, crash, right, long}

MCLatency == empty :> 0 @@ wrong :> 5 @@ crash :> 5 @@ right :> 10 @@ long :> 15

Ran(d) == [success |-> TRUE, signal |-> 0, dist |-> d]
SegFault == [success |-> TRUE, signal |-> 1, dist |-> 0]
Error == [success |-> FALSE, signal |-> 0, dist |-> 0]

(* One rewrite crashes in one of the two tests; the empty one reads what   *)
(* the caller left in the registers, and its distance varies; a library    *)
(* that cannot be loaded gives errors.                                     *)
MCOutcomes ==
    empty :> {<<Ran(9), Ran(9)>>, <<Ran(9), Ran(30)>>}
    @@ wrong :> {<<Ran(4), Ran(0)>>}
    @@ crash :> {<<Ran(0), SegFault>>}
    @@ right :> {<<Ran(0), Ran(0)>>}
    @@ long :> {<<Ran(0), Ran(0)>>, <<Error, Error>>}
===============================================================================
