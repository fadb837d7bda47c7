------------------------------- MODULE MCTreeBins -------------------------------
(* Small instances of TreeBins: four bins, of which the last is unbounded. *)
EXTENDS TreeBins, TLC

(* In the first bin four of its eight sizes, one of them three times: a    *)
(* trie of up to four levels.  In the last one, sizes that differ in the   *)
(* first digits.                                                           *)
Sizes ==
    (1 :> 32) @@ (2 :> 40) @@ (3 :> 46) @@ (4 :> 40) @@ (5 :> 38) @@ (6 :> 40)
    @@ (7 :> 192) @@ (8 :> 112)

(* The last two are of a size that the index of a bin cannot tell: one is  *)
(* looked for in the first bin, one in the last.                           *)
SomeRequests == {4, 34, 42, 50, 114, 200, 300, 400}
===============================================================================
