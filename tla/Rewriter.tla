-------------------------------- MODULE Rewriter --------------------------------
(***************************************************************************)
(* Searcher::transformRewrite (search.cpp): which Transformation a pair of *)
(* random draws proposes, given the size of the rewrite.                   *)
(*                                                                         *)
(* A draw is std::rand() / RAND_MAX, both ends included, here in           *)
(* hundredths; the probabilities are those of search.h, in the same unit.  *)
(***************************************************************************)
EXTENDS Transformation

CONSTANT MaxInstrs      \* 15 in the code: the size the probabilities are scaled by

ASSUME MaxInstrsAssumption == MaxInstrs \in Nat \ {0}

Scale == 100
pc == 16
po == 50
ps == 16
pu == 16

Draw == 0 .. Scale

(* rand() <= SwapProb, the square of NumInstrs / MaxInstrs *)
DrawsSwap(n, r2) == r2 * (MaxInstrs * MaxInstrs) <= Scale * (n * n)

(* r < DelProb *)
DrawsDelete(n, r2) == r2 * MaxInstrs < pu * n

(* Mutant: exact arithmetic, in which the largest draw fails the test. *)
DrawsReplaceStrictly(n, r2) == r2 * MaxInstrs < Scale * n

(* r < DelProb + RepProb.  1 - pu is rounded up to a float, so for         *)
(* n = MaxInstrs the sum is above 1 and the largest draw passes the test   *)
(* too; no other draw comes close enough to n / MaxInstrs to tell.         *)
DrawsReplace(n, r2) == r2 * MaxInstrs <= Scale * n

(* The proposal made at n instructions on the draws r and r2. *)
Proposal(n, r, r2) ==
    IF n = 0 THEN "INSERT"
    ELSE IF r <= pc THEN "MUT_OPCODE"
    ELSE IF r <= pc + po THEN "MUT_OPERAND"
    ELSE IF r <= pc + po + ps THEN
        IF DrawsSwap(n, r2) THEN "SWAP" ELSE "MOVE"
    ELSE IF DrawsDelete(n, r2) THEN "DELETE"
    ELSE IF DrawsReplace(n, r2) THEN "REPLACE"
    ELSE "INSERT"

(* What transformRewrite may propose at each size. *)
Proposals ==
    [n \in 0 .. MaxInstrs + 1 |-> {Proposal(n, r, r2) : r \in Draw, r2 \in Draw}]

transformRewrite ==
    \/ "MUT_OPCODE" \in Proposals[NumInstrs] /\ MutateOpcode
    \/ "MUT_OPERAND" \in Proposals[NumInstrs] /\ MutateOperand
    \/ "SWAP" \in Proposals[NumInstrs] /\ Swap
    \/ "MOVE" \in Proposals[NumInstrs] /\ Move
    \/ "DELETE" \in Proposals[NumInstrs] /\ Delete
    \/ "REPLACE" \in Proposals[NumInstrs] /\ Replace
    \/ "INSERT" \in Proposals[NumInstrs] /\ Insert

RewriterNext == transformRewrite \/ Accept \/ Undo

RewriterSpec == Init /\ [][RewriterNext]_vars

-------------------------------------------------------------------------------
(* The rewrite never outgrows the size the probabilities are scaled by:    *)
(* nothing in Insert or Undo checks it, it rests on the largest draw being *)
(* a replacement and no insertion when the rewrite is full, whatever       *)
(* deletions are undone.                                                   *)
SizeBounded == NumInstrs <= MaxInstrs
===============================================================================
