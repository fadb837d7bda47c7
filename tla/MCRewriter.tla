------------------------------- MODULE MCRewriter -------------------------------
(***************************************************************************)
(* Rewriter on rewrites of at most three instructions, with two addresses  *)
(* more than a full rewrite needs.                                         *)
(***************************************************************************)
EXTENDS Rewriter, TLC

CONSTANTS add, sub

MCInstr == {add, sub}
MCOpcodeChanges == [i \in MCInstr |-> MCInstr]
MCOperandChanges == [i \in MCInstr |-> {i}]

Permuted == Permutations(Addr)
===============================================================================
