------------------------------- MODULE InstrList -------------------------------
(***************************************************************************)
(* The list of instructions of a basic block: what transform.cpp uses of   *)
(* LLVM's intrusive list (MachineBasicBlock, instr_iterator).  A block is  *)
(* the sequence of the addresses of its instructions; an iterator is one   *)
(* of them, or End, the sentinel that instr_end() points at.               *)
(***************************************************************************)
EXTENDS Integers, Sequences, SequencesExt

CONSTANT End

IndexOf(s, a) == CHOOSE i \in DOMAIN s : s[i] = a

(* std::advance(instr_begin(), k - 1) *)
NodeAt(s, k) == IF k \in DOMAIN s THEN s[k] ELSE End

(* The node after a: of the last one it is the sentinel, not a null pointer. *)
getNextNode(s, a) == NodeAt(s, IndexOf(s, a) + 1)

(* insert before loc; at End it is push_back. *)
insert(s, loc, a) ==
    IF loc = End THEN Append(s, a) ELSE InsertAt(s, IndexOf(s, loc), a)

removeFromParent(s, a) == RemoveAt(s, IndexOf(s, a))

(* Transformation::replaceInst: insert new before old, then unlink old. *)
replaceInst(s, old, new) == removeFromParent(insert(s, old, new), old)
===============================================================================
