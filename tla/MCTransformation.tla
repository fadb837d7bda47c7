--------------------------- MODULE MCTransformation ---------------------------
(***************************************************************************)
(* A small instance of Transformation: two things an instruction can say,  *)
(* and a handful of addresses, any of which the heap may hand out next.    *)
(***************************************************************************)
EXTENDS Transformation, TLC

CONSTANTS add, nop

(* Two opcodes of one class; nop has no operand to mutate. *)
Texts == {add, nop}
SomeOpcodeChanges == [i \in Texts |-> Texts]
SomeOperandChanges == add :> {add} @@ nop :> {}

(* Blocks are edited only while an address is free. *)
RoomLeft == Len(block) < Cardinality(Addr)

Permuted == Permutations(Addr)
===============================================================================
