---------------------------- MODULE Transformation ----------------------------
(***************************************************************************)
(* class Transformation (transform.h, transform.cpp): the single basic     *)
(* block of the rewrite under search, edited in place, and the state that  *)
(* undoes the last edit.                                                   *)
(*                                                                         *)
(* Instructions are heap objects.  The block is a list of their addresses, *)
(* an iterator is an address or End (instr_end()), and an address that is  *)
(* deleted is recycled: any address that is not live may be the next one   *)
(* CreateMachineInstr returns.  What an instruction says (opcode and       *)
(* operands) is a value of Instr; which values a mutation may turn it into *)
(* is given by two functions.                                              *)
(***************************************************************************)
EXTENDS InstrList

CONSTANTS
    Addr,             \* addresses of MachineInstrs; bounds the instructions alive at once
    Free,             \* what the heap holds at an address that is not live
    Instr,            \* what an instruction can say
    OpcodeChanges,    \* opcode class: the instructions that differ in the opcode at most
    OperandChanges    \* the instructions that differ in one operand; {} if it has none

ASSUME InstrAssumption ==
    /\ End \notin Addr
    /\ Free \notin Instr
    /\ OpcodeChanges \in [Instr -> SUBSET Instr]
    /\ OperandChanges \in [Instr -> SUBSET Instr]

VARIABLES
    block,                \* *MF->begin(): the addresses of its instructions, in order
    heap,                 \* what each address holds
    NumInstrs,            \* the class's own count of the block's instructions
    PrevTransformation,   \* the Kind of the last proposal
    Old, New,             \* undo state of mutations, Replace, Insert, Move, Delete
    NextLoc,              \* undo state of Move and Delete: the old successor
    Swapped1, Swapped2,   \* undo state of Swap
    pending,              \* the last proposal is neither accepted nor undone
    before                \* what the block said when it was proposed (history)

undoState == <<PrevTransformation, Old, New, NextLoc, Swapped1, Swapped2>>
vars == <<block, heap, NumInstrs, undoState, pending, before>>

Kind == {"NOP", "MUT_OPCODE", "MUT_OPERAND", "SWAP", "REPLACE", "MOVE",
         "INSERT", "DELETE"}
Replacing == {"MUT_OPCODE", "MUT_OPERAND", "REPLACE"}

Iterator == Addr \union {End}
Block == Range(block)
Live == {a \in Addr : heap[a] # Free}
Fresh == Addr \ Live

(* What the instructions of a list say, and what the block says. *)
Says(h, s) == [i \in DOMAIN s |-> h[s[i]]]
Contents == Says(heap, block)

(* Mutant: select never draws the end. *)
selectInside(except, includeEnd) ==
    {NodeAt(block, k) : k \in 1 .. NumInstrs} \ {except}

(* The iterators select can return: its loop draws again on `except`. *)
select(except, includeEnd) ==
    {NodeAt(block, k) : k \in 1 .. (IF includeEnd THEN NumInstrs + 1 ELSE NumInstrs)}
        \ {except}

-------------------------------------------------------------------------------
Init ==
    /\ block = <<>>
    /\ heap = [a \in Addr |-> Free]
    /\ NumInstrs = 0
    /\ PrevTransformation \in Kind         \* never initialised by the constructor
    /\ Old = End /\ New = End /\ NextLoc = End
    /\ Swapped1 = End /\ Swapped2 = End
    /\ pending = FALSE
    /\ before = <<>>

Propose ==
    /\ ~pending
    /\ pending' = TRUE
    /\ before' = Contents

(* The early return of a proposal that does not apply. *)
ProposeNothing ==
    /\ Propose
    /\ PrevTransformation' = "NOP"
    /\ UNCHANGED <<block, heap, NumInstrs, Old, New, NextLoc, Swapped1, Swapped2>>

(* A new instruction, saying `text`, takes the place of `old`, which stays alive. *)
substitute(kind, old, new, text) ==
    /\ Propose
    /\ heap' = [heap EXCEPT ![new] = text]
    /\ block' = replaceInst(block, old, new)
    /\ Old' = old
    /\ New' = new
    /\ PrevTransformation' = kind
    /\ UNCHANGED <<NumInstrs, NextLoc, Swapped1, Swapped2>>

MutateOpcode ==
    \/ NumInstrs = 0 /\ ProposeNothing
    \/ /\ NumInstrs # 0
       /\ \E old \in select(End, TRUE), new \in Fresh :
             \E text \in OpcodeChanges[heap[old]] :
                substitute("MUT_OPCODE", old, new, text)

(* The clone replaces the original before the operands are counted: with   *)
(* none to mutate the proposal is a NOP and nothing will delete `old`.     *)
MutateOperand ==
    \/ NumInstrs = 0 /\ ProposeNothing
    \/ /\ NumInstrs # 0
       /\ \E old \in select(End, TRUE), new \in Fresh :
             \/ /\ OperandChanges[heap[old]] = {}
                /\ substitute("NOP", old, new, heap[old])
             \/ \E text \in OperandChanges[heap[old]] :
                   substitute("MUT_OPERAND", old, new, text)

Replace ==
    \/ NumInstrs = 0 /\ ProposeNothing
    \/ /\ NumInstrs # 0
       /\ \E old \in select(End, TRUE), new \in Fresh, text \in Instr :
             substitute("REPLACE", old, new, text)

(* Mutant: the undo state keeps the swapped instructions, not their clones. *)
doSwapForgets(a, b, aa, bb) ==
    /\ aa # bb
    /\ heap' = [heap EXCEPT ![aa] = heap[a], ![bb] = heap[b], ![a] = Free, ![b] = Free]
    /\ block' = replaceInst(replaceInst(block, a, bb), b, aa)
    /\ Swapped1' = a
    /\ Swapped2' = b

(* Clones of a and b take each other's places; a and b are deleted.  The   *)
(* A == B return is not taken: Swap selects them apart.                    *)
doSwap(a, b, aa, bb) ==
    /\ aa # bb
    /\ heap' = [heap EXCEPT ![aa] = heap[a], ![bb] = heap[b], ![a] = Free, ![b] = Free]
    /\ block' = replaceInst(replaceInst(block, a, bb), b, aa)
    /\ Swapped1' = aa
    /\ Swapped2' = bb

Swap ==
    \/ NumInstrs < 2 /\ ProposeNothing
    \/ /\ NumInstrs >= 2
       /\ Propose
       /\ \E a \in select(End, TRUE) : \E b \in select(a, FALSE), aa, bb \in Fresh :
             doSwap(a, b, aa, bb)
       /\ PrevTransformation' = "SWAP"
       /\ UNCHANGED <<NumInstrs, Old, New, NextLoc>>

(* Mutant: the successor is saved after the move. *)
MoveSavesLate ==
    \/ NumInstrs = 1 /\ ProposeNothing
    \/ /\ NumInstrs >= 2
       /\ Propose
       /\ \E a \in select(End, TRUE) :
             /\ \E loc \in select(getNextNode(block, a), TRUE) \ {a} :
                   block' = insert(removeFromParent(block, a), loc, a)
             /\ NextLoc' = getNextNode(block', a)
             /\ New' = a
       /\ PrevTransformation' = "MOVE"
       /\ UNCHANGED <<heap, NumInstrs, Old, Swapped1, Swapped2>>

(* Called on an empty block, select's assertion fails and the program      *)
(* aborts: Move has no step there.                                         *)
Move ==
    \/ NumInstrs = 1 /\ ProposeNothing
    \/ /\ NumInstrs >= 2
       /\ Propose
       /\ \E a \in select(End, TRUE) :
             /\ NextLoc' = getNextNode(block, a)
             /\ \E loc \in select(getNextNode(block, a), TRUE) \ {a} :
                   block' = insert(removeFromParent(block, a), loc, a)
             /\ New' = a
       /\ PrevTransformation' = "MOVE"
       /\ UNCHANGED <<heap, NumInstrs, Old, Swapped1, Swapped2>>

Insert ==
    /\ Propose
    /\ \E new \in Fresh, text \in Instr :
          /\ heap' = [heap EXCEPT ![new] = text]
          /\ New' = new
          /\ \E loc \in IF NumInstrs = 0 THEN {End} ELSE select(End, TRUE) :
                block' = insert(block, loc, new)
    /\ NumInstrs' = NumInstrs + 1
    /\ PrevTransformation' = "INSERT"
    /\ UNCHANGED <<Old, NextLoc, Swapped1, Swapped2>>

Delete ==
    \/ NumInstrs = 0 /\ ProposeNothing
    \/ /\ NumInstrs # 0
       /\ Propose
       /\ \E a \in select(End, TRUE) :
             /\ New' = a
             /\ NextLoc' = getNextNode(block, a)
             /\ block' = removeFromParent(block, a)
       /\ NumInstrs' = NumInstrs - 1
       /\ PrevTransformation' = "DELETE"
       /\ UNCHANGED <<heap, Old, Swapped1, Swapped2>>

-------------------------------------------------------------------------------
Settle ==
    /\ pending
    /\ pending' = FALSE
    /\ UNCHANGED <<PrevTransformation, Old, New, NextLoc, before>>

(* Mutant: an accepted deletion frees nothing. *)
AcceptLeaks ==
    /\ Settle
    /\ heap' = IF PrevTransformation \in Replacing
                 THEN [heap EXCEPT ![Old] = Free] ELSE heap
    /\ UNCHANGED <<block, NumInstrs, Swapped1, Swapped2>>

Accept ==
    /\ Settle
    /\ heap' = IF PrevTransformation \in Replacing
                 THEN [heap EXCEPT ![Old] = Free]
               ELSE IF PrevTransformation = "DELETE"
                 THEN [heap EXCEPT ![New] = Free]
               ELSE heap
    /\ UNCHANGED <<block, NumInstrs, Swapped1, Swapped2>>

UndoNothing ==
    /\ PrevTransformation = "NOP"
    /\ UNCHANGED <<block, heap, NumInstrs, Swapped1, Swapped2>>

UndoReplacing ==
    /\ PrevTransformation \in Replacing
    /\ block' = replaceInst(block, New, Old)
    /\ heap' = [heap EXCEPT ![New] = Free]
    /\ UNCHANGED <<NumInstrs, Swapped1, Swapped2>>

(* Mutant: the count of instructions is left as it is. *)
UndoInsertUncounted ==
    /\ PrevTransformation = "INSERT"
    /\ block' = removeFromParent(block, New)
    /\ heap' = [heap EXCEPT ![New] = Free]
    /\ UNCHANGED <<NumInstrs, Swapped1, Swapped2>>

UndoInsert ==
    /\ PrevTransformation = "INSERT"
    /\ block' = removeFromParent(block, New)
    /\ heap' = [heap EXCEPT ![New] = Free]
    /\ NumInstrs' = NumInstrs - 1
    /\ UNCHANGED <<Swapped1, Swapped2>>

UndoSwap ==
    /\ PrevTransformation = "SWAP"
    /\ \E aa, bb \in Fresh : doSwap(Swapped1, Swapped2, aa, bb)
    /\ UNCHANGED NumInstrs

(* Mutant: the case for MOVE does not fall through to the insertion. *)
UndoMoveBreaks ==
    /\ PrevTransformation = "MOVE"
    /\ block' = removeFromParent(block, New)
    /\ UNCHANGED <<heap, NumInstrs, Swapped1, Swapped2>>

UndoMove ==
    /\ PrevTransformation = "MOVE"
    /\ block' = insert(removeFromParent(block, New), NextLoc, New)
    /\ UNCHANGED <<heap, NumInstrs, Swapped1, Swapped2>>

(* Mutant: NumInstrs is decremented as for an insertion. *)
UndoDeleteMiscounts ==
    /\ PrevTransformation = "DELETE"
    /\ block' = insert(block, NextLoc, New)
    /\ NumInstrs' = NumInstrs - 1
    /\ UNCHANGED <<heap, Swapped1, Swapped2>>

(* Mutant: the instruction goes to the end, wherever it was. *)
UndoDeleteAppends ==
    /\ PrevTransformation = "DELETE"
    /\ block' = insert(block, End, New)
    /\ NumInstrs' = NumInstrs + 1
    /\ UNCHANGED <<heap, Swapped1, Swapped2>>

UndoDelete ==
    /\ PrevTransformation = "DELETE"
    /\ block' = insert(block, NextLoc, New)
    /\ NumInstrs' = NumInstrs + 1
    /\ UNCHANGED <<heap, Swapped1, Swapped2>>

Undo ==
    /\ Settle
    /\ \/ UndoNothing
       \/ UndoReplacing
       \/ UndoInsert
       \/ UndoSwap
       \/ UndoMove
       \/ UndoDelete

-------------------------------------------------------------------------------
Mutate == MutateOpcode \/ MutateOperand \/ Replace \/ Swap \/ Move \/ Insert \/ Delete

Next == Mutate \/ Accept \/ Undo

Spec == Init /\ [][Next]_vars

-------------------------------------------------------------------------------
(* Every variable has its type, and the undo state never holds garbage.    *)
TypeOK ==
    /\ block \in Seq(Addr)
    /\ heap \in [Addr -> Instr \union {Free}]
    /\ NumInstrs \in Nat
    /\ PrevTransformation \in Kind
    /\ Old \in Iterator
    /\ New \in Iterator
    /\ NextLoc \in Iterator
    /\ Swapped1 \in Iterator
    /\ Swapped2 \in Iterator
    /\ pending \in BOOLEAN
    /\ before \in Seq(Instr)

(* The block is a list of distinct live instructions and NumInstrs, which  *)
(* select and the search rely on instead of the list's own size, agrees    *)
(* with it through every sequence of proposals, undos and accepts.         *)
BlockWellFormed ==
    /\ NumInstrs = Len(block)
    /\ \A i, j \in DOMAIN block : block[i] = block[j] => i = j
    /\ Block \subseteq Live

(* What Undo and Accept will touch is still there: no unlinked instruction *)
(* is unlinked again, no deleted one is used or deleted again, and the     *)
(* saved successor NextLoc has not left the block.                         *)
UndoStateValid ==
    pending =>
        /\ PrevTransformation \in Replacing =>
              New \in Block /\ Old \in Live \ Block
        /\ PrevTransformation = "INSERT" => New \in Block
        /\ PrevTransformation = "SWAP" =>
              {Swapped1, Swapped2} \subseteq Block /\ Swapped1 # Swapped2
        /\ PrevTransformation = "MOVE" =>
              New \in Block /\ NextLoc \in (Block \ {New}) \union {End}
        /\ PrevTransformation = "DELETE" =>
              New \in Live \ Block /\ NextLoc \in Block \union {End}

(* The list that the undo state describes, if its instructions are taken   *)
(* as they are now, ...                                                    *)
RestoredBlock ==
    CASE PrevTransformation \in Replacing -> replaceInst(block, New, Old)
      [] PrevTransformation = "INSERT" -> removeFromParent(block, New)
      [] PrevTransformation = "SWAP" ->
            [i \in DOMAIN block |->
                IF block[i] = Swapped1 THEN Swapped2
                ELSE IF block[i] = Swapped2 THEN Swapped1
                ELSE block[i]]
      [] PrevTransformation = "MOVE" ->
            insert(removeFromParent(block, New), NextLoc, New)
      [] PrevTransformation = "DELETE" -> insert(block, NextLoc, New)
      [] OTHER -> block

(* ... says what the block said before the proposal: the state the class   *)
(* keeps determines the rewrite it has to go back to.                      *)
Restoration == pending => before = Says(heap, RestoredBlock)

(* An Undo gives back, instruction by instruction, what the block said     *)
(* before the proposal, whatever the proposal was.                         *)
UndoRestores == [][Undo => Contents' = before]_vars

(* Between two proposals the only instructions alive are the block's: what *)
(* a proposal set aside is deleted by Accept or put back by Undo.  Only    *)
(* MutateOperand loses the instruction it replaces, if that has no operand.*)
NoLeak == ~pending => \A a \in Live \ Block : OperandChanges[heap[a]] = {}

(* A draw of the loops in select and Move can always succeed, so the       *)
(* rejection sampling ends: Move has a target for every instruction.       *)
SelectTerminates ==
    NumInstrs >= 2 =>
        \A a \in select(End, TRUE) :
            /\ select(a, FALSE) # {}
            /\ select(getNextNode(block, a), TRUE) \ {a} # {}

(* The class implements its contract: the edits in place, the clones and   *)
(* the undo state are invisible in what the block says.                    *)
Contract == INSTANCE AbstractTransformation WITH
    Rewrite <- Seq(Instr), rewrite <- Contents, saved <- before

ImplementsContract == Contract!Spec
===============================================================================
