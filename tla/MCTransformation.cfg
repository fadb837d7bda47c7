SPECIFICATION Spec
CONSTANTS
    add = add
    nop = nop
    Addr = {a1, a2, a3, a4, a5}
    End = End
    Free = Free
    Instr <- Texts
    OpcodeChanges <- SomeOpcodeChanges
    OperandChanges <- SomeOperandChanges
SYMMETRY Permuted
CHECK_DEADLOCK FALSE
CONSTRAINT RoomLeft
INVARIANTS TypeOK BlockWellFormed UndoStateValid Restoration NoLeak SelectTerminates
PROPERTIES UndoRestores ImplementsContract
