SPECIFICATION RewriterSpec
CONSTANTS
    add = add
    sub = sub
    Addr = {a1, a2, a3, a4, a5}
    End = End
    Free = Free
    Instr <- MCInstr
    OpcodeChanges <- MCOpcodeChanges
    OperandChanges <- MCOperandChanges
    MaxInstrs = 3
SYMMETRY Permuted
INVARIANTS SizeBounded
