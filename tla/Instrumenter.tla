------------------------------ MODULE Instrumenter ------------------------------
(***************************************************************************)
(* One test of a rewrite, as machine code.  The client wraps the rewrite   *)
(* (mf_instrument.cpp, ReplayClient::instrument): it makes the frame of    *)
(* the server read-only, dumps the registers, and returns by siglongjmp.   *)
(* A child of the worker runs it where the target ran, and compares what   *)
(* it leaves with what the target left (spawn_impl in server.c).           *)
(*                                                                         *)
(* The target has run before, in the parent, from the same registers and   *)
(* memory (module Server: the semaphore).  Memory is words, and a register *)
(* of 8, 4 or 1 bytes is the low 4, 2 or 1 bits of a word here: a distance *)
(* counts bits, and a byte is one.  The stack grows down from StackTop,    *)
(* the heap of the program lies above it.  From the top: the frames of the *)
(* testcase, the placeholder page of _server_spawn_worker, the frame of    *)
(* spawn_impl with a page at its end, and what a test runs in.             *)
(***************************************************************************)
EXTENDS Integers, SequencesExt, FiniteSetsExt

CONSTANTS
    PageSize,           \* getpagesize
    Locals,             \* words of spawn_impl's own below its frame pointer
    Linkage,            \* saved registers and return addresses, from its frame
                        \* pointer to the testcase, but for the placeholder
    StackTop,           \* _server_stack_top
    HeapSize,
    FramePointers,      \* where the frame of spawn_impl may begin
    ReturnTypes,        \* of the target, which the rewrite shares
    Targets, Rewrites,  \* sequences of instructions
    Junk                \* what a call may leave in the registers

ASSUME InstrumenterAssumption ==
    /\ PageSize \in Nat \ {0} /\ Locals \in Nat \ {0} /\ Linkage \in Nat
    /\ StackTop \in Nat /\ HeapSize \in Nat
    \* Below the frame there is room for what a rewrite pushes.
    /\ \A fp \in FramePointers :
           /\ fp \in Nat /\ fp >= Locals + PageSize + 8
           /\ fp + Linkage + PageSize <= StackTop
    /\ ReturnTypes \subseteq {"i64", "i32", "i8", "pointer", "void"}
    /\ Junk \subseteq Int

VARIABLES
    test,               \* the rewrite and its target, and the frames of Workers[0]
                        \* and of this worker
    code, pc,           \* the instrumented rewrite, and where the child is in it
    reg, rsp,           \* the registers of the child
    mem, readonly,      \* its memory, and the words it may not write
    data,               \* _ug_rewrite_reg_data
    response            \* what the client is sent, NoResponse before

machine == <<reg, rsp, mem, readonly, data>>
vars == <<test, code, pc, machine, response>>

-------------------------------------------------------------------------------
(* Registers and the layout of their dump.                                 *)

(* In the order in which the target description numbers them. *)
RegisterNames == <<"RAX", "RCX", "RDI", "RDX", "RSI", "R8", "R9", "R11">>
FreeReg == "R11"
Buffer == 0             \* the address of reg_data, which no register holds before
Register(name, size) == [name |-> name, size |-> size]

(* All registers of a class have one size here, and tell their class by it.*)
RegisterClass(size) == [i \in DOMAIN RegisterNames |-> Register(RegisterNames[i], size)]
AllRegisters == RegisterClass(1) \o RegisterClass(2) \o RegisterClass(4)

getReturnRegs(type) ==
    LET size == [i64 |-> 4, pointer |-> 4, i32 |-> 2, i8 |-> 1]
    IN IF type = "void" THEN <<>> ELSE <<Register("RAX", size[type])>>

align(Addr, Alignment) == ((Addr + Alignment - 1) \div Alignment) * Alignment

(* The output registers, then the others of their classes.                 *)
calculateRegBufferLayout(OutputRegs) ==
    LET Equivalent(r) ==
            ~Contains(OutputRegs, r) /\ \E o \in Range(OutputRegs) : o.size = r.size
        upto[k \in 0 .. Len(AllRegisters)] ==
            IF k = 0 THEN OutputRegs
            ELSE IF Equivalent(AllRegisters[k]) THEN Append(upto[k - 1], AllRegisters[k])
            ELSE upto[k - 1]
        Regs == upto[Len(AllRegisters)]
        CurOffset[i \in 1 .. Len(Regs)] ==
            IF i = 1 THEN 0 ELSE align(CurOffset[i - 1] + Regs[i - 1].size, Regs[i].size)
    IN [i \in DOMAIN Regs |->
           [reg |-> Regs[i], offset |-> CurOffset[i], size |-> Regs[i].size,
            regclass |-> Regs[i].size]]

reg_buf_size(info) == IF info = <<>> THEN 0 ELSE Last(info).offset + Last(info).size

-------------------------------------------------------------------------------
(* Instructions, and the code around a rewrite.                            *)

Mov(dst, src) == [op |-> "mov", dst |-> dst, src |-> src]
Store(at, src) == [op |-> "store", at |-> at, src |-> src]
Trap == [op |-> "trap"]
Movabs(dst, imm) == [op |-> "movabs", dst |-> dst, imm |-> imm]
Push(src) == [op |-> "push", src |-> src]
Pop(dst) == [op |-> "pop", dst |-> dst]
Call(function) == [op |-> "call", function |-> function]
StoreReg(info) == [op |-> "storeReg", info |-> info]

PROT_READ == 1
PROT_WRITE == 2

callMprotect(FrameBegin, FrameSize, ProtLevel) ==
    << Movabs("RDI", FrameBegin), Movabs("RSI", FrameSize), Movabs("RDX", ProtLevel),
       Call("mprotect") >>

ArgumentRegs == <<"RDI", "RSI", "RDX", "RCX", "R8", "R9">>
Pushes == [i \in DOMAIN ArgumentRegs |-> Push(ArgumentRegs[i])]
Pops == [i \in DOMAIN ArgumentRegs |-> Pop(ArgumentRegs[i])]

(* Mutant: the arguments are popped in the order of the pushes. *)
protectRTFrame_unreversed(FrameBegin, FrameSize) ==
    Pushes \o callMprotect(FrameBegin, FrameSize, PROT_READ) \o Pops

protectRTFrame(FrameBegin, FrameSize) ==
    Pushes \o callMprotect(FrameBegin, FrameSize, PROT_READ) \o Reverse(Pops)

unprotectRTFrame(FrameBegin, FrameSize) ==
    callMprotect(FrameBegin, FrameSize, PROT_READ + PROT_WRITE)

dumpRegisters(OutputRegs) ==
    LET info == calculateRegBufferLayout(OutputRegs)
    IN <<Movabs(FreeReg, Buffer)>> \o [i \in DOMAIN info |-> StoreReg(info[i])]

instrumentToReturn == <<Movabs("RDI", 0), Movabs("RSI", 42), Call("siglongjmp")>>

(* The page that spawn_impl allocates below its locals is where it and the *)
(* rewrite part: the frame is all of its pages that begin above that.      *)
(* Mutant: no page is allocated. *)
stack_boundary_bare(fp) == fp - Locals

stack_boundary(fp) == fp - Locals - PageSize
frame_begin(fp) == align(stack_boundary(fp), PageSize)
frame_size(fp) == fp - frame_begin(fp)

(* For all workers with the frame of the first.                            *)
instrument(rewrite, fp, type) ==
    protectRTFrame(frame_begin(fp), frame_size(fp)) \o rewrite
    \o dumpRegisters(getReturnRegs(type))
    \o unprotectRTFrame(frame_begin(fp), frame_size(fp)) \o instrumentToReturn

-------------------------------------------------------------------------------
(* What the rewrite finds: the registers and the memory of the call.       *)
Addr == 0 .. StackTop + HeapSize - 1
Heap == StackTop .. StackTop + HeapSize - 1
EntryRegs == [RAX |-> 1, RCX |-> 9, RDI |-> 5, RDX |-> 10, RSI |-> 6, R8 |-> 11, R9 |-> 12,
              R11 |-> 2]
EntryMem == [a \in Addr |-> 0]

(* What targets and rewrites are made of. *)
Instructions ==
    {Mov(dst, src) : dst, src \in Range(RegisterNames)}
    \cup {Store(at, src) : at \in Addr, src \in Range(RegisterNames)} \cup {Trap}

(* A testcase calls _server_spawn_worker with its stack pointer here.  That *)
(* function allocates a page, the placeholder, below its own words and     *)
(* above the frame of spawn_impl, so that the testcase's words are on      *)
(* other pages.                                                            *)
(* Mutant: no placeholder. *)
stack_pointer_bare(fp) == fp + Linkage

stack_pointer(fp) == fp + Linkage + PageSize

(* Where the code of a test may store: in frames of its own, below what    *)
(* spawn_impl has allocated, in those of its callers, and on the heap.     *)
Writable(fp) == 0 .. stack_boundary(fp) - 1 \cup stack_pointer(fp) .. StackTop - 1 \cup Heap

(* The words a sequence of instructions stores to.                         *)
Stored(body) == {body[i].at : i \in {j \in DOMAIN body : body[j].op = "store"}}

ASSUME BodyAssumption == Targets \cup Rewrites \subseteq Seq(Instructions)

(* A target is part of the program under test, and keeps to its words; of  *)
(* a rewrite nothing is known.                                             *)
ASSUME TargetAssumption ==
    \A target \in Targets, fp \in FramePointers : Stored(target) \subseteq Writable(fp)

(* A sequence of instructions by itself, without the code around it: the   *)
(* state after each of them.                                               *)
Step(b, m) ==
    CASE b.op = "mov" -> [m EXCEPT !.reg[b.dst] = m.reg[b.src]]
      [] b.op = "store" -> [m EXCEPT !.mem[b.at] = m.reg[b.src]]
      [] OTHER -> [m EXCEPT !.trapped = TRUE]

Run(body) ==
    LET after[i \in 0 .. Len(body)] ==
            IF i = 0 THEN [reg |-> EntryRegs, mem |-> EntryMem, trapped |-> FALSE]
            ELSE Step(body[i], after[i - 1])
    IN after

Plain(body) == Run(body)[Len(body)]

bit(value, k) == (value \div 2^k) % 2

(* reg_data after the registers were stored in it.                         *)
dump(info, regs) ==
    [k \in 0 .. reg_buf_size(info) - 1 |->
        LET i == CHOOSE j \in DOMAIN info :
                     k \in info[j].offset .. info[j].offset + info[j].size - 1
        IN bit(regs[info[i].reg.name], k - info[i].offset)]

layout == calculateRegBufferLayout(getReturnRegs(test.type))

(* What the parent copied: target_stack and target_heap, target_reg_data.  *)
target_mem == Plain(test.target).mem
target_reg_data == dump(layout, Plain(test.target).reg)

NoResponse == [signal |-> 0, reg_dist |-> -1, stack_dist |-> 0, heap_dist |-> 0]

Init ==
    /\ test \in [fp : FramePointers, first : FramePointers, type : ReturnTypes,
                 target : Targets, rewrite : Rewrites]
    /\ code = instrument(test.rewrite, test.first, test.type)
    /\ pc = 1
    /\ reg = EntryRegs
    /\ rsp = stack_boundary(test.fp) - 1        \* below it, the return address
    /\ mem = EntryMem
    /\ readonly = {}
    /\ data = [k \in 0 .. reg_buf_size(layout) - 1 |-> 0]
    /\ response = NoResponse

-------------------------------------------------------------------------------
(* The steps of the child.                                                 *)

Next_is(op) == response = NoResponse /\ code[pc].op = op

(* Where the next instruction writes to memory.                            *)
Written ==
    CASE code[pc].op \in {"push", "call"} -> {rsp - 1}
      [] code[pc].op = "store" -> {code[pc].at}
      [] OTHER -> {}

Faults == code[pc].op = "trap" \/ Written \cap readonly # {}

Proceed == pc' = pc + 1 /\ UNCHANGED <<test, code, response>>

mov ==
    /\ Next_is("mov")
    /\ reg' = [reg EXCEPT ![code[pc].dst] = reg[code[pc].src]]
    /\ UNCHANGED <<rsp, mem, readonly, data>>
    /\ Proceed

movabs ==
    /\ Next_is("movabs")
    /\ reg' = [reg EXCEPT ![code[pc].dst] = code[pc].imm]
    /\ UNCHANGED <<rsp, mem, readonly, data>>
    /\ Proceed

store ==
    /\ Next_is("store") /\ ~Faults
    /\ mem' = [mem EXCEPT ![code[pc].at] = reg[code[pc].src]]
    /\ UNCHANGED <<reg, rsp, readonly, data>>
    /\ Proceed

push ==
    /\ Next_is("push") /\ ~Faults
    /\ rsp' = rsp - 1
    /\ mem' = [mem EXCEPT ![rsp - 1] = reg[code[pc].src]]
    /\ UNCHANGED <<reg, readonly, data>>
    /\ Proceed

pop ==
    /\ Next_is("pop")
    /\ rsp' = rsp + 1
    /\ reg' = [reg EXCEPT ![code[pc].dst] = mem[rsp]]
    /\ UNCHANGED <<mem, readonly, data>>
    /\ Proceed

storeReg ==
    LET info == code[pc].info
        at == reg[FreeReg] - Buffer + info.offset
    IN /\ Next_is("storeReg")
       /\ data' = [k \in DOMAIN data |->
                      IF k \in at .. at + info.size - 1 THEN bit(reg[info.reg.name], k - at)
                      ELSE data[k]]
       /\ UNCHANGED <<reg, rsp, mem, readonly>>
       /\ Proceed

(* mprotect works on whole pages.  A call leaves nothing in the registers  *)
(* that the caller may count on.                                           *)
mprotect(junk) ==
    LET pages == reg["RDI"] .. align(reg["RDI"] + reg["RSI"], PageSize) - 1
    IN /\ Next_is("call") /\ code[pc].function = "mprotect" /\ ~Faults
       /\ readonly' = IF reg["RDI"] % PageSize # 0 THEN readonly
                      ELSE IF reg["RDX"] = PROT_READ THEN readonly \cup pages
                      ELSE readonly \ pages
       /\ mem' = [mem EXCEPT ![rsp - 1] = junk]
       /\ reg' = [r \in DOMAIN reg |-> junk]
       /\ UNCHANGED <<rsp, data>>
       /\ Proceed

get_mem_dist(a, b, where) ==
    MapThenSumSet(LAMBDA w : Cardinality({k \in 0 .. 3 : bit(a[w], k) # bit(b[w], k)}), where)

get_reg_dist(info, a, b, ai, bi) ==
    Cardinality({k \in 0 .. info[ai].size - 1 :
                    a[info[ai].offset + k] # b[info[bi].offset + k]})

MISALIGN_PENALTY == 1

(* The distance of the i'th output register; less if its value is in       *)
(* another register of its class.                                          *)
output_dist(i, num_output_regs) ==
    LET dist == get_reg_dist(layout, data, target_reg_data, i, i)
        misplaced == \E j \in num_output_regs + 1 .. Len(layout) :
                         /\ layout[i].regclass = layout[j].regclass
                         /\ get_reg_dist(layout, data, target_reg_data, j, i) = 0
    IN IF MISALIGN_PENALTY < dist /\ misplaced THEN MISALIGN_PENALTY ELSE dist

stack_words == test.fp .. StackTop - 1

Crash ==
    /\ response' = [signal |-> 1, reg_dist |-> 0, stack_dist |-> 0, heap_dist |-> 0]
    /\ UNCHANGED <<test, code, pc, machine>>

RuntimeFrame == test.fp - Locals .. test.fp - 1

(* Back in spawn_impl, which goes on in its frame.                         *)
siglongjmp ==
    /\ Next_is("call") /\ code[pc].function = "siglongjmp" /\ ~Faults
    /\ RuntimeFrame \cap readonly = {}
    /\ response' =
           LET n == Len(getReturnRegs(test.type))
           IN [signal |-> 0,
               reg_dist |-> MapThenSumSet(LAMBDA i : output_dist(i, n), 1 .. n),
               stack_dist |-> get_mem_dist(mem, target_mem, stack_words),
               heap_dist |-> get_mem_dist(mem, target_mem, Heap)]
    /\ UNCHANGED <<test, code, pc, machine>>

(* The child dies of a signal, and the worker reports it.                  *)
crash ==
    /\ response = NoResponse
    /\ \/ Faults
       \/ code[pc] = Call("siglongjmp") /\ RuntimeFrame \cap readonly # {}
    /\ Crash

Next ==
    \/ mov \/ movabs \/ store \/ push \/ pop \/ storeReg
    \/ \E junk \in Junk : mprotect(junk)
    \/ siglongjmp \/ crash

Spec == Init /\ [][Next]_vars

-------------------------------------------------------------------------------
(* The words that mprotect covers: whole pages, also the linkage and the   *)
(* part of the placeholder above the frame pointer in the last of them.    *)
Protected(fp) == frame_begin(fp) .. align(fp, PageSize) - 1

SameResult(a, b) ==
    \A r \in Range(getReturnRegs(test.type)) :
        \A k \in 0 .. r.size - 1 : bit(a.reg[r.name], k) = bit(b.reg[r.name], k)

(* The registers with a value before the i'th instruction of the body: the *)
(* arguments, and what the body has written.                               *)
Defined(body, i) ==
    Range(ArgumentRegs) \cup {body[j].dst : j \in {k \in 1 .. i - 1 : body[k].op = "mov"}}

(* The body reads defined registers only, and the result is one of them. *)
HasResult(body) ==
    /\ \A i \in DOMAIN body :
           body[i].op \in {"mov", "store"} => body[i].src \in Defined(body, i)
    /\ test.type = "void" \/ "RAX" \in Defined(body, Len(body) + 1)

(* A test says exactly how the rewrite by itself compares with the target, *)
(* in the worker whose frame the code was made for: the arguments arrive,  *)
(* the result is taken, and nothing of the code around the rewrite shows.  *)
(* A crash is reported iff the rewrite traps or stores to a page with      *)
(* words of the server's frame; wherever the frame lies in its page, these *)
(* are none that the code of a test may write, so a rewrite that keeps to  *)
(* those is reported as a crash iff it traps.  The distance is 0 iff the   *)
(* result, the stack above the server's frame and the heap are the         *)
(* target's.  Only a rewrite that reads what nobody wrote, or never writes *)
(* the result, has no result of its own: it finds what mprotect left in    *)
(* the register.                                                           *)
ResponseExact ==
    response # NoResponse /\ test.fp = test.first =>
        LET rewrite == Plain(test.rewrite)
            target == Plain(test.target)
            intrudes == Stored(test.rewrite) \cap Protected(test.fp) # {}
            same == /\ SameResult(rewrite, target)
                    /\ \A a \in stack_words \cup Heap : rewrite.mem[a] = target.mem[a]
        IN /\ response.signal = 1 <=> rewrite.trapped \/ intrudes
           /\ Stored(test.rewrite) \subseteq Writable(test.fp) =>
                  (response.signal = 1 <=> rewrite.trapped)
           /\ response.signal = 0 /\ HasResult(test.rewrite) =>
                  (response.reg_dist + response.stack_dist + response.heap_dist = 0 <=> same)

(* No rewrite changes the frame in which the server compares the results.  *)
RuntimeFrameKept ==
    test.fp = test.first => \A a \in RuntimeFrame : mem[a] = EntryMem[a]
===============================================================================
