--------------------------- MODULE InstrumenterProofs ---------------------------
(***************************************************************************)
(* RuntimeFrameKept and ResponseExact, proved of Instrumenter for every    *)
(* page size, frame, target, rewrite and return type.                      *)
(*                                                                         *)
(* The argument follows the code.  Its parts stand at fixed places, so pc  *)
(* tells the stack pointer, the arguments of mprotect and the protection;  *)
(* the protected pages begin below the frame and above all that is pushed. *)
(* Until the rewrite runs its arguments are on the stack, so it starts in  *)
(* the registers of the call; it then goes through the states it would go  *)
(* through by itself, and its result is the first register of the dump.    *)
(* The two bodies are compared bit by bit, and four bits decide a word.    *)
(***************************************************************************)
EXTENDS Instrumenter, Induction, SequenceTheorems

-------------------------------------------------------------------------------
(* The layout of the dump: no two registers share a part of the buffer.    *)

(* Rounding up reaches the next multiple, and no further. *)
LEMMA AlignFacts ==
  ASSUME NEW a \in Int, NEW unit \in Nat \ {0}
  PROVE  /\ align(a, unit) \in Int
         /\ align(a, unit) % unit = 0
         /\ a <= align(a, unit) /\ align(a, unit) < a + unit
<1> DEFINE q == (a + unit - 1) \div unit
<1>1. q \in Int /\ q * unit <= a + unit - 1 /\ a + unit - 1 < q * unit + unit
  OBVIOUS
<1>2. align(a, unit) = q * unit
  BY DEF align
<1> HIDE DEF q
<1>3. q * unit \in Int /\ (q * unit) % unit = 0
  BY <1>1
<1> QED  BY <1>1, <1>2, <1>3

Names == Range(RegisterNames)
Registers == [name : Names, size : Nat \ {0}]
RegInfos == [reg : Registers, offset : Nat, size : Nat \ {0}, regclass : Nat]

(* The eight registers. *)
LEMMA NamesAre == Names = {"RAX", "RCX", "RDI", "RDX", "RSI", "R8", "R9", "R11"}
BY DEF Names, Range, RegisterNames

(* The layout is chosen among registers. *)
LEMMA AllRegistersType == AllRegisters \in Seq(Registers)
<1>1. DOMAIN RegisterNames = 1 .. 8 /\ \A i \in 1 .. 8 : RegisterNames[i] \in Names
  BY DEF RegisterNames, Names, Range
<1>2. ASSUME NEW size \in Nat \ {0} PROVE RegisterClass(size) \in Seq(Registers)
  <2>1. RegisterClass(size) = [i \in 1 .. 8 |-> [name |-> RegisterNames[i], size |-> size]]
    BY <1>1 DEF RegisterClass, Register
  <2>2. \A i \in 1 .. 8 : [name |-> RegisterNames[i], size |-> size] \in Registers
    BY <1>1 DEF Registers
  <2> QED  BY <2>1, <2>2
<1>3. RegisterClass(1) \o RegisterClass(2) \in Seq(Registers)
  BY <1>2, ConcatProperties
<1> QED  BY <1>2, <1>3, ConcatProperties DEF AllRegisters

(* The registers of the layout: the outputs first, then others. *)
LEMMA RegsFacts ==
  ASSUME NEW OutputRegs \in Seq(Registers), NEW Equivalent \in [1 .. Len(AllRegisters) -> BOOLEAN]
  PROVE  LET upto == CHOOSE f : f =
                 [k \in 0 .. Len(AllRegisters) |->
                     IF k = 0 THEN OutputRegs
                     ELSE IF Equivalent[k] THEN Append(f[k - 1], AllRegisters[k])
                     ELSE f[k - 1]]
             Regs == upto[Len(AllRegisters)]
         IN /\ Regs \in Seq(Registers)
            /\ Len(Regs) >= Len(OutputRegs)
            /\ \A i \in 1 .. Len(OutputRegs) : Regs[i] = OutputRegs[i]
<1> DEFINE K == Len(AllRegisters)
    S == {s \in Seq(Registers) :
             Len(s) >= Len(OutputRegs) /\ \A i \in 1 .. Len(OutputRegs) : s[i] = OutputRegs[i]}
    body(f) == [k \in 0 .. K |->
                  IF k = 0 THEN OutputRegs
                  ELSE IF Equivalent[k] THEN Append(f[k - 1], AllRegisters[k])
                  ELSE f[k - 1]]
    step == [k \in 1 .. K |-> [s \in S |->
                         IF Equivalent[k] THEN Append(s, AllRegisters[k]) ELSE s]]
<1>1. K \in Nat /\ \A k \in 1 .. K : AllRegisters[k] \in Registers
  BY AllRegistersType, LenProperties, ElementOfSeq
<1>2. OutputRegs \in S
  BY LenProperties
<1>3. ASSUME NEW k \in 1 .. K, NEW s \in S PROVE Append(s, AllRegisters[k]) \in S
  <2>1. AllRegisters[k] \in Registers /\ s \in Seq(Registers)
        /\ Len(OutputRegs) \in Nat /\ Len(s) \in Nat
    BY <1>1, LenProperties
  <2>2. /\ Append(s, AllRegisters[k]) \in Seq(Registers)
        /\ Len(Append(s, AllRegisters[k])) = Len(s) + 1
        /\ \A i \in 1 .. Len(s) : Append(s, AllRegisters[k])[i] = s[i]
    BY <2>1, AppendProperties
  <2> HIDE DEF K
  <2> DEFINE t == Append(s, AllRegisters[k])
  <2>3. /\ s \in Seq(Registers) /\ Len(s) >= Len(OutputRegs)
        /\ \A i \in 1 .. Len(OutputRegs) : s[i] = OutputRegs[i]
    OBVIOUS
  <2>4. t \in Seq(Registers) /\ Len(t) = Len(s) + 1 /\ \A i \in 1 .. Len(s) : t[i] = s[i]
    BY <2>2
  <2> HIDE DEF t
  <2>5. Len(t) >= Len(OutputRegs) /\ \A i \in 1 .. Len(OutputRegs) : t[i] = OutputRegs[i]
    BY <2>1, <2>3, <2>4
  <2>6. t \in S
    BY <2>4, <2>5
  <2> QED  BY <2>6 DEF t
<1> HIDE DEF K, S
<1>4. step \in StepFunctions(S, K)
  BY <1>3 DEF StepFunctions
<1>5. PICK f : IsRecursion(f, S, K, OutputRegs, step)
  <2> HIDE DEF step
  <2> QED  BY <1>1, <1>2, <1>4, Recursion
<1>6. f = body(f)
  <2>1. \A k \in 1 .. K : k \in 0 .. K /\ k - 1 \in 0 .. K /\ k # 0
    BY <1>1
  <2>2. \A k \in 1 .. K : f[k] = body(f)[k]
    BY <1>5, <2>1 DEF IsRecursion
  <2>3. 0 \in 0 .. K /\ \A k \in 0 .. K : k = 0 \/ k \in 1 .. K
    BY <1>1
  <2>4. f[0] = body(f)[0]
    BY <1>5, <2>3 DEF IsRecursion
  <2>5. f \in [0 .. K -> S]
    BY <1>5 DEF IsRecursion
  <2>6. \A k \in 0 .. K : f[k] = body(f)[k]
    <3> HIDE DEF body
    <3> QED  BY <2>2, <2>3, <2>4
  <2>7. DOMAIN body(f) = 0 .. K /\ body(f) = [k \in 0 .. K |-> body(f)[k]]
    OBVIOUS
  <2> HIDE DEF body
  <2> QED  BY <2>5, <2>6, <2>7
<1> DEFINE upto == CHOOSE g : g = body(g)
<1>7. upto = body(upto)
  <2> HIDE DEF body
  <2> QED  BY <1>6
<1> HIDE DEF upto
<1>8. \A k \in 0 .. K : upto[k] \in S
  <2>1. upto[0] \in S
    <3>1. 0 \in 0 .. K
      BY <1>1
    <3> QED  BY <1>2, <1>7, <3>1
  <2>2. \A k \in 1 .. K : upto[k - 1] \in S => upto[k] \in S
    <3> SUFFICES ASSUME NEW k \in 1 .. K, upto[k - 1] \in S PROVE upto[k] \in S
      OBVIOUS
    <3>1. k \in 0 .. K /\ k # 0
      BY <1>1
    <3>2. upto[k] = IF Equivalent[k] THEN Append(upto[k - 1], AllRegisters[k]) ELSE upto[k - 1]
      BY <1>7, <3>1
    <3> QED  BY <1>3, <3>2
  <2> HIDE DEF body
  <2> QED  BY <1>1, <2>1, <2>2, StaysIn
<1>9. K \in 0 .. K
  BY <1>1
<1>10. upto[K] \in S
  BY <1>8, <1>9
<1> QED  BY <1>10 DEF S, K, upto

(* A register begins where the one before it ends, or behind. *)
LEMMA OffsetFacts ==
  ASSUME NEW Regs \in Seq(Registers)
  PROVE  LET CurOffset == CHOOSE f : f =
                 [i \in 1 .. Len(Regs) |->
                     IF i = 1 THEN 0 ELSE align(f[i - 1] + Regs[i - 1].size, Regs[i].size)]
         IN /\ \A i \in 1 .. Len(Regs) : CurOffset[i] \in Nat
            /\ Len(Regs) > 0 => CurOffset[1] = 0
            /\ \A i \in 2 .. Len(Regs) : CurOffset[i - 1] + Regs[i - 1].size <= CurOffset[i]
<1> DEFINE K == Len(Regs)
    next(x, k) == align(x + Regs[k - 1].size, Regs[k].size)
    body(f) == [i \in 1 .. K |->
                  IF i = 1 THEN 0 ELSE next(f[i - 1], i)]
    step == [k \in 1 .. K |-> [x \in Int |->
                IF k = 1 THEN 0 ELSE next(x, k)]]
<1>1. K \in Nat /\ \A i \in 1 .. K : Regs[i].size \in Nat \ {0}
  <2>1. K \in Nat /\ \A i \in 1 .. K : Regs[i] \in Registers
    BY LenProperties, ElementOfSeq
  <2> QED  BY <2>1 DEF Registers
<1> HIDE DEF K
<1>2. ASSUME NEW k \in 1 .. K, k # 1, NEW x \in Int
      PROVE  /\ k - 1 \in 1 .. K
             /\ next(x, k) \in Int
             /\ x + Regs[k - 1].size <= next(x, k)
             /\ x + Regs[k - 1].size > x
  <2>1. k - 1 \in 1 .. K
    BY <1>1, <1>2
  <2>2. x + Regs[k - 1].size \in Int /\ x + Regs[k - 1].size > x /\ Regs[k].size \in Nat \ {0}
    BY <1>1, <2>1
  <2> QED  BY <2>1, <2>2, AlignFacts
<1> HIDE DEF next
<1>3. step \in StepFunctions(Int, K)
  <2>1. \A k \in 1 .. K, x \in Int :
           (IF k = 1 THEN 0 ELSE next(x, k)) \in Int
    BY <1>2
  <2> QED  BY <2>1 DEF StepFunctions
<1>4. PICK g : IsRecursion(g, Int, K, 0, step)
  <2> HIDE DEF step
  <2> QED  BY <1>1, <1>3, Recursion
<1> DEFINE f0 == [i \in 1 .. K |-> g[i]]
<1>5. f0 = body(f0)
  <2>1. ASSUME NEW i \in 1 .. K PROVE g[i] = body(g)[i]
    <3>1. i - 1 \in 0 .. K
      BY <1>1
    <3>2. g[i - 1] \in Int
      BY <1>4, <3>1 DEF IsRecursion
    <3>3. g[i] = step[i][g[i - 1]]
      <4> HIDE DEF step
      <4> QED  BY <1>4 DEF IsRecursion
    <3> QED  BY <3>2, <3>3
  <2>2. \A i \in 1 .. K : i # 1 => i - 1 \in 1 .. K
    BY <1>1
  <2>3. body(f0) = body(g)
    BY <2>2
  <2> HIDE DEF body
  <2>4. f0 = [i \in 1 .. K |-> body(g)[i]]
    BY <2>1
  <2>5. body(g) = [i \in 1 .. K |-> body(g)[i]]
    BY DEF body
  <2> QED  BY <2>3, <2>4, <2>5
<1> DEFINE CurOffset == CHOOSE f : f = body(f)
<1>6. CurOffset = body(CurOffset)
  <2> HIDE DEF body
  <2> QED  BY <1>5
<1> HIDE DEF CurOffset
<1>7. K > 0 => CurOffset[1] = 0
  <2>1. K > 0 => 1 \in 1 .. K
    BY <1>1
  <2> QED  BY <1>6, <2>1
<1>8. \A i \in 1 .. K : i # 1 =>
         CurOffset[i] = next(CurOffset[i - 1], i)
  BY <1>6
<1>9. \A i \in 1 .. K : CurOffset[i] \in Nat
  <2> DEFINE T == {i \in 0 .. K : i # 0 => CurOffset[i] \in Nat}
  <2>1. 0 \in T
    BY <1>1
  <2>2. ASSUME NEW i \in 1 .. K, i - 1 \in T PROVE i \in T
    <3>1. CASE i = 1
      BY <1>1, <1>7, <3>1
    <3>2. CASE i # 1
      <4>1. CurOffset[i - 1] \in Nat
        BY <2>2, <3>2
      <4>2. i - 1 \in 1 .. K /\ Regs[i - 1].size \in Nat
        BY <1>1, <3>2
      <4>3. CurOffset[i] = next(CurOffset[i - 1], i)
        BY <1>8, <3>2
      <4>4. \A x \in Int : /\ next(x, i) \in Int
                            /\ x + Regs[i - 1].size <= next(x, i)
                            /\ x + Regs[i - 1].size > x
        BY <1>2, <3>2
      <4>5. CurOffset[i - 1] \in Int
        BY <4>1
      <4>6. /\ next(CurOffset[i - 1], i) \in Int
            /\ CurOffset[i - 1] + Regs[i - 1].size <= next(CurOffset[i - 1], i)
            /\ CurOffset[i - 1] + Regs[i - 1].size > CurOffset[i - 1]
        BY <4>4, <4>5
      <4> QED  BY <4>1, <4>2, <4>3, <4>6
    <3> QED  BY <3>1, <3>2
  <2>3. \A i \in 0 .. K : i \in T
    <3> HIDE DEF T
    <3> QED  BY <1>1, <2>1, <2>2, IntervalInduction
  <2> QED  BY <2>3
<1>10. ASSUME NEW i \in 2 .. K PROVE CurOffset[i - 1] + Regs[i - 1].size <= CurOffset[i]
  <2>1. i \in 1 .. K /\ i # 1 /\ i - 1 \in 1 .. K
    BY <1>1
  <2>2. CurOffset[i - 1] \in Int
    BY <1>9, <2>1
  <2>3. CurOffset[i] = next(CurOffset[i - 1], i)
    BY <1>8, <2>1
  <2> QED  BY <1>2, <2>1, <2>2, <2>3
<1> QED  BY <1>7, <1>9, <1>10 DEF K, CurOffset, next

(* The output registers come first, and no two registers share a word of   *)
(* the buffer.                                                             *)
LEMMA LayoutFacts ==
  ASSUME NEW OutputRegs \in Seq(Registers)
  PROVE  LET info == calculateRegBufferLayout(OutputRegs)
         IN /\ info \in Seq(RegInfos)
            /\ Len(info) >= Len(OutputRegs)
            /\ \A i \in 1 .. Len(OutputRegs) : info[i].reg = OutputRegs[i]
            /\ \A i \in 1 .. Len(info) : info[i].size = info[i].reg.size
            /\ Len(info) > 0 => info[1].offset = 0
            /\ \A i, j \in 1 .. Len(info) :
                  i < j => info[i].offset + info[i].size <= info[j].offset
<1> DEFINE
    Equivalent(r) == ~Contains(OutputRegs, r) /\ \E o \in Range(OutputRegs) : o.size = r.size
    E == [k \in 1 .. Len(AllRegisters) |-> Equivalent(AllRegisters[k])]
    upto == CHOOSE f : f =
              [k \in 0 .. Len(AllRegisters) |->
                  IF k = 0 THEN OutputRegs
                  ELSE IF Equivalent(AllRegisters[k]) THEN Append(f[k - 1], AllRegisters[k])
                  ELSE f[k - 1]]
    Regs == upto[Len(AllRegisters)]
    CurOffset == CHOOSE f : f =
                 [i \in 1 .. Len(Regs) |->
                     IF i = 1 THEN 0 ELSE align(f[i - 1] + Regs[i - 1].size, Regs[i].size)]
    info == [i \in DOMAIN Regs |->
                [reg |-> Regs[i], offset |-> CurOffset[i], size |-> Regs[i].size,
                 regclass |-> Regs[i].size]]
<1>1. calculateRegBufferLayout(OutputRegs) = info
  BY DEF calculateRegBufferLayout
<1>2. /\ Regs \in Seq(Registers)
      /\ Len(Regs) >= Len(OutputRegs)
      /\ \A i \in 1 .. Len(OutputRegs) : Regs[i] = OutputRegs[i]
  <2>1. E \in [1 .. Len(AllRegisters) -> BOOLEAN]
    OBVIOUS
  <2>2. upto = CHOOSE f : f =
              [k \in 0 .. Len(AllRegisters) |->
                  IF k = 0 THEN OutputRegs
                  ELSE IF E[k] THEN Append(f[k - 1], AllRegisters[k])
                  ELSE f[k - 1]]
    <3>1. \A k \in 0 .. Len(AllRegisters) : k # 0 => E[k] = Equivalent(AllRegisters[k])
      BY AllRegistersType, LenProperties
    <3> HIDE DEF E, Equivalent
    <3>2. \A f : [k \in 0 .. Len(AllRegisters) |->
                  IF k = 0 THEN OutputRegs
                  ELSE IF E[k] THEN Append(f[k - 1], AllRegisters[k])
                  ELSE f[k - 1]]
            = [k \in 0 .. Len(AllRegisters) |->
                  IF k = 0 THEN OutputRegs
                  ELSE IF Equivalent(AllRegisters[k]) THEN Append(f[k - 1], AllRegisters[k])
                  ELSE f[k - 1]]
      BY <3>1
    <3> QED  BY <3>2
  <2> HIDE DEF E, upto
  <2> QED  BY <2>1, <2>2, RegsFacts
<1> HIDE DEF upto
<1> HIDE DEF Regs
<1>3. /\ \A i \in 1 .. Len(Regs) : CurOffset[i] \in Nat
      /\ Len(Regs) > 0 => CurOffset[1] = 0
      /\ \A i \in 2 .. Len(Regs) : CurOffset[i - 1] + Regs[i - 1].size <= CurOffset[i]
  BY <1>2, OffsetFacts
<1> HIDE DEF CurOffset
<1> DEFINE K == Len(Regs)
<1>4. /\ K \in Nat /\ DOMAIN Regs = 1 .. K
      /\ \A i \in 1 .. K : Regs[i] \in Registers /\ Regs[i].size \in Nat \ {0}
  <2>1. K \in Nat /\ DOMAIN Regs = 1 .. K /\ \A i \in 1 .. K : Regs[i] \in Registers
    BY <1>2, LenProperties, ElementOfSeq
  <2> QED  BY <2>1 DEF Registers
<1>5. info \in Seq(RegInfos) /\ Len(info) = K
  <2>1. \A i \in 1 .. K : [reg |-> Regs[i], offset |-> CurOffset[i], size |-> Regs[i].size,
                           regclass |-> Regs[i].size] \in RegInfos
    BY <1>3, <1>4 DEF RegInfos
  <2>2. K \in Nat /\ DOMAIN Regs = 1 .. K
    BY <1>4
  <2> HIDE DEF K
  <2> QED  BY <2>1, <2>2
<1>6. ASSUME NEW i \in 1 .. K, NEW j \in 1 .. K, i < j
      PROVE  CurOffset[i] + Regs[i].size <= CurOffset[j]
  <2> DEFINE T == {k \in 0 .. K : k > i => CurOffset[i] + Regs[i].size <= CurOffset[k]}
  <2>1. 0 \in T
    BY <1>4
  <2>2. ASSUME NEW k \in 1 .. K, k - 1 \in T PROVE k \in T
    <3> SUFFICES ASSUME k > i PROVE CurOffset[i] + Regs[i].size <= CurOffset[k]
      BY <1>4
    <3>1. /\ k \in 2 .. K /\ CurOffset[k] \in Nat /\ CurOffset[k - 1] \in Nat
          /\ CurOffset[i] \in Nat /\ Regs[i].size \in Nat /\ Regs[k - 1].size \in Nat
      BY <1>3, <1>4
    <3>2. CurOffset[k - 1] + Regs[k - 1].size <= CurOffset[k]
      BY <1>3, <3>1
    <3>3. k - 1 = i \/ k - 1 > i
      BY <1>4
    <3> HIDE DEF K
    <3> QED  BY <2>2, <3>1, <3>2, <3>3, SMTT(30)
  <2>3. \A k \in 0 .. K : k \in T
    <3> HIDE DEF T
    <3>1. K \in Nat
      BY <1>4
    <3> HIDE DEF K
    <3> QED  BY <2>1, <2>2, <3>1, IntervalInduction
  <2> QED  BY <1>4, <1>6, <2>3
<1>7. \A i \in 1 .. K : /\ info[i].reg = Regs[i] /\ info[i].offset = CurOffset[i]
                        /\ info[i].size = Regs[i].size
  BY <1>4
<1> HIDE DEF info
<1>8. Len(OutputRegs) \in Nat
  BY LenProperties
<1> DEFINE L == calculateRegBufferLayout(OutputRegs)
<1>9. L \in Seq(RegInfos) /\ Len(L) = K
  BY <1>1, <1>5
<1>10. Len(L) >= Len(OutputRegs) /\ \A i \in 1 .. Len(OutputRegs) : L[i].reg = OutputRegs[i]
  <2>1. \A i \in 1 .. Len(OutputRegs) : i \in 1 .. K
    BY <1>2, <1>4, <1>8
  <2> QED  BY <1>1, <1>2, <1>5, <1>7, <2>1
<1>11. Len(L) > 0 => L[1].offset = 0
  BY <1>1, <1>3, <1>4, <1>5, <1>7
<1>12. \A i \in 1 .. Len(L) : L[i].size = L[i].reg.size
  BY <1>1, <1>5, <1>7
<1>13. \A i, j \in 1 .. Len(L) : i < j => L[i].offset + L[i].size <= L[j].offset
  BY <1>1, <1>5, <1>6, <1>7
<1> HIDE DEF L
<1> QED  BY <1>9, <1>10, <1>11, <1>12, <1>13 DEF L

-------------------------------------------------------------------------------
(* A target or a rewrite by itself.                                        *)

States == [reg : [Names -> 0 .. 15], mem : [Addr -> 0 .. 15], trapped : BOOLEAN]

(* What a target or a rewrite consists of. *)
LEMMA InstructionCases ==
  ASSUME NEW b \in Instructions
  PROVE  \/ b.op = "mov" /\ b.dst \in Names /\ b.src \in Names
         \/ b.op = "store" /\ b.at \in Addr /\ b.src \in Names
         \/ b.op = "trap" /\ b = Trap
BY DEF Instructions, Mov, Store, Trap, Names

(* What one instruction of a body does by itself. *)
LEMMA StepFacts ==
  ASSUME NEW b \in Instructions, NEW m \in States
  PROVE  /\ Step(b, m) \in States
         /\ Step(b, m).trapped <=> (m.trapped \/ b.op = "trap")
         /\ b.op = "mov" => /\ Step(b, m).reg = [m.reg EXCEPT ![b.dst] = m.reg[b.src]]
                            /\ Step(b, m).mem = m.mem
         /\ b.op = "store" => /\ Step(b, m).mem = [m.mem EXCEPT ![b.at] = m.reg[b.src]]
                              /\ Step(b, m).reg = m.reg
<1>1. CASE b.op = "mov" /\ b.dst \in Names /\ b.src \in Names
  <2>1. Step(b, m) = [m EXCEPT !.reg[b.dst] = m.reg[b.src]]
    BY <1>1 DEF Step
  <2> QED  BY <1>1, <2>1 DEF States
<1>2. CASE b.op = "store" /\ b.at \in Addr /\ b.src \in Names
  <2>1. Step(b, m) = [m EXCEPT !.mem[b.at] = m.reg[b.src]]
    BY <1>2 DEF Step
  <2> QED  BY <1>2, <2>1 DEF States
<1>3. CASE b.op = "trap"
  <2>1. Step(b, m) = [m EXCEPT !.trapped = TRUE]
    BY <1>3 DEF Step
  <2> QED  BY <1>3, <2>1 DEF States
<1> QED  BY <1>1, <1>2, <1>3, InstructionCases

Entry == [reg |-> EntryRegs, mem |-> EntryMem, trapped |-> FALSE]

(* The state of the call. *)
LEMMA EntryType == Entry \in States
BY NamesAre DEF Entry, States, EntryRegs, EntryMem

(* The states a body goes through by itself. *)
LEMMA RunFacts ==
  ASSUME NEW body \in Seq(Instructions)
  PROVE  /\ Len(body) \in Nat
         /\ \A i \in 1 .. Len(body) : body[i] \in Instructions
         /\ Run(body)[0] = Entry
         /\ \A i \in 1 .. Len(body) : Run(body)[i] = Step(body[i], Run(body)[i - 1])
         /\ \A i \in 0 .. Len(body) : Run(body)[i] \in States
<1> DEFINE n == Len(body)
    eqn(f) == [i \in 0 .. n |-> IF i = 0 THEN Entry ELSE Step(body[i], f[i - 1])]
    step == [k \in 1 .. n |-> [m \in States |-> Step(body[k], m)]]
    after == CHOOSE f : f = eqn(f)
<1>1. n \in Nat /\ \A i \in 1 .. n : body[i] \in Instructions
  BY LenProperties, ElementOfSeq
<1>2. Run(body) = after
  BY DEF Run, Entry
<1> HIDE DEF n
<1>3. step \in StepFunctions(States, n)
  BY <1>1, StepFacts DEF StepFunctions
<1>4. PICK g : IsRecursion(g, States, n, Entry, step)
  <2> HIDE DEF step
  <2> QED  BY <1>1, <1>3, EntryType, Recursion
<1>5. g = eqn(g)
  <2>1. /\ g \in [0 .. n -> States] /\ g[0] = Entry
        /\ \A k \in 1 .. n : g[k] = step[k][g[k - 1]]
    <3> HIDE DEF step
    <3> QED  BY <1>4 DEF IsRecursion
  <2>2. \A k \in 1 .. n : k - 1 \in 0 .. n
    BY <1>1
  <2>3. \A k \in 1 .. n : g[k] = Step(body[k], g[k - 1])
    BY <2>1, <2>2
  <2>4. \A k \in 0 .. n : g[k] = IF k = 0 THEN Entry ELSE Step(body[k], g[k - 1])
    BY <1>1, <2>1, <2>3
  <2> QED  BY <2>1, <2>4
<1>6. after = eqn(after)
  <2> HIDE DEF eqn
  <2> QED  BY <1>5
<1> HIDE DEF after
<1>7. after[0] = Entry /\ \A k \in 1 .. n : after[k] = Step(body[k], after[k - 1])
  <2>1. 0 \in 0 .. n /\ \A k \in 1 .. n : k \in 0 .. n /\ k # 0
    BY <1>1
  <2> QED  BY <1>6, <2>1
<1>8. \A k \in 0 .. n : after[k] \in States
  <2>1. after[0] \in States
    BY <1>7, EntryType
  <2>2. \A k \in 1 .. n : after[k - 1] \in States => after[k] \in States
    <3> SUFFICES ASSUME NEW k \in 1 .. n, after[k - 1] \in States PROVE after[k] \in States
      OBVIOUS
    <3>1. Step(body[k], after[k - 1]) \in States
      BY <1>1, StepFacts
    <3> QED  BY <1>7, <3>1
  <2> QED  BY <1>1, <2>1, <2>2, StaysIn
<1> QED  BY <1>1, <1>2, <1>7, <1>8 DEF n

(* A body traps at its first trap, and has trapped then. *)
LEMMA RunTrapped ==
  ASSUME NEW body \in Seq(Instructions)
  PROVE  \A i \in 0 .. Len(body) :
            Run(body)[i].trapped <=> \E j \in 1 .. i : body[j].op = "trap"
<1> DEFINE n == Len(body)
    T == {i \in 0 .. n : Run(body)[i].trapped <=> \E j \in 1 .. i : body[j].op = "trap"}
<1>1. n \in Nat
  BY RunFacts
<1>2. 0 \in T
  BY <1>1, RunFacts DEF Entry
<1>3. ASSUME NEW k \in 1 .. n, k - 1 \in T PROVE k \in T
  <2>1. k - 1 \in 0 .. n /\ k \in 0 .. n
    BY <1>1
  <2>2. Run(body)[k].trapped <=> (Run(body)[k - 1].trapped \/ body[k].op = "trap")
    <3>1. /\ body[k] \in Instructions /\ Run(body)[k - 1] \in States
          /\ Run(body)[k] = Step(body[k], Run(body)[k - 1])
      BY <2>1, RunFacts
    <3> DEFINE m == Run(body)[k - 1]
    <3>2. Step(body[k], m).trapped <=> (m.trapped \/ body[k].op = "trap")
      <4>1. m \in States
        BY <3>1
      <4> HIDE DEF m
      <4> QED  BY <3>1, <4>1, StepFacts
    <3> QED  BY <3>1, <3>2
  <2>3. \A j \in 1 .. k : j = k \/ j \in 1 .. k - 1
    BY <1>1
  <2>4. k \in 1 .. k /\ \A j \in 1 .. k - 1 : j \in 1 .. k
    BY <1>1
  <2>5. Run(body)[k - 1].trapped <=> \E j \in 1 .. k - 1 : body[j].op = "trap"
    BY <1>3
  <2>6. Run(body)[k].trapped <=> \E j \in 1 .. k : body[j].op = "trap"
    BY <2>2, <2>3, <2>4, <2>5
  <2> QED  BY <2>1, <2>6
<1>4. \A k \in 0 .. n : k \in T
  <2> HIDE DEF n, T
  <2> QED  BY <1>1, <1>2, <1>3, IntervalInduction
<1> QED  BY <1>4

-------------------------------------------------------------------------------
(* The code around a rewrite, instruction by instruction.                  *)

(* The elements of two sequences joined. *)
LEMMA ConcatFacts ==
  ASSUME NEW S, NEW s \in Seq(S), NEW t \in Seq(S)
  PROVE  /\ s \o t \in Seq(S)
         /\ Len(s \o t) = Len(s) + Len(t)
         /\ \A i \in 1 .. Len(s) : (s \o t)[i] = s[i]
         /\ \A i \in 1 .. Len(t) : (s \o t)[Len(s) + i] = t[i]
<1> DEFINE c == s \o t
<1>1. Len(s) \in Nat /\ Len(t) \in Nat
  BY LenProperties
<1>2. /\ c \in Seq(S) /\ Len(c) = Len(s) + Len(t)
      /\ \A i \in 1 .. Len(s) + Len(t) :
            c[i] = IF i <= Len(s) THEN s[i] ELSE t[i - Len(s)]
  BY ConcatProperties
<1> HIDE DEF c
<1>3. \A i \in 1 .. Len(s) : c[i] = s[i]
  BY <1>1, <1>2
<1>4. \A i \in 1 .. Len(t) : c[Len(s) + i] = t[i]
  <2>1. \A i \in 1 .. Len(t) : /\ Len(s) + i \in 1 .. Len(s) + Len(t) /\ ~ (Len(s) + i <= Len(s))
                               /\ (Len(s) + i) - Len(s) = i
    BY <1>1
  <2> QED  BY <1>2, <2>1
<1> QED  BY <1>2, <1>3, <1>4 DEF c

AnyCode ==
    Instructions \cup {Movabs(dst, imm) : dst \in Names, imm \in Int}
    \cup {Push(src) : src \in Names} \cup {Pop(dst) : dst \in Names}
    \cup {Call(f) : f \in {"mprotect", "siglongjmp"}} \cup {StoreReg(info) : info \in RegInfos}

(* Every instruction that the instrumentation writes. *)
LEMMA InAnyCode ==
  /\ Instructions \subseteq AnyCode
  /\ \A dst \in Names, imm \in Int : Movabs(dst, imm) \in AnyCode
  /\ \A r \in Names : Push(r) \in AnyCode /\ Pop(r) \in AnyCode
  /\ \A f \in {"mprotect", "siglongjmp"} : Call(f) \in AnyCode
  /\ \A info \in RegInfos : StoreReg(info) \in AnyCode
BY DEF AnyCode

(* The arguments are pushed, and popped in the opposite order. *)
LEMMA PushesFacts ==
  /\ Pushes \in Seq(AnyCode) /\ Len(Pushes) = 6
  /\ \A i \in 1 .. 6 : Pushes[i] = Push(ArgumentRegs[i])
  /\ Reverse(Pops) \in Seq(AnyCode) /\ Len(Reverse(Pops)) = 6
  /\ \A i \in 1 .. 6 : Reverse(Pops)[i] = Pop(ArgumentRegs[7 - i])
  /\ \A i \in 1 .. 6 : ArgumentRegs[i] \in Names
<1>1. DOMAIN ArgumentRegs = 1 .. 6 /\ \A i \in 1 .. 6 : ArgumentRegs[i] \in Names
  BY NamesAre DEF ArgumentRegs
<1>2. Pushes = [i \in 1 .. 6 |-> Push(ArgumentRegs[i])]
  BY <1>1 DEF Pushes
<1>3. Pops = [i \in 1 .. 6 |-> Pop(ArgumentRegs[i])]
  BY <1>1 DEF Pops
<1>4. Reverse(Pops) = [i \in 1 .. 6 |-> Pop(ArgumentRegs[7 - i])]
  <2>1. Pops \in Seq(AnyCode) /\ Len(Pops) = 6
    BY <1>1, <1>3, InAnyCode
  <2>2. \A i \in 1 .. 6 : 6 - i + 1 = 7 - i /\ 7 - i \in 1 .. 6
    OBVIOUS
  <2> QED  BY <1>3, <2>1, <2>2 DEF Reverse
<1>5. \A i \in 1 .. 6 : Push(ArgumentRegs[i]) \in AnyCode /\ Pop(ArgumentRegs[7 - i]) \in AnyCode
  BY <1>1, InAnyCode
<1> QED  BY <1>1, <1>2, <1>4, <1>5

(* A call of mprotect and its arguments. *)
LEMMA CallFacts ==
  ASSUME NEW b \in Int, NEW size \in Int, NEW level \in Int
  PROVE  /\ callMprotect(b, size, level) \in Seq(AnyCode)
         /\ Len(callMprotect(b, size, level)) = 4
         /\ callMprotect(b, size, level)[1] = Movabs("RDI", b)
         /\ callMprotect(b, size, level)[2] = Movabs("RSI", size)
         /\ callMprotect(b, size, level)[3] = Movabs("RDX", level)
         /\ callMprotect(b, size, level)[4] = Call("mprotect")
BY InAnyCode, NamesAre DEF callMprotect

(* The end of the code. *)
LEMMA ReturnFacts ==
  /\ instrumentToReturn \in Seq(AnyCode) /\ Len(instrumentToReturn) = 3
  /\ instrumentToReturn[1] = Movabs("RDI", 0)
  /\ instrumentToReturn[2] = Movabs("RSI", 42)
  /\ instrumentToReturn[3] = Call("siglongjmp")
BY InAnyCode, NamesAre DEF instrumentToReturn

(* One instruction for each register of the layout, after the address. *)
LEMMA DumpFacts ==
  ASSUME NEW OutputRegs \in Seq(Registers)
  PROVE  LET info == calculateRegBufferLayout(OutputRegs)
             dump1 == dumpRegisters(OutputRegs)
         IN /\ dump1 \in Seq(AnyCode) /\ Len(dump1) = 1 + Len(info)
            /\ dump1[1] = Movabs(FreeReg, Buffer)
            /\ \A i \in 1 .. Len(info) : dump1[1 + i] = StoreReg(info[i])
<1> DEFINE info == calculateRegBufferLayout(OutputRegs)
           first == <<Movabs(FreeReg, Buffer)>>
           rest == [i \in DOMAIN info |-> StoreReg(info[i])]
<1>1. /\ Len(info) \in Nat /\ DOMAIN info = 1 .. Len(info)
      /\ \A i \in 1 .. Len(info) : info[i] \in RegInfos
  BY LayoutFacts, LenProperties, ElementOfSeq
<1>2. dumpRegisters(OutputRegs) = first \o rest
  BY DEF dumpRegisters
<1> HIDE DEF info
<1>3. first \in Seq(AnyCode) /\ Len(first) = 1 /\ first[1] = Movabs(FreeReg, Buffer)
  BY InAnyCode, NamesAre DEF FreeReg, Buffer
<1>4. /\ rest \in Seq(AnyCode) /\ Len(rest) = Len(info)
      /\ \A i \in 1 .. Len(info) : rest[i] = StoreReg(info[i])
  BY <1>1, InAnyCode
<1> HIDE DEF first, rest
<1>5. /\ first \o rest \in Seq(AnyCode) /\ Len(first \o rest) = 1 + Len(info)
      /\ (first \o rest)[1] = first[1]
      /\ \A i \in 1 .. Len(info) : (first \o rest)[1 + i] = rest[i]
  BY <1>3, <1>4, ConcatFacts
<1> QED  BY <1>2, <1>3, <1>4, <1>5 DEF info

(* The output registers of a type: none, or RAX. *)
LEMMA ReturnRegsFacts ==
  ASSUME NEW type \in ReturnTypes
  PROVE  /\ getReturnRegs(type) \in Seq(Registers)
         /\ type = "void" => getReturnRegs(type) = <<>>
         /\ type # "void" => \E size \in {1, 2, 4} : getReturnRegs(type) = <<Register("RAX", size)>>
<1>1. type \in {"i64", "i32", "i8", "pointer", "void"}
  BY InstrumenterAssumption
<1>2. \A size \in {1, 2, 4} : Register("RAX", size) \in Registers
  BY NamesAre DEF Register, Registers
<1>3. type # "void" => \E size \in {1, 2, 4} : getReturnRegs(type) = <<Register("RAX", size)>>
  BY <1>1 DEF getReturnRegs
<1>4. type = "void" => getReturnRegs(type) = <<>>
  BY DEF getReturnRegs
<1>5. getReturnRegs(type) \in Seq(Registers)
  <2>1. CASE type = "void"
    <3>1. <<>> \in Seq(Registers)
      OBVIOUS
    <3> QED  BY <1>4, <2>1, <3>1
  <2>2. CASE type # "void"
    <3>1. PICK size \in {1, 2, 4} : getReturnRegs(type) = <<Register("RAX", size)>>
      BY <1>3, <2>2
    <3>2. Register("RAX", size) \in Registers
      BY <1>2
    <3> QED  BY <3>1, <3>2
  <2> QED  BY <2>1, <2>2
<1> QED  BY <1>3, <1>4, <1>5

(* Two pieces of code of known lengths, joined. *)
IsJoin(c, s, t, p, q) ==
    /\ c \in Seq(AnyCode) /\ Len(c) = p + q
    /\ \A i \in 1 .. p : c[i] = s[i]
    /\ \A i \in 1 .. q : c[p + i] = t[i]

(* Joined code has both parts, one after the other. *)
LEMMA Joined ==
  ASSUME NEW s \in Seq(AnyCode), NEW t \in Seq(AnyCode)
  PROVE  IsJoin(s \o t, s, t, Len(s), Len(t))
BY ConcatFacts DEF IsJoin

(* The code, part by part. *)
LEMMA CodeFacts ==
  ASSUME NEW rewrite \in Seq(Instructions), NEW fp \in FramePointers, NEW type \in ReturnTypes,
         frame_begin(fp) \in Int, frame_size(fp) \in Int
  PROVE  LET c == instrument(rewrite, fp, type)
             info == calculateRegBufferLayout(getReturnRegs(type))
             n == Len(rewrite)
             k == Len(info)
         IN /\ n \in Nat /\ k \in Nat /\ Len(c) = 24 + n + k /\ c \in Seq(AnyCode)
            /\ \A i \in 1 .. 6 : c[i] = Push(ArgumentRegs[i])
            /\ c[7] = Movabs("RDI", frame_begin(fp))
            /\ c[8] = Movabs("RSI", frame_size(fp))
            /\ c[9] = Movabs("RDX", PROT_READ)
            /\ c[10] = Call("mprotect")
            /\ \A i \in 1 .. 6 : c[10 + i] = Pop(ArgumentRegs[7 - i])
            /\ \A i \in 1 .. n : c[16 + i] = rewrite[i]
            /\ c[17 + n] = Movabs(FreeReg, Buffer)
            /\ \A i \in 1 .. k : c[17 + n + i] = StoreReg(info[i])
            /\ c[18 + n + k] = Movabs("RDI", frame_begin(fp))
            /\ c[19 + n + k] = Movabs("RSI", frame_size(fp))
            /\ c[20 + n + k] = Movabs("RDX", PROT_READ + PROT_WRITE)
            /\ c[21 + n + k] = Call("mprotect")
            /\ c[22 + n + k] = Movabs("RDI", 0)
            /\ c[23 + n + k] = Movabs("RSI", 42)
            /\ c[24 + n + k] = Call("siglongjmp")
<1> DEFINE info == calculateRegBufferLayout(getReturnRegs(type))
           n == Len(rewrite)
           k == Len(info)
           call1 == callMprotect(frame_begin(fp), frame_size(fp), PROT_READ)
           call2 == callMprotect(frame_begin(fp), frame_size(fp), PROT_READ + PROT_WRITE)
           pops == Reverse(Pops)
           dump1 == dumpRegisters(getReturnRegs(type))
           c1 == Pushes \o call1
           c2 == c1 \o pops
           c3 == c2 \o rewrite
           c4 == c3 \o dump1
           c5 == c4 \o call2
           c6 == c5 \o instrumentToReturn
<1>1. instrument(rewrite, fp, type) = c6
  BY DEF instrument, protectRTFrame, unprotectRTFrame
<1>2. rewrite \in Seq(AnyCode) /\ n \in Nat
  BY InAnyCode, LenProperties
<1>3. /\ info \in Seq(RegInfos) /\ k \in Nat
      /\ dump1 \in Seq(AnyCode) /\ Len(dump1) = 1 + k
      /\ dump1[1] = Movabs(FreeReg, Buffer)
      /\ \A i \in 1 .. k : dump1[1 + i] = StoreReg(info[i])
  <2>1. getReturnRegs(type) \in Seq(Registers)
    BY ReturnRegsFacts
  <2>2. info \in Seq(RegInfos) /\ k \in Nat
    BY <2>1, LayoutFacts, LenProperties
  <2> QED  BY <2>1, <2>2, DumpFacts
<1>4. /\ call1 \in Seq(AnyCode) /\ Len(call1) = 4
      /\ call1[1] = Movabs("RDI", frame_begin(fp)) /\ call1[2] = Movabs("RSI", frame_size(fp))
      /\ call1[3] = Movabs("RDX", PROT_READ) /\ call1[4] = Call("mprotect")
  <2>1. PROT_READ \in Int
    BY DEF PROT_READ
  <2> QED  BY <2>1, CallFacts
<1>5. /\ call2 \in Seq(AnyCode) /\ Len(call2) = 4
      /\ call2[1] = Movabs("RDI", frame_begin(fp)) /\ call2[2] = Movabs("RSI", frame_size(fp))
      /\ call2[3] = Movabs("RDX", PROT_READ + PROT_WRITE) /\ call2[4] = Call("mprotect")
  <2>1. PROT_READ + PROT_WRITE \in Int
    BY DEF PROT_READ, PROT_WRITE
  <2> DEFINE level == PROT_READ + PROT_WRITE
  <2> HIDE DEF level
  <2>2. /\ callMprotect(frame_begin(fp), frame_size(fp), level) \in Seq(AnyCode)
        /\ Len(callMprotect(frame_begin(fp), frame_size(fp), level)) = 4
        /\ callMprotect(frame_begin(fp), frame_size(fp), level)[1] = Movabs("RDI", frame_begin(fp))
        /\ callMprotect(frame_begin(fp), frame_size(fp), level)[2] = Movabs("RSI", frame_size(fp))
        /\ callMprotect(frame_begin(fp), frame_size(fp), level)[3] = Movabs("RDX", level)
        /\ callMprotect(frame_begin(fp), frame_size(fp), level)[4] = Call("mprotect")
    BY <2>1, CallFacts DEF level
  <2> QED  BY <2>2 DEF level
<1> HIDE DEF n, k, info, call1, call2, pops, dump1
<1>6. /\ c1 \in Seq(AnyCode) /\ Len(c1) = 10
      /\ \A i \in 1 .. 6 : c1[i] = Push(ArgumentRegs[i])
      /\ c1[7] = call1[1] /\ c1[8] = call1[2] /\ c1[9] = call1[3] /\ c1[10] = call1[4]
  <2>1. /\ c1 \in Seq(AnyCode) /\ Len(c1) = 6 + 4
        /\ \A i \in 1 .. 6 : c1[i] = Pushes[i]
        /\ \A i \in 1 .. 4 : c1[6 + i] = call1[i]
    <3>1. c1 = Pushes \o call1
      OBVIOUS
    <3>9. IsJoin(Pushes \o call1, Pushes, call1, Len(Pushes), Len(call1))
      BY <1>4, <3>1, PushesFacts, Joined
    <3>10. Len(Pushes) = 6 /\ Len(call1) = 4
      BY <1>4, <3>1, PushesFacts
    <3>11. IsJoin(c1, Pushes, call1, 6, 4)
      BY <3>1, <3>9, <3>10
    <3> HIDE DEF c1
    <3> QED  BY <3>11 DEF IsJoin
  <2> HIDE DEF c1
  <2> QED  BY <2>1, PushesFacts
<1> HIDE DEF c1
<1>7. /\ c2 \in Seq(AnyCode) /\ Len(c2) = 16
      /\ \A i \in 1 .. 10 : c2[i] = c1[i]
      /\ \A i \in 1 .. 6 : c2[10 + i] = Pop(ArgumentRegs[7 - i])
  <2>1. /\ c2 \in Seq(AnyCode) /\ Len(c2) = 10 + 6
        /\ \A i \in 1 .. 10 : c2[i] = c1[i]
        /\ \A i \in 1 .. 6 : c2[10 + i] = pops[i]
    <3>1. c2 = c1 \o pops
      OBVIOUS
    <3>2. pops \in Seq(AnyCode) /\ Len(pops) = 6
      BY PushesFacts DEF pops
    <3>9. IsJoin(c1 \o pops, c1, pops, Len(c1), Len(pops))
      BY <1>6, <3>1, <3>2, Joined
    <3>10. Len(c1) = 10 /\ Len(pops) = 6
      BY <1>6, <3>1, <3>2
    <3>11. IsJoin(c2, c1, pops, 10, 6)
      BY <3>1, <3>9, <3>10
    <3> HIDE DEF c2
    <3> QED  BY <3>11 DEF IsJoin
  <2> HIDE DEF c2
  <2> QED  BY <2>1, PushesFacts DEF pops
<1> HIDE DEF c2
<1>8. /\ c3 \in Seq(AnyCode) /\ Len(c3) = 16 + n
      /\ \A i \in 1 .. 16 : c3[i] = c2[i]
      /\ \A i \in 1 .. n : c3[16 + i] = rewrite[i]
  <2>1. c3 = c2 \o rewrite /\ Len(rewrite) = n
    BY DEF n
  <2>9. IsJoin(c2 \o rewrite, c2, rewrite, Len(c2), Len(rewrite))
    BY <1>2, <1>7, <2>1, Joined
  <2>10. Len(c2) = 16 /\ Len(rewrite) = n
    BY <1>2, <1>7, <2>1
  <2>11. IsJoin(c3, c2, rewrite, 16, n)
    BY <2>1, <2>9, <2>10
  <2> HIDE DEF c3
  <2> QED  BY <2>11 DEF IsJoin
<1> HIDE DEF c3
<1>9. /\ c4 \in Seq(AnyCode) /\ Len(c4) = 17 + n + k
      /\ \A i \in 1 .. 16 + n : c4[i] = c3[i]
      /\ c4[17 + n] = dump1[1]
      /\ \A i \in 1 .. k : c4[17 + n + i] = dump1[1 + i]
  <2>1. /\ c4 \in Seq(AnyCode) /\ Len(c4) = (16 + n) + (1 + k)
        /\ \A i \in 1 .. 16 + n : c4[i] = c3[i]
        /\ \A i \in 1 .. 1 + k : c4[(16 + n) + i] = dump1[i]
    <3>1. c4 = c3 \o dump1 /\ 16 + n \in Nat /\ 1 + k \in Nat
      BY <1>2, <1>3
    <3>9. IsJoin(c3 \o dump1, c3, dump1, Len(c3), Len(dump1))
      BY <1>3, <1>8, <3>1, Joined
    <3>10. Len(c3) = 16 + n /\ Len(dump1) = 1 + k
      BY <1>3, <1>8, <3>1
    <3>11. IsJoin(c4, c3, dump1, 16 + n, 1 + k)
      BY <3>1, <3>9, <3>10
    <3> HIDE DEF c4
    <3> QED  BY <3>11 DEF IsJoin
  <2>2. 1 \in 1 .. 1 + k /\ \A i \in 1 .. k : 1 + i \in 1 .. 1 + k
    BY <1>3
  <2>3. (16 + n) + 1 = 17 + n /\ \A i \in 1 .. k : (16 + n) + (1 + i) = 17 + n + i
    BY <1>2, <1>3
  <2> HIDE DEF c4
  <2>4. c4[(16 + n) + 1] = dump1[1] /\ \A i \in 1 .. k : c4[(16 + n) + (1 + i)] = dump1[1 + i]
    BY <2>1, <2>2
  <2> QED  BY <1>2, <1>3, <2>1, <2>3, <2>4
<1> HIDE DEF c4
<1>10. /\ c5 \in Seq(AnyCode) /\ Len(c5) = 21 + n + k
       /\ \A i \in 1 .. 17 + n + k : c5[i] = c4[i]
       /\ c5[18 + n + k] = call2[1] /\ c5[19 + n + k] = call2[2]
       /\ c5[20 + n + k] = call2[3] /\ c5[21 + n + k] = call2[4]
  <2>1. /\ c5 \in Seq(AnyCode) /\ Len(c5) = (17 + n + k) + 4
        /\ \A i \in 1 .. 17 + n + k : c5[i] = c4[i]
        /\ \A i \in 1 .. 4 : c5[(17 + n + k) + i] = call2[i]
    <3>1. c5 = c4 \o call2 /\ 17 + n + k \in Nat
      BY <1>2, <1>3
    <3>9. IsJoin(c4 \o call2, c4, call2, Len(c4), Len(call2))
      BY <1>5, <1>9, <3>1, Joined
    <3>10. Len(c4) = 17 + n + k /\ Len(call2) = 4
      BY <1>5, <1>9, <3>1
    <3>11. IsJoin(c5, c4, call2, 17 + n + k, 4)
      BY <3>1, <3>9, <3>10
    <3> HIDE DEF c5
    <3> QED  BY <3>11 DEF IsJoin
  <2>2. /\ (17 + n + k) + 1 = 18 + n + k /\ (17 + n + k) + 2 = 19 + n + k
        /\ (17 + n + k) + 3 = 20 + n + k /\ (17 + n + k) + 4 = 21 + n + k
    BY <1>2, <1>3
  <2> HIDE DEF c5
  <2> QED  BY <2>1, <2>2
<1> HIDE DEF c5
<1>11. /\ c6 \in Seq(AnyCode) /\ Len(c6) = 24 + n + k
       /\ \A i \in 1 .. 21 + n + k : c6[i] = c5[i]
       /\ c6[22 + n + k] = Movabs("RDI", 0) /\ c6[23 + n + k] = Movabs("RSI", 42)
       /\ c6[24 + n + k] = Call("siglongjmp")
  <2>1. /\ c6 \in Seq(AnyCode) /\ Len(c6) = (21 + n + k) + 3
        /\ \A i \in 1 .. 21 + n + k : c6[i] = c5[i]
        /\ \A i \in 1 .. 3 : c6[(21 + n + k) + i] = instrumentToReturn[i]
    <3>1. c6 = c5 \o instrumentToReturn /\ 21 + n + k \in Nat
      BY <1>2, <1>3
    <3>9. IsJoin(c5 \o instrumentToReturn, c5, instrumentToReturn, Len(c5), Len(instrumentToReturn))
      BY <1>10, <3>1, ReturnFacts, Joined
    <3>10. Len(c5) = 21 + n + k /\ Len(instrumentToReturn) = 3
      BY <1>10, <3>1, ReturnFacts
    <3>11. IsJoin(c6, c5, instrumentToReturn, 21 + n + k, 3)
      BY <3>1, <3>9, <3>10
    <3> HIDE DEF c6
    <3> QED  BY <3>11 DEF IsJoin
  <2>2. /\ (21 + n + k) + 1 = 22 + n + k /\ (21 + n + k) + 2 = 23 + n + k
        /\ (21 + n + k) + 3 = 24 + n + k
    BY <1>2, <1>3
  <2> HIDE DEF c6
  <2> QED  BY <2>1, <2>2, ReturnFacts
<1> HIDE DEF c6
<1>12. \A i \in 1 .. 16 : c6[i] = c2[i]
  <2>1. \A i \in 1 .. 16 : i \in 1 .. 16 + n /\ i \in 1 .. 17 + n + k /\ i \in 1 .. 21 + n + k
    BY <1>2, <1>3
  <2>2. \A i \in 1 .. 16 : c6[i] = c5[i]
    BY <1>11, <2>1
  <2>3. \A i \in 1 .. 16 : c5[i] = c4[i]
    BY <1>10, <2>1
  <2>4. \A i \in 1 .. 16 : c4[i] = c3[i]
    BY <1>9, <2>1
  <2>5. \A i \in 1 .. 16 : c3[i] = c2[i]
    BY <1>8
  <2> QED  BY <2>2, <2>3, <2>4, <2>5
<1>13. \A i \in 1 .. n : c6[16 + i] = rewrite[i]
  <2>1. \A i \in 1 .. n : /\ 16 + i \in 1 .. 16 + n /\ 16 + i \in 1 .. 17 + n + k
                           /\ 16 + i \in 1 .. 21 + n + k
    BY <1>2, <1>3
  <2>2. \A i \in 1 .. n : c6[16 + i] = c4[16 + i]
    BY <1>10, <1>11, <2>1
  <2>3. \A i \in 1 .. n : c4[16 + i] = c3[16 + i]
    BY <1>9, <2>1
  <2> QED  BY <1>8, <2>2, <2>3
<1>14. c6[17 + n] = Movabs(FreeReg, Buffer) /\ \A i \in 1 .. k : c6[17 + n + i] = StoreReg(info[i])
  <2>1. /\ 17 + n \in 1 .. 17 + n + k /\ 17 + n \in 1 .. 21 + n + k
        /\ \A i \in 1 .. k : 17 + n + i \in 1 .. 17 + n + k /\ 17 + n + i \in 1 .. 21 + n + k
    BY <1>2, <1>3
  <2>2. c6[17 + n] = c4[17 + n] /\ \A i \in 1 .. k : c6[17 + n + i] = c4[17 + n + i]
    BY <1>10, <1>11, <2>1
  <2> QED  BY <1>3, <1>9, <2>2
<1>15. /\ c6[18 + n + k] = call2[1] /\ c6[19 + n + k] = call2[2]
       /\ c6[20 + n + k] = call2[3] /\ c6[21 + n + k] = call2[4]
  <2>1. \A i \in 18 .. 21 : i + n + k \in 1 .. 21 + n + k
    BY <1>2, <1>3
  <2> QED  BY <1>10, <1>11, <2>1
<1>16. /\ \A i \in 1 .. 6 : c6[i] = Push(ArgumentRegs[i])
       /\ c6[7] = call1[1] /\ c6[8] = call1[2] /\ c6[9] = call1[3] /\ c6[10] = call1[4]
       /\ \A i \in 1 .. 6 : c6[10 + i] = Pop(ArgumentRegs[7 - i])
  <2>1. \A i \in 1 .. 6 : i \in 1 .. 10 /\ i \in 1 .. 16 /\ 10 + i \in 1 .. 16
    OBVIOUS
  <2> QED  BY <1>6, <1>7, <1>12, <2>1
<1> QED
  BY <1>1, <1>2, <1>3, <1>4, <1>5, <1>11, <1>13, <1>14, <1>15, <1>16 DEF n, k, info

-------------------------------------------------------------------------------
(* The inductive invariant, in parts.  FrameInv is inductive by itself.    *)

Tests == [fp : FramePointers, first : FramePointers, type : ReturnTypes,
          target : Targets, rewrite : Rewrites]

(* Where the parts of the code begin: the rewrite, the dump of the         *)
(* registers, the second mprotect, and the return; and its last call.      *)
BodyAt == 17
DumpAt == BodyAt + Len(test.rewrite)
UnprotectAt == DumpAt + 1 + Len(layout)
ReturnAt == UnprotectAt + 4
LastCall == ReturnAt + 2

Shape ==
    /\ test \in Tests
    /\ code = instrument(test.rewrite, test.first, test.type)
    /\ pc \in 1 .. LastCall
    /\ reg \in [Names -> Int]
    /\ mem \in [Addr -> Int]
    /\ DOMAIN data = 0 .. reg_buf_size(layout) - 1

(* Six words are pushed, and popped before the rewrite. *)
StackPointer ==
    LET boundary == stack_boundary(test.fp)
    IN rsp = IF pc <= 7 THEN boundary - pc
             ELSE IF pc <= 11 THEN boundary - 7
             ELSE IF pc <= BodyAt THEN boundary - 7 + (pc - 11)
             ELSE boundary - 1

(* The arguments of the two calls of mprotect. *)
MprotectArguments ==
    \A start \in {BodyAt - 10, UnprotectAt} :
        /\ pc \in start + 1 .. start + 3 => reg["RDI"] = frame_begin(test.first)
        /\ pc \in start + 2 .. start + 3 => reg["RSI"] = frame_size(test.first)
        /\ pc = start + 3 =>
               reg["RDX"] = IF start = UnprotectAt THEN PROT_READ + PROT_WRITE ELSE PROT_READ

FrameReadonly ==
    readonly = IF pc \in 11 .. UnprotectAt + 3 THEN Protected(test.first) ELSE {}

FrameUntouched == test.fp = test.first => \A a \in RuntimeFrame : mem[a] = EntryMem[a]

(* All that the frame of the server depends on.                            *)
FrameInv ==
    Shape /\ StackPointer /\ MprotectArguments /\ FrameReadonly /\ FrameUntouched

(* The arguments are on the stack until they are all back. *)
ArgumentsKept ==
    /\ pc <= 7 => reg = EntryRegs
    /\ pc <= BodyAt =>
           \A i \in 1 .. 6 :
              /\ i < pc =>
                   mem[stack_boundary(test.fp) - 1 - i] = EntryRegs[ArgumentRegs[i]]
              /\ pc >= 11 /\ i > 17 - pc =>
                   reg[ArgumentRegs[i]] = EntryRegs[ArgumentRegs[i]]

(* Before its i'th instruction the rewrite has come where it would have    *)
(* come by itself, in the registers it may count on and above the frame's  *)
(* locals; it has not trapped nor touched a protected page.                *)
Executed == IF pc < BodyAt THEN 0 ELSE IF pc < DumpAt THEN pc - BodyAt ELSE Len(test.rewrite)

ReadsDefined(body) ==
    \A i \in DOMAIN body : body[i].op \in {"mov", "store"} => body[i].src \in Defined(body, i)

Harmless ==
    \A j \in 1 .. Executed :
        /\ test.rewrite[j].op # "trap"
        /\ test.rewrite[j].op = "store" => test.rewrite[j].at \notin Protected(test.first)

Simulates ==
    ReadsDefined(test.rewrite) =>
        LET m == Run(test.rewrite)[Executed]
        IN /\ \A a \in Addr : a >= test.fp - Locals => mem[a] = m.mem[a]
           /\ pc \in BodyAt .. DumpAt =>
                  \A r \in Defined(test.rewrite, Executed + 1) : reg[r] = m.reg[r]

(* The dump is stored relative to the free register. *)
BufferAddress == pc \in DumpAt + 1 .. UnprotectAt => reg[FreeReg] = Buffer

(* The result stays in RAX until it is dumped, first of all registers, and *)
(* then where it was dumped.                                               *)
ResultKept ==
    ReadsDefined(test.rewrite) /\ "RAX" \in Defined(test.rewrite, Len(test.rewrite) + 1)
    /\ test.type # "void" =>
        LET m == Plain(test.rewrite)
        IN /\ pc = DumpAt + 1 => reg["RAX"] = m.reg["RAX"]
           /\ pc > DumpAt + 1 =>
                  \A b \in 0 .. layout[1].size - 1 : data[b] = bit(m.reg["RAX"], b)

(* What the client compares is the target's: the output register where it  *)
(* was dumped, the stack above the frame and the heap.                     *)
Agree ==
    /\ test.type # "void" =>
           \A k \in 0 .. layout[1].size - 1 : data[k] = target_reg_data[k]
    /\ \A a \in stack_words \cup Heap : \A k \in 0 .. 3 : bit(mem[a], k) = bit(target_mem[a], k)

(* The worker answers from where the rewrite returns or where it traps. *)
Answered ==
    test.fp = test.first =>
        \/ response = NoResponse
        \/ /\ response.signal = 0 /\ pc = LastCall
           /\ response.reg_dist + response.stack_dist + response.heap_dist = 0 <=> Agree
        \/ /\ response.signal = 1
           /\ pc \in BodyAt .. DumpAt - 1
           /\ LET b == test.rewrite[pc - 16]
              IN b.op = "trap" \/ (b.op = "store" /\ b.at \in Protected(test.first))

TestInv ==
    /\ FrameInv /\ ArgumentsKept /\ BufferAddress /\ Harmless /\ Simulates /\ ResultKept
    /\ Answered

-------------------------------------------------------------------------------
(* Where the frame lies, and where the child is in the code.               *)

(* Where the protected pages lie: above the stack of the rewrite, around the frame. *)
LEMMA FrameFacts ==
  ASSUME NEW fp \in FramePointers
  PROVE  /\ fp \in Nat /\ fp < StackTop
         /\ stack_boundary(fp) \in Nat /\ stack_boundary(fp) >= 8
         /\ stack_boundary(fp) < fp - Locals
         /\ frame_begin(fp) \in Int /\ frame_size(fp) \in Int
         /\ frame_begin(fp) % PageSize = 0
         /\ stack_boundary(fp) <= frame_begin(fp) /\ frame_begin(fp) < fp - Locals
         /\ frame_begin(fp) + frame_size(fp) = fp
         /\ fp <= align(fp, PageSize) /\ align(fp, PageSize) \in Int
<1>1. /\ fp \in Nat /\ fp < StackTop /\ fp >= Locals + PageSize + 8
      /\ PageSize \in Nat \ {0} /\ Locals \in Nat
  <2>1. /\ fp \in Nat /\ fp >= Locals + PageSize + 8 /\ fp + Linkage + PageSize <= StackTop
        /\ PageSize \in Nat \ {0} /\ Locals \in Nat /\ Linkage \in Nat /\ StackTop \in Nat
    BY InstrumenterAssumption
  <2> QED  BY <2>1
<1>2. /\ stack_boundary(fp) = fp - Locals - PageSize /\ stack_boundary(fp) \in Nat
      /\ stack_boundary(fp) >= 8
  BY <1>1 DEF stack_boundary
<1> DEFINE b == stack_boundary(fp)
<1> HIDE DEF b
<1>3. /\ align(b, PageSize) \in Int /\ align(b, PageSize) % PageSize = 0
      /\ b <= align(b, PageSize) /\ align(b, PageSize) < b + PageSize
  <2>1. b \in Int
    BY <1>2 DEF b
  <2> QED  BY <1>1, <2>1, AlignFacts
<1>4. fp <= align(fp, PageSize) /\ align(fp, PageSize) \in Int
  <2>1. fp \in Int
    BY <1>1
  <2> QED  BY <1>1, <2>1, AlignFacts
<1>5. frame_begin(fp) = align(b, PageSize)
  BY DEF frame_begin, b
<1>6. frame_begin(fp) < fp - Locals
  BY <1>1, <1>2, <1>3, <1>5 DEF b
<1>7. frame_size(fp) \in Int /\ frame_begin(fp) + frame_size(fp) = fp
  BY <1>1, <1>3, <1>5 DEF frame_size
<1> QED  BY <1>1, <1>2, <1>3, <1>4, <1>5, <1>6, <1>7 DEF b

(* The placeholder keeps the words that the code of a test may write off   *)
(* the protected pages, wherever in its page the frame lies.               *)
LEMMA PlaceholderSeparates ==
  ASSUME NEW fp \in FramePointers
  PROVE  Writable(fp) \cap Protected(fp) = {}
<1>1. /\ fp \in Nat /\ fp + Linkage + PageSize <= StackTop
      /\ PageSize \in Nat \ {0} /\ Linkage \in Nat /\ StackTop \in Nat /\ HeapSize \in Nat
  BY InstrumenterAssumption
<1>2. align(fp, PageSize) \in Int /\ align(fp, PageSize) < fp + PageSize
  <2>1. fp \in Int
    BY <1>1
  <2> QED  BY <1>1, <2>1, AlignFacts
<1>3. /\ stack_boundary(fp) \in Nat /\ frame_begin(fp) \in Int
      /\ stack_boundary(fp) <= frame_begin(fp)
  BY FrameFacts
<1>4. ASSUME NEW a \in Writable(fp) PROVE a \notin Protected(fp)
  <2>1. CASE a \in 0 .. stack_boundary(fp) - 1
    BY <2>1, <1>2, <1>3 DEF Protected
  <2>2. CASE a \in stack_pointer(fp) .. StackTop - 1
    BY <2>2, <1>1, <1>2, <1>3 DEF Protected, stack_pointer
  <2>3. CASE a \in Heap
    BY <2>3, <1>1, <1>2, <1>3 DEF Protected, Heap
  <2> QED  BY <1>4, <2>1, <2>2, <2>3 DEF Writable
<1> QED  BY <1>4

(* What Shape says of the test. *)
LEMMA TestFacts ==
  ASSUME Shape
  PROVE  /\ test.fp \in FramePointers /\ test.first \in FramePointers
         /\ test.type \in ReturnTypes
         /\ test.rewrite \in Seq(Instructions) /\ test.target \in Seq(Instructions)
         /\ Len(test.rewrite) \in Nat /\ Len(layout) \in Nat
         /\ layout \in Seq(RegInfos)
         /\ \A i \in 1 .. Len(test.rewrite) : test.rewrite[i] \in Instructions
         /\ \A i \in 1 .. Len(layout) : layout[i] \in RegInfos
<1>1. /\ test.fp \in FramePointers /\ test.first \in FramePointers /\ test.type \in ReturnTypes
      /\ test.rewrite \in Rewrites /\ test.target \in Targets
  BY DEF Shape, Tests
<1>2. test.rewrite \in Seq(Instructions) /\ test.target \in Seq(Instructions)
  BY <1>1, BodyAssumption
<1>3. /\ Len(test.rewrite) \in Nat
      /\ \A i \in 1 .. Len(test.rewrite) : test.rewrite[i] \in Instructions
  BY <1>2, LenProperties, ElementOfSeq
<1>4. layout \in Seq(RegInfos)
  <2>1. getReturnRegs(test.type) \in Seq(Registers)
    BY <1>1, ReturnRegsFacts
  <2> QED  BY <2>1, LayoutFacts DEF layout
<1>5. Len(layout) \in Nat /\ \A i \in 1 .. Len(layout) : layout[i] \in RegInfos
  BY <1>4, LenProperties, ElementOfSeq
<1> QED  BY <1>1, <1>2, <1>3, <1>4, <1>5

(* The part of the code the child is in, by the operation it comes to. *)
LEMMA CodeAt ==
  ASSUME Shape
  PROVE  \/ /\ pc \in 1 .. 6 /\ code[pc] = Push(ArgumentRegs[pc])
         \/ /\ pc = 7 /\ code[pc] = Movabs("RDI", frame_begin(test.first))
         \/ /\ pc = 8 /\ code[pc] = Movabs("RSI", frame_size(test.first))
         \/ /\ pc = 9 /\ code[pc] = Movabs("RDX", PROT_READ)
         \/ /\ pc = 10 /\ code[pc] = Call("mprotect")
         \/ /\ pc \in 11 .. 16 /\ code[pc] = Pop(ArgumentRegs[17 - pc])
         \/ /\ pc \in BodyAt .. DumpAt - 1 /\ code[pc] = test.rewrite[pc - 16]
            /\ pc - 16 \in 1 .. Len(test.rewrite)
         \/ /\ pc = DumpAt /\ code[pc] = Movabs(FreeReg, Buffer)
         \/ /\ pc \in DumpAt + 1 .. UnprotectAt - 1
            /\ code[pc] = StoreReg(layout[pc - DumpAt]) /\ pc - DumpAt \in 1 .. Len(layout)
         \/ /\ pc = UnprotectAt /\ code[pc] = Movabs("RDI", frame_begin(test.first))
         \/ /\ pc = UnprotectAt + 1 /\ code[pc] = Movabs("RSI", frame_size(test.first))
         \/ /\ pc = UnprotectAt + 2 /\ code[pc] = Movabs("RDX", PROT_READ + PROT_WRITE)
         \/ /\ pc = UnprotectAt + 3 /\ code[pc] = Call("mprotect")
         \/ /\ pc = ReturnAt /\ code[pc] = Movabs("RDI", 0)
         \/ /\ pc = ReturnAt + 1 /\ code[pc] = Movabs("RSI", 42)
         \/ /\ pc = LastCall /\ code[pc] = Call("siglongjmp")
<1> DEFINE n == Len(test.rewrite)
           k == Len(layout)
           c == code
<1>1. /\ n \in Nat /\ k \in Nat
      /\ \A i \in 1 .. 6 : c[i] = Push(ArgumentRegs[i])
      /\ c[7] = Movabs("RDI", frame_begin(test.first))
      /\ c[8] = Movabs("RSI", frame_size(test.first))
      /\ c[9] = Movabs("RDX", PROT_READ)
      /\ c[10] = Call("mprotect")
      /\ \A i \in 1 .. 6 : c[10 + i] = Pop(ArgumentRegs[7 - i])
      /\ \A i \in 1 .. n : c[16 + i] = test.rewrite[i]
      /\ c[17 + n] = Movabs(FreeReg, Buffer)
      /\ \A i \in 1 .. k : c[17 + n + i] = StoreReg(layout[i])
      /\ c[18 + n + k] = Movabs("RDI", frame_begin(test.first))
      /\ c[19 + n + k] = Movabs("RSI", frame_size(test.first))
      /\ c[20 + n + k] = Movabs("RDX", PROT_READ + PROT_WRITE)
      /\ c[21 + n + k] = Call("mprotect")
      /\ c[22 + n + k] = Movabs("RDI", 0)
      /\ c[23 + n + k] = Movabs("RSI", 42)
      /\ c[24 + n + k] = Call("siglongjmp")
  <2>1. /\ test.rewrite \in Seq(Instructions) /\ test.first \in FramePointers
        /\ test.type \in ReturnTypes
        /\ frame_begin(test.first) \in Int /\ frame_size(test.first) \in Int
    BY TestFacts, FrameFacts
  <2>2. c = instrument(test.rewrite, test.first, test.type)
    BY DEF Shape
  <2> QED  BY <2>1, <2>2, CodeFacts, ZenonT(30) DEF layout
<1>2. /\ DumpAt = 17 + n /\ UnprotectAt = 18 + n + k /\ ReturnAt = 22 + n + k
      /\ LastCall = 24 + n + k /\ BodyAt = 17
  BY <1>1 DEF BodyAt, DumpAt, UnprotectAt, ReturnAt, LastCall
<1>3. pc \in 1 .. 24 + n + k
  BY <1>2 DEF Shape
<1> HIDE DEF n, k, c
<1>4. CASE pc \in 1 .. 10
  <2>1. pc \in 1 .. 6 \/ pc = 7 \/ pc = 8 \/ pc = 9 \/ pc = 10
    BY <1>4
  <2> QED  BY <1>1, <2>1 DEF c
<1>5. CASE pc \in 11 .. 16
  <2> DEFINE i == pc - 10
  <2>1. i \in 1 .. 6 /\ pc = 10 + i /\ 7 - i = 17 - pc
    BY <1>5
  <2> HIDE DEF i
  <2>2. c[pc] = Pop(ArgumentRegs[17 - pc])
    BY <1>1, <2>1
  <2> QED  BY <1>5, <2>2 DEF c
<1>6. CASE pc \in 17 .. 16 + n
  <2> DEFINE i == pc - 16
  <2>1. i \in 1 .. n /\ pc = 16 + i
    BY <1>1, <1>6
  <2>2. c[pc] = test.rewrite[pc - 16]
    <3> HIDE DEF i
    <3>1. c[pc] = test.rewrite[i]
      BY <1>1, <2>1
    <3> QED  BY <3>1 DEF i
  <2>3. pc \in BodyAt .. DumpAt - 1
    BY <1>1, <1>2, <1>6
  <2> QED  BY <2>1, <2>2, <2>3 DEF c, n
<1>7. CASE pc = 17 + n
  BY <1>1, <1>2, <1>7 DEF c
<1>8. CASE pc \in 18 + n .. 17 + n + k
  <2> DEFINE i == pc - DumpAt
  <2>1. i \in 1 .. k /\ pc = 17 + n + i
    BY <1>1, <1>2, <1>8
  <2>2. c[pc] = StoreReg(layout[pc - DumpAt])
    <3> HIDE DEF i
    <3>1. c[pc] = StoreReg(layout[i])
      BY <1>1, <2>1
    <3> QED  BY <3>1 DEF i
  <2>3. pc \in DumpAt + 1 .. UnprotectAt - 1
    BY <1>1, <1>2, <1>8
  <2> QED  BY <2>1, <2>2, <2>3 DEF c, k
<1>9. CASE pc \in 18 + n + k .. 24 + n + k
  <2>1. \/ pc = 18 + n + k \/ pc = 19 + n + k \/ pc = 20 + n + k \/ pc = 21 + n + k
        \/ pc = 22 + n + k \/ pc = 23 + n + k \/ pc = 24 + n + k
    BY <1>1, <1>9
  <2>2. /\ UnprotectAt + 1 = 19 + n + k /\ UnprotectAt + 2 = 20 + n + k
        /\ UnprotectAt + 3 = 21 + n + k /\ ReturnAt + 1 = 23 + n + k
    BY <1>1, <1>2
  <2> QED  BY <1>1, <1>2, <2>1, <2>2 DEF c
<1> QED  BY <1>1, <1>3, <1>4, <1>5, <1>6, <1>7, <1>8, <1>9

(* The parts in order. *)
LEMMA Parts ==
  ASSUME Shape
  PROVE  /\ BodyAt = 17 /\ DumpAt \in Nat /\ UnprotectAt \in Nat
         /\ 17 <= DumpAt /\ DumpAt < UnprotectAt
         /\ ReturnAt = UnprotectAt + 4 /\ LastCall = UnprotectAt + 6
         /\ pc \in Nat /\ 1 <= pc /\ pc <= LastCall
         /\ DumpAt = 17 + Len(test.rewrite) /\ UnprotectAt = DumpAt + 1 + Len(layout)
<1>1. Len(test.rewrite) \in Nat /\ Len(layout) \in Nat
  BY TestFacts
<1>2. pc \in 1 .. LastCall
  BY DEF Shape
<1> QED  BY <1>1, <1>2 DEF BodyAt, DumpAt, UnprotectAt, ReturnAt, LastCall

(* What each instruction is and where it stands. *)
LEMMA BodyOps ==
  ASSUME Shape
  PROVE  \A i \in 1 .. Len(test.rewrite) :
            test.rewrite[i] \in Instructions /\ test.rewrite[i].op \in {"mov", "store", "trap"}
BY TestFacts, InstructionCases

(* The parts of an instruction. *)
LEMMA Fields ==
  /\ \A src : Push(src).op = "push" /\ Push(src).src = src
  /\ \A dst : Pop(dst).op = "pop" /\ Pop(dst).dst = dst
  /\ \A dst, imm : /\ Movabs(dst, imm).op = "movabs" /\ Movabs(dst, imm).dst = dst
                    /\ Movabs(dst, imm).imm = imm
  /\ \A f : Call(f).op = "call" /\ Call(f).function = f
  /\ \A info : StoreReg(info).op = "storeReg" /\ StoreReg(info).info = info
BY DEF Push, Pop, Movabs, Call, StoreReg

(* Pushes stand at the start only, *)
LEMMA PushAt ==
  ASSUME Shape, code[pc].op = "push"
  PROVE  pc \in 1 .. 6 /\ code[pc].src = ArgumentRegs[pc]
BY CodeAt, BodyOps, Fields

(* pops before the rewrite only, *)
LEMMA PopAt ==
  ASSUME Shape, code[pc].op = "pop"
  PROVE  pc \in 11 .. 16 /\ code[pc].dst = ArgumentRegs[17 - pc]
BY CodeAt, BodyOps, Fields

(* the rewrite's instructions in the rewrite only, *)
LEMMA BodyOp ==
  ASSUME Shape, code[pc].op \in {"mov", "store", "trap"}
  PROVE  /\ pc \in BodyAt .. DumpAt - 1
         /\ code[pc] = test.rewrite[pc - 16] /\ pc - 16 \in 1 .. Len(test.rewrite)
         /\ test.rewrite[pc - 16] \in Instructions
BY CodeAt, BodyOps, Fields

(* and the registers are stored after it. *)
LEMMA StoreRegAt ==
  ASSUME Shape, code[pc].op = "storeReg"
  PROVE  /\ pc \in DumpAt + 1 .. UnprotectAt - 1 /\ pc - DumpAt \in 1 .. Len(layout)
         /\ code[pc].info = layout[pc - DumpAt]
BY CodeAt, BodyOps, Fields

(* Three calls: two of mprotect, and the last instruction. *)
LEMMA CallAt ==
  ASSUME Shape, code[pc].op = "call"
  PROVE  \/ pc \in {10, UnprotectAt + 3} /\ code[pc].function = "mprotect"
         \/ pc = LastCall /\ code[pc].function = "siglongjmp"
BY CodeAt, BodyOps, Fields

(* Constants are loaded before each call and before the dump. *)
LEMMA MovabsAt ==
  ASSUME Shape, code[pc].op = "movabs"
  PROVE  \/ pc = 7 /\ code[pc] = Movabs("RDI", frame_begin(test.first))
         \/ pc = 8 /\ code[pc] = Movabs("RSI", frame_size(test.first))
         \/ pc = 9 /\ code[pc] = Movabs("RDX", PROT_READ)
         \/ pc = DumpAt /\ code[pc] = Movabs(FreeReg, Buffer)
         \/ pc = UnprotectAt /\ code[pc] = Movabs("RDI", frame_begin(test.first))
         \/ pc = UnprotectAt + 1 /\ code[pc] = Movabs("RSI", frame_size(test.first))
         \/ pc = UnprotectAt + 2 /\ code[pc] = Movabs("RDX", PROT_READ + PROT_WRITE)
         \/ pc = ReturnAt /\ code[pc] = Movabs("RDI", 0)
         \/ pc = ReturnAt + 1 /\ code[pc] = Movabs("RSI", 42)
BY CodeAt, BodyOps, Fields

-------------------------------------------------------------------------------
(* The frame of the server: FrameInv, action by action.                    *)

(* What depends on the test only stays. *)
LEMMA SameTest ==
  ASSUME test' = test
  PROVE  /\ layout' = layout /\ BodyAt' = BodyAt /\ DumpAt' = DumpAt
         /\ UnprotectAt' = UnprotectAt /\ ReturnAt' = ReturnAt /\ LastCall' = LastCall
         /\ RuntimeFrame' = RuntimeFrame
BY DEF layout, BodyAt, DumpAt, UnprotectAt, ReturnAt, LastCall, RuntimeFrame

(* A step that proceeds keeps the types, *)
LEMMA ShapeStep ==
  ASSUME Shape, Proceed, pc # LastCall,
         reg' \in [Names -> Int], mem' \in [Addr -> Int], DOMAIN data' = DOMAIN data
  PROVE  Shape'
<1>1. test' = test /\ code' = code /\ pc' = pc + 1
  BY DEF Proceed
<1>2. pc + 1 \in 1 .. LastCall
  <2>1. pc \in Nat /\ 1 <= pc /\ pc <= LastCall /\ LastCall \in Nat
    BY Parts
  <2> QED  BY <2>1
<1>3. LastCall' = LastCall /\ layout' = layout
  BY <1>1, SameTest
<1> QED  BY <1>1, <1>2, <1>3 DEF Shape

(* the stack pointer outside the pushes and pops, *)
LEMMA StackPointerStep ==
  ASSUME Shape, StackPointer, Proceed, pc \notin 1 .. 6, pc \notin 11 .. 16, rsp' = rsp
  PROVE  StackPointer'
<1>1. test' = test /\ pc' = pc + 1 /\ pc \in Nat /\ 1 <= pc /\ BodyAt = 17 /\ BodyAt' = 17
  BY Parts, SameTest DEF Proceed
<1>2. stack_boundary(test.fp) \in Nat
  BY TestFacts, FrameFacts
<1> DEFINE b == stack_boundary(test.fp)
<1>3. /\ stack_boundary(test.fp)' = b /\ b \in Nat
      /\ rsp = IF pc <= 7 THEN b - pc ELSE IF pc <= 11 THEN b - 7
                ELSE IF pc <= 17 THEN b - 7 + (pc - 11) ELSE b - 1
  BY <1>1, <1>2 DEF StackPointer, stack_boundary
<1>4. StackPointer' <=>
         rsp' = IF pc' <= 7 THEN b - pc' ELSE IF pc' <= 11 THEN b - 7
                ELSE IF pc' <= 17 THEN b - 7 + (pc' - 11) ELSE b - 1
  BY <1>1, <1>3 DEF StackPointer
<1> HIDE DEF b
<1> QED  BY <1>1, <1>3, <1>4

(* Where movabs and calls stand. *)
LEMMA Elsewhere ==
  ASSUME Shape
  PROVE  /\ code[pc].op # "movabs" =>
               pc \notin {7, 8, 9, UnprotectAt, UnprotectAt + 1, UnprotectAt + 2}
         /\ code[pc].op # "call" => pc # 10 /\ pc # UnprotectAt + 3 /\ pc # LastCall
<1> DEFINE o == code[pc].op
<1>1. \/ pc \in 1 .. 6
      \/ pc \in {7, 8, 9, DumpAt, UnprotectAt, UnprotectAt + 1, UnprotectAt + 2, ReturnAt,
                 ReturnAt + 1} /\ o = "movabs"
      \/ pc \in {10, UnprotectAt + 3, LastCall} /\ o = "call"
      \/ pc \in 11 .. 16
      \/ pc \in 17 .. DumpAt - 1
      \/ pc \in DumpAt + 1 .. UnprotectAt - 1
  BY CodeAt, Fields DEF BodyAt
<1> HIDE DEF o
<1>2. /\ DumpAt \in Nat /\ UnprotectAt \in Nat /\ 17 <= DumpAt /\ DumpAt < UnprotectAt
      /\ ReturnAt = UnprotectAt + 4 /\ LastCall = UnprotectAt + 6
  BY Parts
<1>3. /\ o # "movabs" => pc \notin {7, 8, 9, UnprotectAt, UnprotectAt + 1, UnprotectAt + 2}
      /\ o # "call" => pc # 10 /\ pc # UnprotectAt + 3 /\ pc # LastCall
  BY <1>1, <1>2
<1> QED  BY <1>3 DEF o

(* the arguments of mprotect, which only movabs sets up, *)
LEMMA MprotectArgumentsStep ==
  ASSUME Shape, Proceed, code[pc].op # "movabs"
  PROVE  MprotectArguments'
<1>1. \A start \in {BodyAt - 10, UnprotectAt} : pc + 1 \notin start + 1 .. start + 3
  <2>1. pc \notin {7, 8, 9, UnprotectAt, UnprotectAt + 1, UnprotectAt + 2}
    BY Elsewhere
  <2>2. UnprotectAt \in Nat /\ BodyAt - 10 = 7 /\ pc \in Nat
    BY Parts
  <2>3. \A start \in Nat : pc \notin {start, start + 1, start + 2} =>
                             pc + 1 \notin start + 1 .. start + 3
    BY <2>2
  <2> QED  BY <2>1, <2>2, <2>3
<1>2. pc' = pc + 1 /\ BodyAt' = BodyAt /\ UnprotectAt' = UnprotectAt
  BY SameTest DEF Proceed
<1>3. \A start \in {BodyAt - 10, UnprotectAt} : start + 3 \in start + 1 .. start + 3
                                      /\ start + 2 .. start + 3 \subseteq start + 1 .. start + 3
  BY Parts
<1> QED  BY <1>1, <1>2, <1>3 DEF MprotectArguments

(* the protection, which only calls change, *)
LEMMA FrameReadonlyStep ==
  ASSUME Shape, FrameReadonly, Proceed, code[pc].op # "call", readonly' = readonly
  PROVE  FrameReadonly'
<1>1. pc # 10 /\ pc # UnprotectAt + 3
  BY Elsewhere
<1>2. pc \in 11 .. UnprotectAt + 3 <=> pc + 1 \in 11 .. UnprotectAt + 3
  <2>1. pc \in Nat /\ UnprotectAt \in Nat /\ UnprotectAt > 17
    BY Parts
  <2> QED  BY <1>1, <2>1
<1>3. pc' = pc + 1 /\ UnprotectAt' = UnprotectAt /\ test' = test
  BY SameTest DEF Proceed
<1> QED  BY <1>2, <1>3 DEF FrameReadonly

(* and the frame, if it writes elsewhere. *)
LEMMA FrameUntouchedStep ==
  ASSUME Shape, FrameUntouched, Proceed, NEW at \in Addr, NEW v,
         mem' = [mem EXCEPT ![at] = v], test.fp = test.first => at \notin RuntimeFrame
  PROVE  FrameUntouched'
<1>1. test' = test /\ RuntimeFrame' = RuntimeFrame
  BY SameTest DEF Proceed
<1>2. SUFFICES ASSUME test.fp = test.first, NEW a \in RuntimeFrame PROVE mem'[a] = EntryMem[a]
  BY <1>1 DEF FrameUntouched
<1>3. mem[a] = EntryMem[a] /\ a # at
  BY <1>2 DEF FrameUntouched
<1>4. a \in Addr
  <2>1. /\ test.fp \in Nat /\ test.fp < StackTop
        /\ stack_boundary(test.fp) \in Nat /\ stack_boundary(test.fp) < test.fp - Locals
    BY TestFacts, FrameFacts
  <2>2. Locals \in Nat /\ StackTop \in Nat /\ HeapSize \in Nat
    BY InstrumenterAssumption
  <2> QED  BY <2>1, <2>2 DEF RuntimeFrame, Addr
<1> QED  BY <1>3, <1>4 DEF Shape

(* The server's frame lies in pages that are protected as a whole. *)
LEMMA RuntimeFrameProtected ==
  ASSUME Shape, test.fp = test.first
  PROVE  RuntimeFrame \subseteq Protected(test.first)
<1>1. /\ test.first \in Nat /\ frame_begin(test.first) \in Int
      /\ frame_begin(test.first) < test.first - Locals
      /\ test.first <= align(test.first, PageSize) /\ align(test.first, PageSize) \in Int
  BY TestFacts, FrameFacts
<1>2. Locals \in Nat
  BY InstrumenterAssumption
<1> QED  BY <1>1, <1>2 DEF RuntimeFrame, Protected

(* The stack pointer stays below the frame and in the stack. *)
LEMMA StackAddress ==
  ASSUME Shape, StackPointer
  PROVE  /\ rsp \in Addr /\ rsp - 1 \in Addr
         /\ rsp - 1 \notin RuntimeFrame /\ rsp - 1 < test.fp - Locals
         /\ rsp - 1 < frame_begin(test.fp) /\ rsp < frame_begin(test.fp)
<1> DEFINE b == stack_boundary(test.fp)
<1>1. /\ b \in Nat /\ b >= 8 /\ b < test.fp - Locals /\ test.fp \in Nat /\ test.fp < StackTop
      /\ b <= frame_begin(test.fp) /\ frame_begin(test.fp) \in Int
  BY TestFacts, FrameFacts
<1>2. rsp \in b - 7 .. b - 1
  <2>1. /\ rsp = IF pc <= 7 THEN b - pc ELSE IF pc <= 11 THEN b - 7
                ELSE IF pc <= 17 THEN b - 7 + (pc - 11) ELSE b - 1
        /\ pc \in Nat /\ 1 <= pc
    BY Parts DEF StackPointer
  <2> HIDE DEF b
  <2> QED  BY <1>1, <2>1
<1>3. Locals \in Nat /\ StackTop \in Nat /\ HeapSize \in Nat
  BY InstrumenterAssumption
<1> HIDE DEF b
<1> QED  BY <1>1, <1>2, <1>3 DEF Addr, RuntimeFrame

(* FrameInv holds when the rewrite is called, *)
LEMMA FrameInvInit == Init => FrameInv
<1> SUFFICES ASSUME Init PROVE FrameInv
  OBVIOUS
<1>1. test \in Tests
  BY DEF Init, Tests
<1>2. /\ Len(test.rewrite) \in Nat /\ Len(layout) \in Nat /\ test.fp \in FramePointers
  <2>1. test.type \in ReturnTypes /\ test.rewrite \in Rewrites /\ test.fp \in FramePointers
    BY <1>1 DEF Tests
  <2>2. getReturnRegs(test.type) \in Seq(Registers) /\ test.rewrite \in Seq(Instructions)
    BY <2>1, ReturnRegsFacts, BodyAssumption
  <2>3. layout \in Seq(RegInfos)
    BY <2>2, LayoutFacts DEF layout
  <2> QED  BY <2>1, <2>2, <2>3, LenProperties
<1>3. BodyAt = 17 /\ UnprotectAt \in Nat /\ UnprotectAt > 17 /\ 1 \in 1 .. LastCall
  BY <1>2 DEF BodyAt, DumpAt, UnprotectAt, ReturnAt, LastCall
<1>4. Shape
  <2>1. EntryRegs \in [Names -> Int]
    BY NamesAre DEF EntryRegs
  <2>2. EntryMem \in [Addr -> Int]
    BY DEF EntryMem
  <2> QED  BY <1>1, <1>3, <2>1, <2>2 DEF Init, Shape
<1>5. StackPointer
  BY DEF Init, StackPointer
<1>6. MprotectArguments
  BY <1>3 DEF Init, MprotectArguments
<1>7. FrameReadonly
  BY DEF Init, FrameReadonly
<1>8. FrameUntouched
  BY DEF Init, FrameUntouched
<1> QED  BY <1>4, <1>5, <1>6, <1>7, <1>8 DEF FrameInv

(* and a step of the rewrite in registers keeps it, *)
LEMMA MovKeepsFrame ==
  ASSUME FrameInv, mov
  PROVE  FrameInv'
<1>1. /\ Shape /\ StackPointer /\ FrameReadonly /\ FrameUntouched
      /\ Proceed /\ code[pc].op = "mov" /\ rsp' = rsp /\ mem' = mem /\ readonly' = readonly
      /\ data' = data
  BY DEF FrameInv, mov, Next_is
<1>2. /\ pc \in BodyAt .. DumpAt - 1 /\ code[pc] = test.rewrite[pc - 16]
      /\ test.rewrite[pc - 16] \in Instructions /\ 17 <= pc /\ pc < DumpAt
      /\ pc # LastCall
  BY <1>1, BodyOp, Parts, SMTT(30)
<1>3. code[pc].src \in Names /\ code[pc].dst \in Names
  BY <1>1, <1>2, InstructionCases
<1>4. reg' \in [Names -> Int] /\ mem' \in [Addr -> Int]
  <2>1. reg' = [reg EXCEPT ![code[pc].dst] = reg[code[pc].src]]
    BY DEF mov
  <2> QED  BY <1>1, <1>3, <2>1 DEF Shape
<1>5. Shape'
  BY <1>1, <1>2, <1>4, ShapeStep
<1>6. StackPointer'
  BY <1>1, <1>2, StackPointerStep, Parts
<1>7. MprotectArguments'
  BY <1>1, MprotectArgumentsStep
<1>8. FrameReadonly'
  BY <1>1, FrameReadonlyStep
<1>9. FrameUntouched'
  BY <1>1, SameTest DEF Proceed, FrameUntouched
<1> QED  BY <1>5, <1>6, <1>7, <1>8, <1>9 DEF FrameInv

(* as does a store, which faults in a protected page, *)
LEMMA StoreKeepsFrame ==
  ASSUME FrameInv, store
  PROVE  FrameInv'
<1>1. /\ Shape /\ StackPointer /\ FrameReadonly /\ FrameUntouched
      /\ Proceed /\ code[pc].op = "store" /\ rsp' = rsp /\ reg' = reg /\ readonly' = readonly
      /\ data' = data /\ ~Faults /\ mem' = [mem EXCEPT ![code[pc].at] = reg[code[pc].src]]
  BY DEF FrameInv, store, Next_is
<1>2. /\ pc \in BodyAt .. DumpAt - 1 /\ code[pc] = test.rewrite[pc - 16]
      /\ test.rewrite[pc - 16] \in Instructions /\ 17 <= pc /\ pc < DumpAt
      /\ pc # LastCall /\ pc \in 11 .. UnprotectAt + 3 /\ pc \notin 1 .. 6 /\ pc \notin 11 .. 16
  <2>1. /\ pc \in BodyAt .. DumpAt - 1 /\ code[pc] = test.rewrite[pc - 16]
        /\ test.rewrite[pc - 16] \in Instructions
    BY <1>1, BodyOp
  <2>2. 17 <= pc /\ pc < DumpAt /\ DumpAt \in Nat /\ pc \in Nat
    BY <1>1, <2>1, Parts
  <2>3. UnprotectAt \in Nat /\ DumpAt < UnprotectAt /\ LastCall = UnprotectAt + 6
    BY <1>1, Parts
  <2> QED  BY <2>1, <2>2, <2>3
<1>3. code[pc].src \in Names /\ code[pc].at \in Addr
  BY <1>1, <1>2, InstructionCases
<1>4. reg' \in [Names -> Int] /\ mem' \in [Addr -> Int]
  BY <1>1, <1>3 DEF Shape
<1>5. code[pc].at \notin Protected(test.first)
  BY <1>1, <1>2 DEF Faults, Written, FrameReadonly
<1>6. Shape'
  BY <1>1, <1>2, <1>4, ShapeStep
<1>7. StackPointer'
  BY <1>1, <1>2, StackPointerStep
<1>8. MprotectArguments'
  BY <1>1, MprotectArgumentsStep
<1>9. FrameReadonly'
  BY <1>1, FrameReadonlyStep
<1>10. FrameUntouched'
  <2>1. test.fp = test.first => code[pc].at \notin RuntimeFrame
    BY <1>1, <1>5, RuntimeFrameProtected
  <2> QED  BY <1>1, <1>3, <2>1, FrameUntouchedStep
<1> QED  BY <1>6, <1>7, <1>8, <1>9, <1>10 DEF FrameInv

(* a constant loaded, where the arguments of mprotect are set up, *)
LEMMA MovabsKeepsFrame ==
  ASSUME FrameInv, movabs
  PROVE  FrameInv'
<1>1. /\ Shape /\ StackPointer /\ MprotectArguments /\ FrameReadonly /\ FrameUntouched
      /\ Proceed /\ code[pc].op = "movabs" /\ rsp' = rsp /\ mem' = mem /\ readonly' = readonly
      /\ data' = data /\ reg' = [reg EXCEPT ![code[pc].dst] = code[pc].imm]
  BY DEF FrameInv, movabs, Next_is
<1>2. \/ pc = 7 /\ code[pc] = Movabs("RDI", frame_begin(test.first))
      \/ pc = 8 /\ code[pc] = Movabs("RSI", frame_size(test.first))
      \/ pc = 9 /\ code[pc] = Movabs("RDX", PROT_READ)
      \/ pc = DumpAt /\ code[pc] = Movabs(FreeReg, Buffer)
      \/ pc = UnprotectAt /\ code[pc] = Movabs("RDI", frame_begin(test.first))
      \/ pc = UnprotectAt + 1 /\ code[pc] = Movabs("RSI", frame_size(test.first))
      \/ pc = UnprotectAt + 2 /\ code[pc] = Movabs("RDX", PROT_READ + PROT_WRITE)
      \/ pc = ReturnAt /\ code[pc] = Movabs("RDI", 0)
      \/ pc = ReturnAt + 1 /\ code[pc] = Movabs("RSI", 42)
  BY <1>1, MovabsAt
<1>3. /\ BodyAt = 17 /\ DumpAt \in Nat /\ UnprotectAt \in Nat
      /\ 17 <= DumpAt /\ DumpAt < UnprotectAt
      /\ ReturnAt = UnprotectAt + 4 /\ LastCall = UnprotectAt + 6 /\ pc \in Nat
  BY <1>1, Parts
<1>4. pc # LastCall /\ pc \notin 1 .. 6 /\ pc \notin 11 .. 16
  BY <1>2, <1>3
<1>5. code[pc].dst \in Names /\ code[pc].imm \in Int
  <2>1. frame_begin(test.first) \in Int /\ frame_size(test.first) \in Int
    BY <1>1, TestFacts, FrameFacts
  <2>2. PROT_READ \in Int /\ PROT_READ + PROT_WRITE \in Int /\ Buffer \in Int
    BY DEF PROT_READ, PROT_WRITE, Buffer
  <2>3. "RDI" \in Names /\ "RSI" \in Names /\ "RDX" \in Names /\ FreeReg \in Names
    BY NamesAre DEF FreeReg
  <2> QED  BY <1>2, <2>1, <2>2, <2>3, Fields
<1>6. reg' \in [Names -> Int] /\ mem' \in [Addr -> Int]
  BY <1>1, <1>5 DEF Shape
<1>7. Shape'
  BY <1>1, <1>4, <1>6, ShapeStep
<1>8. StackPointer'
  BY <1>1, <1>4, StackPointerStep
<1>9. MprotectArguments'
  <2>1. /\ pc' = pc + 1 /\ BodyAt' = 17 /\ UnprotectAt' = UnprotectAt /\ test' = test
    BY <1>1, <1>3, SameTest DEF Proceed
  <2>2. reg \in [Names -> Int] /\ {"RDI", "RSI", "RDX"} \subseteq Names
    BY <1>1, NamesAre DEF Shape
  <2> SUFFICES ASSUME NEW start \in {7, UnprotectAt}
               PROVE  /\ pc + 1 \in start + 1 .. start + 3 => reg'["RDI"] = frame_begin(test.first)
                      /\ pc + 1 \in start + 2 .. start + 3 => reg'["RSI"] = frame_size(test.first)
                      /\ pc + 1 = start + 3 =>
                            reg'["RDX"] = IF start = UnprotectAt THEN PROT_READ + PROT_WRITE
                                          ELSE PROT_READ
    BY <2>1 DEF MprotectArguments
  <2>3. /\ pc \in start + 1 .. start + 3 => reg["RDI"] = frame_begin(test.first)
        /\ pc \in start + 2 .. start + 3 => reg["RSI"] = frame_size(test.first)
    BY <1>1, <1>3 DEF MprotectArguments
  <2>4. start \in Nat /\ start + 3 \in Nat
    BY <1>3
  <2>5. CASE pc + 1 \notin start + 1 .. start + 3
    <3>1. pc + 1 \notin start + 2 .. start + 3 /\ pc + 1 # start + 3
      BY <1>3, <2>4, <2>5
    <3> QED  BY <2>5, <3>1
  <2>6. CASE pc = start
    <3>1. code[pc].dst = "RDI" /\ code[pc].imm = frame_begin(test.first)
      BY <1>2, <1>3, <2>6, Fields
    <3>2. pc + 1 \notin start + 2 .. start + 3 /\ pc + 1 # start + 3
      BY <1>3, <2>4, <2>6
    <3>3. reg'["RDI"] = frame_begin(test.first)
      BY <1>1, <2>2, <3>1
    <3> QED  BY <3>2, <3>3
  <2>7. CASE pc = start + 1
    <3>1. code[pc].dst = "RSI" /\ code[pc].imm = frame_size(test.first)
      BY <1>2, <1>3, <2>7, Fields
    <3>2. pc + 1 # start + 3 /\ pc \in start + 1 .. start + 3
      BY <1>3, <2>4, <2>7
    <3>3. reg'["RSI"] = frame_size(test.first) /\ reg'["RDI"] = reg["RDI"]
      BY <1>1, <2>2, <3>1
    <3> QED  BY <2>3, <3>2, <3>3
  <2>8. CASE pc = start + 2
    <3>1. code[pc].dst = "RDX"
          /\ code[pc].imm = IF start = UnprotectAt THEN PROT_READ + PROT_WRITE ELSE PROT_READ
      BY <1>2, <1>3, <2>8, Fields
    <3>2. pc \in start + 1 .. start + 3 /\ pc \in start + 2 .. start + 3
      BY <1>3, <2>4, <2>8
    <3>3. reg'["RSI"] = reg["RSI"] /\ reg'["RDI"] = reg["RDI"] /\ reg'["RDX"] = code[pc].imm
      BY <1>1, <2>2, <3>1
    <3> QED  BY <2>3, <3>1, <3>2, <3>3
  <2>9. pc + 1 \notin start + 1 .. start + 3 \/ pc = start \/ pc = start + 1 \/ pc = start + 2
    BY <1>3, <2>4
  <2> QED  BY <2>5, <2>6, <2>7, <2>8, <2>9
<1>10. FrameReadonly'
  BY <1>1, FrameReadonlyStep
<1>11. FrameUntouched'
  BY <1>1, SameTest DEF Proceed, FrameUntouched
<1> QED  BY <1>7, <1>8, <1>9, <1>10, <1>11 DEF FrameInv

(* a push, below the frame, *)
LEMMA PushKeepsFrame ==
  ASSUME FrameInv, push
  PROVE  FrameInv'
<1>1. /\ Shape /\ StackPointer /\ FrameReadonly /\ FrameUntouched
      /\ Proceed /\ code[pc].op = "push" /\ rsp' = rsp - 1 /\ reg' = reg /\ readonly' = readonly
      /\ data' = data /\ mem' = [mem EXCEPT ![rsp - 1] = reg[code[pc].src]]
  BY DEF FrameInv, push, Next_is
<1>2. pc \in 1 .. 6 /\ code[pc].src = ArgumentRegs[pc]
  BY <1>1, PushAt
<1>3. pc # LastCall
  BY <1>1, <1>2, Parts
<1>4. rsp - 1 \in Addr /\ rsp - 1 \notin RuntimeFrame
  BY <1>1, StackAddress
<1>5. code[pc].src \in Names
  BY <1>2, PushesFacts
<1>6. reg' \in [Names -> Int] /\ mem' \in [Addr -> Int]
  BY <1>1, <1>4, <1>5 DEF Shape
<1>7. Shape'
  BY <1>1, <1>3, <1>6, ShapeStep
<1>8. StackPointer'
  <2>1. stack_boundary(test.fp) \in Nat
    BY <1>1, TestFacts, FrameFacts
  <2>2. test' = test /\ pc' = pc + 1
    BY <1>1 DEF Proceed
  <2>3. rsp = stack_boundary(test.fp) - pc
    BY <1>1, <1>2 DEF StackPointer
  <2>4. pc + 1 <= 7
    BY <1>2
  <2>5. rsp' = stack_boundary(test.fp) - (pc + 1)
    BY <1>1, <1>2, <2>1, <2>3
  <2> QED  BY <2>2, <2>4, <2>5 DEF StackPointer
<1>9. MprotectArguments'
  BY <1>1, MprotectArgumentsStep
<1>10. FrameReadonly'
  BY <1>1, FrameReadonlyStep
<1>11. FrameUntouched'
  BY <1>1, <1>4, FrameUntouchedStep
<1> QED  BY <1>7, <1>8, <1>9, <1>10, <1>11 DEF FrameInv

(* a pop, *)
LEMMA PopKeepsFrame ==
  ASSUME FrameInv, pop
  PROVE  FrameInv'
<1>1. /\ Shape /\ StackPointer /\ FrameReadonly /\ FrameUntouched
      /\ Proceed /\ code[pc].op = "pop" /\ rsp' = rsp + 1 /\ mem' = mem /\ readonly' = readonly
      /\ data' = data /\ reg' = [reg EXCEPT ![code[pc].dst] = mem[rsp]]
  BY DEF FrameInv, pop, Next_is
<1>2. pc \in 11 .. 16 /\ code[pc].dst = ArgumentRegs[17 - pc]
  BY <1>1, PopAt
<1>3. pc # LastCall
  BY <1>1, <1>2, Parts
<1>4. rsp \in Addr
  BY <1>1, StackAddress
<1>5. code[pc].dst \in Names
  <2>1. 17 - pc \in 1 .. 6
    BY <1>2
  <2> QED  BY <1>2, <2>1, PushesFacts
<1>6. reg' \in [Names -> Int] /\ mem' \in [Addr -> Int]
  BY <1>1, <1>4, <1>5 DEF Shape
<1>7. Shape'
  BY <1>1, <1>3, <1>6, ShapeStep
<1>8. StackPointer'
  <2>1. stack_boundary(test.fp) \in Nat
    BY <1>1, TestFacts, FrameFacts
  <2>2. test' = test /\ pc' = pc + 1 /\ BodyAt = 17 /\ BodyAt' = 17
    BY <1>1, Parts, SameTest DEF Proceed
  <2>3. ~ (pc <= 7) /\ pc <= 17 /\ (pc <= 11 => pc - 11 = 0)
    BY <1>2
  <2>4. rsp = stack_boundary(test.fp) - 7 + (pc - 11)
    BY <1>1, <2>1, <2>2, <2>3 DEF StackPointer
  <2>5. rsp' = stack_boundary(test.fp) - 7 + ((pc + 1) - 11)
    BY <1>1, <1>2, <2>1, <2>4
  <2>6. ~ (pc + 1 <= 7) /\ ~ (pc + 1 <= 11) /\ pc + 1 <= 17
    BY <1>2
  <2> QED  BY <2>2, <2>5, <2>6 DEF StackPointer
<1>9. MprotectArguments'
  BY <1>1, MprotectArgumentsStep
<1>10. FrameReadonly'
  BY <1>1, FrameReadonlyStep
<1>11. FrameUntouched'
  BY <1>1, SameTest DEF Proceed, FrameUntouched
<1> QED  BY <1>7, <1>8, <1>9, <1>10, <1>11 DEF FrameInv

(* a register dumped, *)
LEMMA StoreRegKeepsFrame ==
  ASSUME FrameInv, storeReg
  PROVE  FrameInv'
<1>1. /\ Shape /\ StackPointer /\ FrameReadonly /\ FrameUntouched
      /\ Proceed /\ code[pc].op = "storeReg" /\ rsp' = rsp /\ mem' = mem /\ readonly' = readonly
      /\ reg' = reg /\ DOMAIN data' = DOMAIN data
  BY DEF FrameInv, storeReg, Next_is
<1>2. pc \in DumpAt + 1 .. UnprotectAt - 1
  BY <1>1, StoreRegAt
<1>3. pc # LastCall /\ pc \notin 1 .. 6 /\ pc \notin 11 .. 16
  <2>1. /\ DumpAt \in Nat /\ UnprotectAt \in Nat /\ 17 <= DumpAt /\ LastCall = UnprotectAt + 6
    BY <1>1, Parts
  <2> QED  BY <1>2, <2>1
<1>4. reg' \in [Names -> Int] /\ mem' \in [Addr -> Int]
  BY <1>1 DEF Shape
<1>5. Shape'
  BY <1>1, <1>3, <1>4, ShapeStep
<1>6. StackPointer'
  BY <1>1, <1>3, StackPointerStep
<1>7. MprotectArguments'
  BY <1>1, MprotectArgumentsStep
<1>8. FrameReadonly'
  BY <1>1, FrameReadonlyStep
<1>9. FrameUntouched'
  BY <1>1, SameTest DEF Proceed, FrameUntouched
<1> QED  BY <1>5, <1>6, <1>7, <1>8, <1>9 DEF FrameInv

(* a call of mprotect, which covers the pages of the frame exactly, *)
LEMMA MprotectKeepsFrame ==
  ASSUME FrameInv, NEW junk \in Junk, mprotect(junk)
  PROVE  FrameInv'
<1> DEFINE pages == reg["RDI"] .. align(reg["RDI"] + reg["RSI"], PageSize) - 1
<1>1. /\ Shape /\ StackPointer /\ MprotectArguments /\ FrameReadonly /\ FrameUntouched
      /\ Proceed /\ code[pc].op = "call" /\ code[pc].function = "mprotect"
      /\ rsp' = rsp /\ data' = data /\ mem' = [mem EXCEPT ![rsp - 1] = junk]
      /\ reg' = [r \in DOMAIN reg |-> junk]
      /\ readonly' = IF reg["RDI"] % PageSize # 0 THEN readonly
                     ELSE IF reg["RDX"] = PROT_READ THEN readonly \cup pages
                     ELSE readonly \ pages
  BY DEF FrameInv, mprotect, Next_is
<1> HIDE DEF pages
<1>2. pc \in {10, UnprotectAt + 3}
  BY <1>1, CallAt
<1>3. /\ BodyAt = 17 /\ UnprotectAt \in Nat /\ UnprotectAt > 17 /\ LastCall = UnprotectAt + 6
  BY <1>1, Parts
<1>4. pc # LastCall /\ pc \notin 1 .. 6 /\ pc \notin 11 .. 16
  BY <1>2, <1>3
<1>5. rsp - 1 \in Addr /\ rsp - 1 \notin RuntimeFrame
  BY <1>1, StackAddress
<1>6. reg' \in [Names -> Int] /\ mem' \in [Addr -> Int]
  <2>1. junk \in Int
    BY InstrumenterAssumption
  <2> QED  BY <1>1, <1>5, <2>1 DEF Shape
<1>7. Shape'
  BY <1>1, <1>4, <1>6, ShapeStep
<1>8. StackPointer'
  BY <1>1, <1>4, StackPointerStep
<1>9. MprotectArguments'
  BY <1>1, MprotectArgumentsStep
<1>10. FrameReadonly'
  <2>1. /\ reg["RDI"] = frame_begin(test.first) /\ reg["RSI"] = frame_size(test.first)
        /\ pc = 10 => reg["RDX"] = PROT_READ
        /\ pc # 10 => reg["RDX"] = PROT_READ + PROT_WRITE
    <3> DEFINE start == pc - 3
    <3>1. /\ start \in {BodyAt - 10, UnprotectAt} /\ pc = start + 3
          /\ pc \in start + 1 .. start + 3 /\ pc \in start + 2 .. start + 3
          /\ (start = UnprotectAt <=> pc # 10)
      BY <1>2, <1>3
    <3> HIDE DEF start
    <3>2. /\ reg["RDI"] = frame_begin(test.first) /\ reg["RSI"] = frame_size(test.first)
          /\ reg["RDX"] = IF start = UnprotectAt THEN PROT_READ + PROT_WRITE ELSE PROT_READ
      BY <1>1, <3>1 DEF MprotectArguments
    <3> QED  BY <3>1, <3>2
  <2>2. /\ frame_begin(test.first) % PageSize = 0
        /\ frame_begin(test.first) + frame_size(test.first) = test.first
    BY <1>1, TestFacts, FrameFacts
  <2>3. pages = Protected(test.first)
    BY <2>1, <2>2 DEF pages, Protected
  <2>4. test' = test /\ pc' = pc + 1 /\ UnprotectAt' = UnprotectAt
    BY <1>1, SameTest DEF Proceed
  <2>5. PROT_READ # PROT_READ + PROT_WRITE
    BY DEF PROT_READ, PROT_WRITE
  <2>6. CASE pc = 10
    <3>1. readonly = {}
      BY <1>1, <1>3, <2>6 DEF FrameReadonly
    <3>2. readonly' = Protected(test.first)
      BY <1>1, <2>1, <2>2, <2>3, <2>6, <3>1
    <3>3. pc + 1 \in 11 .. UnprotectAt + 3
      BY <1>3, <2>6
    <3> QED  BY <2>4, <3>2, <3>3 DEF FrameReadonly
  <2>7. CASE pc = UnprotectAt + 3
    <3>1. pc \in 11 .. UnprotectAt + 3 /\ pc # 10 /\ pc + 1 \notin 11 .. UnprotectAt + 3
      BY <1>3, <2>7
    <3>2. readonly = Protected(test.first)
      BY <1>1, <3>1 DEF FrameReadonly
    <3>3. readonly' = {}
      BY <1>1, <2>1, <2>2, <2>3, <2>5, <3>1, <3>2
    <3> QED  BY <2>4, <3>1, <3>3 DEF FrameReadonly
  <2> QED  BY <1>2, <2>6, <2>7
<1>11. FrameUntouched'
  BY <1>1, <1>5, FrameUntouchedStep
<1> QED  BY <1>7, <1>8, <1>9, <1>10, <1>11 DEF FrameInv

(* and what leaves the machine alone. *)
LEMMA StillKeepsFrame ==
  ASSUME FrameInv, UNCHANGED <<test, code, pc, machine>>
  PROVE  FrameInv'
<1>1. /\ Shape /\ StackPointer /\ MprotectArguments /\ FrameReadonly /\ FrameUntouched
      /\ test' = test /\ code' = code /\ pc' = pc /\ reg' = reg /\ rsp' = rsp /\ mem' = mem
      /\ readonly' = readonly /\ data' = data
  BY DEF FrameInv, machine
<1>2. /\ layout' = layout /\ BodyAt' = BodyAt
      /\ UnprotectAt' = UnprotectAt /\ LastCall' = LastCall /\ RuntimeFrame' = RuntimeFrame
  BY <1>1, SameTest
<1>3. Shape'
  BY <1>1, <1>2 DEF Shape
<1>4. StackPointer'
  BY <1>1, <1>2 DEF StackPointer
<1>5. MprotectArguments'
  BY <1>1, <1>2 DEF MprotectArguments
<1>6. FrameReadonly'
  BY <1>1, <1>2 DEF FrameReadonly
<1>7. FrameUntouched'
  BY <1>1, <1>2 DEF FrameUntouched
<1> QED  BY <1>3, <1>4, <1>5, <1>6, <1>7 DEF FrameInv

(* FrameInv is inductive. *)
LEMMA FrameInvStep ==
  ASSUME FrameInv, [Next]_vars
  PROVE  FrameInv'
<1>1. CASE mov
  BY <1>1, MovKeepsFrame
<1>2. CASE movabs
  BY <1>2, MovabsKeepsFrame
<1>3. CASE store
  BY <1>3, StoreKeepsFrame
<1>4. CASE push
  BY <1>4, PushKeepsFrame
<1>5. CASE pop
  BY <1>5, PopKeepsFrame
<1>6. CASE storeReg
  BY <1>6, StoreRegKeepsFrame
<1>7. CASE \E junk \in Junk : mprotect(junk)
  BY <1>7, MprotectKeepsFrame
<1>8. CASE siglongjmp
  BY <1>8, StillKeepsFrame DEF siglongjmp
<1>9. CASE crash
  BY <1>9, StillKeepsFrame DEF crash, Crash
<1>10. CASE UNCHANGED vars
  BY <1>10, StillKeepsFrame DEF vars
<1> QED
  BY <1>1, <1>2, <1>3, <1>4, <1>5, <1>6, <1>7, <1>8, <1>9, <1>10 DEF Next

(* For every size of page and frame, every rewrite and every place of the frame *)
(* but those the code was not made for: a rewrite never changes the words in *)
(* which spawn_impl goes on after siglongjmp (mf_instrument.cpp, protectRTFrame). *)
THEOREM RuntimeFrameKeptAlways == Spec => []RuntimeFrameKept
<1>1. Init => FrameInv
  BY FrameInvInit
<1>2. FrameInv /\ [Next]_vars => FrameInv'
  BY FrameInvStep
<1>3. FrameInv => RuntimeFrameKept
  BY DEF FrameInv, FrameUntouched, RuntimeFrameKept
<1> QED  BY <1>1, <1>2, <1>3, PTL DEF Spec

-------------------------------------------------------------------------------
(* What reaches the rewrite, what it does, and what is dumped.             *)

(* A step goes on by one instruction, or leaves the machine alone. *)
LEMMA StepKinds ==
  ASSUME [Next]_vars
  PROVE  /\ test' = test /\ code' = code
         /\ \/ mov \/ movabs \/ store \/ push \/ pop \/ storeReg
            \/ \E junk \in Junk : mprotect(junk)
            \/ UNCHANGED <<pc, machine>>
         /\ Proceed \/ UNCHANGED <<pc, machine>>
<1>1. CASE mov
  BY <1>1 DEF mov, Proceed
<1>2. CASE movabs
  BY <1>2 DEF movabs, Proceed
<1>3. CASE store
  BY <1>3 DEF store, Proceed
<1>4. CASE push
  BY <1>4 DEF push, Proceed
<1>5. CASE pop
  BY <1>5 DEF pop, Proceed
<1>6. CASE storeReg
  BY <1>6 DEF storeReg, Proceed
<1>7. CASE \E junk \in Junk : mprotect(junk)
  BY <1>7 DEF mprotect, Proceed
<1>8. CASE siglongjmp
  <2>1. UNCHANGED <<test, code, pc, machine>>
    BY <1>8 DEF siglongjmp
  <2> QED  BY <2>1
<1>9. CASE crash
  <2>1. UNCHANGED <<test, code, pc, machine>>
    BY <1>9 DEF crash, Crash
  <2> QED  BY <2>1
<1>10. CASE UNCHANGED vars
  BY <1>10 DEF vars
<1> QED
  BY <1>1, <1>2, <1>3, <1>4, <1>5, <1>6, <1>7, <1>8, <1>9, <1>10 DEF Next

(* The arguments survive the first call of mprotect on the stack. *)
LEMMA ArgumentsKeptStep ==
  ASSUME FrameInv, ArgumentsKept, [Next]_vars
  PROVE  ArgumentsKept'
<1> DEFINE b == stack_boundary(test.fp)
           slot(i) == b - 1 - i
<1>1. /\ Shape /\ StackPointer /\ test' = test
      /\ BodyAt = 17 /\ BodyAt' = 17 /\ UnprotectAt > 17
      /\ DumpAt >= 17 /\ DumpAt \in Nat /\ UnprotectAt \in Nat /\ pc \in Nat /\ 1 <= pc
  BY StepKinds, SameTest, Parts DEF FrameInv
<1>2. b \in Nat /\ b >= 8 /\ b' = b
  BY <1>1, TestFacts, FrameFacts DEF stack_boundary
<1>3. /\ pc <= 7 => reg = EntryRegs
      /\ pc <= 17 => \A i \in 1 .. 6 : i < pc => mem[slot(i)] = EntryRegs[ArgumentRegs[i]]
      /\ pc <= 17 => \A i \in 1 .. 6 : pc >= 11 /\ i > 17 - pc =>
                        reg[ArgumentRegs[i]] = EntryRegs[ArgumentRegs[i]]
  BY <1>1 DEF ArgumentsKept
<1> SUFFICES
      /\ pc' <= 7 => reg' = EntryRegs
      /\ pc' <= 17 => \A i \in 1 .. 6 : i < pc' => mem'[slot(i)] = EntryRegs[ArgumentRegs[i]]
      /\ pc' <= 17 => \A i \in 1 .. 6 : pc' >= 11 /\ i > 17 - pc' =>
                        reg'[ArgumentRegs[i]] = EntryRegs[ArgumentRegs[i]]
  BY <1>1, <1>2 DEF ArgumentsKept
<1>4. CASE UNCHANGED <<pc, machine>>
  BY <1>3, <1>4 DEF machine
<1>5. CASE Proceed /\ pc >= 17
  BY <1>1, <1>5 DEF Proceed
<1>6. CASE push
  <2>1. /\ pc' = pc + 1 /\ code[pc].op = "push" /\ reg' = reg
        /\ mem' = [mem EXCEPT ![rsp - 1] = reg[code[pc].src]]
    BY <1>6 DEF push, Next_is, Proceed
  <2>2. pc \in 1 .. 6 /\ code[pc].src = ArgumentRegs[pc]
    BY <1>1, <2>1, PushAt
  <2>3. rsp - 1 = slot(pc) /\ rsp - 1 \in Addr
    <3>1. rsp = b - pc
      BY <2>2 DEF StackPointer, FrameInv
    <3> QED  BY <1>1, <1>2, <3>1, StackAddress
  <2>4. mem'[slot(pc)] = EntryRegs[ArgumentRegs[pc]]
    <3>1. mem \in [Addr -> Int]
      BY <1>1 DEF Shape
    <3> HIDE DEF slot
    <3> QED  BY <1>3, <2>1, <2>2, <2>3, <3>1
  <2>5. ASSUME NEW i \in 1 .. 6, i < pc PROVE mem'[slot(i)] = EntryRegs[ArgumentRegs[i]]
    <3>1. slot(i) # slot(pc)
      BY <1>1, <1>2, <2>5
    <3>2. mem'[slot(i)] = mem[slot(i)]
      <4> HIDE DEF slot
      <4>1. slot(i) # rsp - 1
        BY <2>3, <3>1
      <4>2. slot(i) \in Addr => mem'[slot(i)] = mem[slot(i)]
        BY <1>1, <2>1, <4>1 DEF Shape
      <4>3. slot(i) \in Addr
        <5>1. b < test.fp - Locals /\ test.fp \in Nat /\ test.fp < StackTop
          BY <1>1, TestFacts, FrameFacts
        <5>2. Locals \in Nat /\ StackTop \in Nat /\ HeapSize \in Nat
          BY InstrumenterAssumption
        <5> QED  BY <1>2, <5>1, <5>2 DEF Addr, slot
      <4> QED  BY <4>2, <4>3
    <3> QED  BY <1>1, <1>3, <2>2, <2>5, <3>2
  <2>6. \A i \in 1 .. 6 : i < pc + 1 => i < pc \/ i = pc
    BY <1>1
  <2>7. pc <= 7 /\ ~ (pc + 1 >= 11)
    BY <2>2
  <2> HIDE DEF slot
  <2> QED  BY <1>3, <2>1, <2>4, <2>5, <2>6, <2>7
<1>7. CASE movabs /\ pc < 17
  <2>1. pc' = pc + 1 /\ code[pc].op = "movabs" /\ mem' = mem
    BY <1>7 DEF movabs, Next_is, Proceed
  <2>2. pc \in {7, 8, 9}
    BY <1>1, <1>7, <2>1, MovabsAt, Parts
  <2>3. ~ (pc + 1 <= 7) /\ ~ (pc + 1 >= 11) /\ pc <= 17 /\ \A i \in 1 .. 6 : i < pc
    BY <2>2
  <2> HIDE DEF slot
  <2> QED  BY <1>3, <2>1, <2>3
<1>8. CASE (\E junk \in Junk : mprotect(junk)) /\ pc < 17
  <2>1. PICK junk \in Junk : mprotect(junk)
    BY <1>8
  <2>2. pc' = pc + 1 /\ code[pc].op = "call" /\ mem' = [mem EXCEPT ![rsp - 1] = junk]
    BY <2>1 DEF mprotect, Next_is, Proceed
  <2>3. pc = 10
    BY <1>1, <1>8, <2>2, CallAt, Parts
  <2>4. rsp - 1 = b - 8
    <3>1. rsp = b - 7
      BY <1>1, <2>3 DEF StackPointer
    <3> QED  BY <1>2, <3>1
  <2>5. \A i \in 1 .. 6 : slot(i) # rsp - 1
    BY <1>2, <2>4
  <2>6. \A i \in 1 .. 6 : slot(i) \in Addr
    <3>1. b < test.fp - Locals /\ test.fp \in Nat /\ test.fp < StackTop
      BY <1>1, TestFacts, FrameFacts
    <3>2. Locals \in Nat /\ StackTop \in Nat /\ HeapSize \in Nat
      BY InstrumenterAssumption
    <3> HIDE DEF b
    <3> QED  BY <1>2, <3>1, <3>2 DEF Addr
  <2> HIDE DEF slot
  <2>7. \A i \in 1 .. 6 : mem'[slot(i)] = mem[slot(i)]
    BY <1>1, <2>2, <2>5, <2>6 DEF Shape
  <2>8. ~ (pc + 1 <= 7) /\ pc <= 17 /\ \A i \in 1 .. 6 : i < pc /\ ~ (i > 17 - (pc + 1))
    BY <2>3
  <2> QED  BY <1>3, <2>2, <2>7, <2>8
<1>9. CASE pop
  <2>1. /\ pc' = pc + 1 /\ code[pc].op = "pop" /\ mem' = mem
        /\ reg' = [reg EXCEPT ![code[pc].dst] = mem[rsp]]
    BY <1>9 DEF pop, Next_is, Proceed
  <2>2. pc \in 11 .. 16 /\ code[pc].dst = ArgumentRegs[17 - pc]
    BY <1>1, <2>1, PopAt
  <2>3. rsp = slot(17 - pc) /\ 17 - pc \in 1 .. 6 /\ 17 - pc < pc
    <3>1. ~ (pc <= 7) /\ pc <= 17 /\ (pc <= 11 => pc - 11 = 0)
      BY <2>2
    <3>2. rsp = b - 7 + (pc - 11)
      BY <1>1, <1>2, <3>1 DEF StackPointer
    <3> QED  BY <1>2, <2>2, <3>2
  <2> HIDE DEF slot
  <2>4. mem[rsp] = EntryRegs[ArgumentRegs[17 - pc]]
    BY <1>3, <2>2, <2>3
  <2>5. ASSUME NEW i \in 1 .. 6, i > 17 - (pc + 1)
        PROVE  reg'[ArgumentRegs[i]] = EntryRegs[ArgumentRegs[i]]
    <3>1. reg \in [Names -> Int] /\ ArgumentRegs[i] \in Names
      BY <1>1, PushesFacts DEF Shape
    <3>2. CASE i = 17 - pc
      BY <2>1, <2>2, <2>4, <3>1, <3>2
    <3>3. CASE i # 17 - pc
      <4>1. i > 17 - pc /\ pc >= 11 /\ pc <= 17
        BY <2>2, <2>5, <3>3
      <4>2. ArgumentRegs[i] # ArgumentRegs[17 - pc]
        <5>1. \A p, q \in 1 .. 6 : p # q => ArgumentRegs[p] # ArgumentRegs[q]
          BY DEF ArgumentRegs
        <5> QED  BY <2>3, <3>3, <5>1
      <4> QED  BY <1>3, <2>1, <2>2, <3>1, <4>1, <4>2
    <3> QED  BY <3>2, <3>3
  <2>6. ~ (pc + 1 <= 7) /\ pc <= 17 /\ \A i \in 1 .. 6 : i < pc
    BY <2>2
  <2> QED  BY <1>3, <2>1, <2>5, <2>6
<1>10. CASE mov \/ store \/ storeReg
  <2>1. Proceed /\ code[pc].op \in {"mov", "store", "storeReg"}
    BY <1>10 DEF mov, store, storeReg, Next_is
  <2>2. pc \in 17 .. DumpAt - 1 \/ pc \in DumpAt + 1 .. UnprotectAt - 1
    BY <1>1, <2>1, BodyOp, StoreRegAt
  <2> QED  BY <1>1, <1>5, <2>1, <2>2
<1>11. CASE movabs /\ pc >= 17
  BY <1>5, <1>11 DEF movabs
<1>12. CASE (\E junk \in Junk : mprotect(junk)) /\ pc >= 17
  BY <1>5, <1>12 DEF mprotect
<1>13. pc < 17 \/ pc >= 17
  BY <1>1
<1> HIDE DEF slot
<1> QED
  BY <1>4, <1>6, <1>7, <1>8, <1>9, <1>10, <1>11, <1>12, <1>13, StepKinds

(* How much of the rewrite has been executed, part by part. *)
LEMMA ExecutedFacts ==
  ASSUME Shape
  PROVE  /\ Executed \in 0 .. Len(test.rewrite)
         /\ pc < 17 => Executed = 0
         /\ pc \in 17 .. DumpAt => Executed = pc - 17
         /\ pc >= DumpAt => Executed = Len(test.rewrite)
<1>1. /\ BodyAt = 17 /\ DumpAt = 17 + Len(test.rewrite) /\ pc \in Nat
  BY Parts
<1>2. Len(test.rewrite) \in Nat
  BY TestFacts
<1> QED  BY <1>1, <1>2 DEF Executed

(* Only an instruction of the rewrite adds to it. *)
LEMMA ExecutedStep ==
  ASSUME Shape, Proceed
  PROVE  Executed' = IF pc \in 17 .. DumpAt - 1 THEN Executed + 1 ELSE Executed
<1>1. /\ test' = test /\ pc' = pc + 1 /\ BodyAt = 17 /\ DumpAt = 17 + Len(test.rewrite)
      /\ pc \in Nat /\ BodyAt' = 17 /\ DumpAt' = DumpAt
  BY Parts, SameTest DEF Proceed
<1>2. Len(test.rewrite) \in Nat
  BY TestFacts
<1>3. Executed' = IF pc + 1 < 17 THEN 0 ELSE IF pc + 1 < DumpAt THEN (pc + 1) - 17
                  ELSE Len(test.rewrite)
  BY <1>1 DEF Executed
<1> QED  BY <1>1, <1>2, <1>3 DEF Executed

(* A register is defined by the call or by an earlier mov. *)
LEMMA DefinedFacts ==
  ASSUME NEW body \in Seq(Instructions)
  PROVE  /\ Defined(body, 1) = Range(ArgumentRegs)
         /\ \A i \in 1 .. Len(body) :
               Defined(body, i + 1) = IF body[i].op = "mov" THEN Defined(body, i) \cup {body[i].dst}
                                      ELSE Defined(body, i)
         /\ \A i \in 1 .. Len(body) + 1 : Defined(body, i) \subseteq Names
<1>1. Len(body) \in Nat /\ \A i \in 1 .. Len(body) : body[i] \in Instructions
  BY LenProperties, ElementOfSeq
<1>2. Defined(body, 1) = Range(ArgumentRegs)
  BY DEF Defined
<1>3. ASSUME NEW i \in 1 .. Len(body)
      PROVE  Defined(body, i + 1) = IF body[i].op = "mov" THEN Defined(body, i) \cup {body[i].dst}
                                    ELSE Defined(body, i)
  <2>1. 1 .. (i + 1) - 1 = (1 .. i - 1) \cup {i}
    BY <1>1
  <2> QED  BY <2>1 DEF Defined
<1>4. ASSUME NEW i \in 1 .. Len(body) + 1 PROVE Defined(body, i) \subseteq Names
  <2>1. Range(ArgumentRegs) \subseteq Names
    BY NamesAre DEF ArgumentRegs, Range
  <2>2. ASSUME NEW j \in 1 .. i - 1, body[j].op = "mov" PROVE body[j].dst \in Names
    <3>1. body[j] \in Instructions
      BY <1>1
    <3> QED  BY <2>2, <3>1, InstructionCases
  <2> QED  BY <2>1, <2>2 DEF Defined
<1> QED  BY <1>2, <1>3, <1>4

(* One instruction of the rewrite. *)
LEMMA BodyStep ==
  ASSUME Shape, pc \in 17 .. DumpAt - 1, Proceed
  PROVE  /\ Executed + 1 \in 1 .. Len(test.rewrite) /\ Executed' = Executed + 1
         /\ code[pc] = test.rewrite[Executed + 1]
         /\ test.rewrite[Executed + 1] \in Instructions
         /\ Run(test.rewrite)[Executed] \in States
         /\ Run(test.rewrite)[Executed + 1]
               = Step(test.rewrite[Executed + 1], Run(test.rewrite)[Executed])
<1>1. /\ Executed = pc - 17 /\ Executed' = Executed + 1
  <2>1. pc \in 17 .. DumpAt
    BY Parts
  <2> QED  BY <2>1, ExecutedFacts, ExecutedStep
<1>2. /\ BodyAt = 17 /\ DumpAt = 17 + Len(test.rewrite) /\ DumpAt < UnprotectAt /\ pc \in Nat
      /\ DumpAt \in Nat /\ UnprotectAt \in Nat /\ ReturnAt = UnprotectAt + 4
      /\ LastCall = UnprotectAt + 6
  BY Parts
<1>3. Len(test.rewrite) \in Nat
  BY TestFacts
<1>4. Executed + 1 \in 1 .. Len(test.rewrite) /\ Executed + 1 = pc - 16
      /\ Executed \in 0 .. Len(test.rewrite) /\ (Executed + 1) - 1 = Executed
  BY <1>1, <1>2, <1>3
<1>5. code[pc] = test.rewrite[pc - 16]
  <2>1. \/ pc \in 1 .. 6 \/ pc \in {7, 8, 9, 10} \/ pc \in 11 .. 16
        \/ code[pc] = test.rewrite[pc - 16]
        \/ pc = DumpAt \/ pc \in DumpAt + 1 .. UnprotectAt - 1
        \/ pc \in {UnprotectAt, UnprotectAt + 1, UnprotectAt + 2, UnprotectAt + 3}
        \/ pc \in {ReturnAt, ReturnAt + 1, LastCall}
    BY CodeAt
  <2>2. /\ pc \notin 1 .. 6 /\ pc \notin {7, 8, 9, 10} /\ pc \notin 11 .. 16
        /\ pc # DumpAt /\ pc \notin DumpAt + 1 .. UnprotectAt - 1
    BY <1>2
  <2>3. /\ pc \notin {UnprotectAt, UnprotectAt + 1, UnprotectAt + 2, UnprotectAt + 3}
        /\ pc \notin {ReturnAt, ReturnAt + 1, LastCall}
    BY <1>2
  <2> QED  BY <2>1, <2>2, <2>3
<1>6. test.rewrite \in Seq(Instructions)
  BY TestFacts
<1>7. test.rewrite[Executed + 1] \in Instructions
  BY <1>4, <1>6, RunFacts
<1>8. /\ Run(test.rewrite)[Executed] \in States
      /\ Run(test.rewrite)[Executed + 1]
            = Step(test.rewrite[Executed + 1], Run(test.rewrite)[Executed])
  <2> DEFINE e == Executed
             f == Executed + 1
  <2>1. f - 1 = e /\ f \in 1 .. Len(test.rewrite) /\ e \in 0 .. Len(test.rewrite)
    BY <1>4
  <2> HIDE DEF e, f
  <2>2. /\ Run(test.rewrite)[e] \in States
        /\ Run(test.rewrite)[f] = Step(test.rewrite[f], Run(test.rewrite)[f - 1])
    BY <1>6, <2>1, RunFacts
  <2> QED  BY <2>1, <2>2 DEF e, f
<1> QED  BY <1>1, <1>4, <1>5, <1>7, <1>8

(* What has been executed neither trapped nor wrote to a protected page. *)
LEMMA HarmlessStep ==
  ASSUME FrameInv, Harmless, [Next]_vars
  PROVE  Harmless'
<1>1. Shape /\ test' = test /\ FrameReadonly /\ DumpAt \in Nat
  BY StepKinds, Parts DEF FrameInv
<1>2. CASE UNCHANGED <<pc, machine>>
  <2>1. Executed' = Executed
    BY <1>1, <1>2, SameTest DEF Executed
  <2> QED  BY <1>1, <2>1 DEF Harmless
<1>3. CASE Proceed /\ pc \notin 17 .. DumpAt - 1
  <2>1. Executed' = Executed
    BY <1>1, <1>3, ExecutedStep
  <2> QED  BY <1>1, <2>1 DEF Harmless
<1>4. CASE Proceed /\ pc \in 17 .. DumpAt - 1
  <2>1. /\ Executed + 1 \in 1 .. Len(test.rewrite) /\ Executed' = Executed + 1
        /\ code[pc] = test.rewrite[Executed + 1]
        /\ code[pc].op \in {"mov", "store", "trap"}
    BY <1>1, <1>4, BodyStep, BodyOps
  <2>2. ~ UNCHANGED <<pc, machine>>
    <3>1. pc' = pc + 1 /\ pc \in Nat
      BY <1>1, <1>4, Parts DEF Proceed
    <3> QED  BY <3>1
  <2>3. mov \/ store
    BY <2>1, <2>2, StepKinds DEF movabs, push, pop, storeReg, mprotect, Next_is
  <2>4. code[pc].op # "trap" /\ (code[pc].op = "store" => code[pc].at \notin Protected(test.first))
    <3>1. CASE mov
      BY <3>1 DEF mov, Next_is
    <3>2. CASE store
      <4>1. pc \in 11 .. UnprotectAt + 3
        <5>1. DumpAt < UnprotectAt /\ UnprotectAt \in Nat
          BY <1>1, Parts
        <5> QED  BY <1>1, <1>4, <5>1
      <4>2. readonly = Protected(test.first)
        BY <1>1, <4>1 DEF FrameReadonly
      <4> QED  BY <3>2, <4>2 DEF store, Next_is, Faults, Written
    <3> QED  BY <2>3, <3>1, <3>2
  <2>5. \A j \in 1 .. Executed + 1 : j \in 1 .. Executed \/ j = Executed + 1
    <3>1. Executed \in Nat
      BY <1>1, TestFacts, ExecutedFacts
    <3> QED  BY <3>1
  <2> QED  BY <1>1, <2>1, <2>4, <2>5 DEF Harmless
<1> QED  BY <1>2, <1>3, <1>4, StepKinds

(* The rewrite goes through the states it would go through by itself. *)
LEMMA SimulatesStep ==
  ASSUME FrameInv, ArgumentsKept, ArgumentsKept', Simulates, [Next]_vars
  PROVE  Simulates'
<1> DEFINE body == test.rewrite
           e == Executed
           m == Run(body)[e]
<1>1. /\ Shape /\ StackPointer /\ test' = test /\ DumpAt' = DumpAt /\ BodyAt = 17 /\ BodyAt' = 17
      /\ DumpAt \in Nat /\ DumpAt >= 17 /\ pc \in Nat /\ body \in Seq(Instructions)
  BY StepKinds, SameTest, Parts, TestFacts DEF FrameInv
<1> SUFFICES ASSUME ReadsDefined(body)
             PROVE  /\ \A a \in Addr : a >= test.fp - Locals =>
                          mem'[a] = Run(body)[Executed'].mem[a]
                    /\ pc' \in 17 .. DumpAt =>
                          \A r \in Defined(body, Executed' + 1) :
                             reg'[r] = Run(body)[Executed'].reg[r]
  BY <1>1 DEF Simulates
<1>2. /\ \A a \in Addr : a >= test.fp - Locals => mem[a] = m.mem[a]
      /\ pc \in 17 .. DumpAt => \A r \in Defined(body, e + 1) : reg[r] = m.reg[r]
  BY <1>1 DEF Simulates
<1> HIDE DEF m
<1>3. CASE UNCHANGED <<pc, machine>>
  <2>1. Executed' = e /\ mem' = mem /\ reg' = reg /\ pc' = pc
    BY <1>1, <1>3, SameTest DEF Executed, machine
  <2> QED  BY <1>2, <2>1 DEF m
<1>4. CASE Proceed /\ pc \notin 17 .. DumpAt - 1
  <2>1. Executed' = e /\ pc' = pc + 1
    BY <1>1, <1>4, ExecutedStep DEF Proceed
  <2>2. \A a \in Addr : a >= test.fp - Locals => mem'[a] = mem[a]
    <3>1. rsp - 1 < test.fp - Locals /\ rsp - 1 \in Addr /\ mem \in [Addr -> Int]
      BY <1>1, StackAddress DEF Shape
    <3>2. \A a \in Addr : a >= test.fp - Locals => a # rsp - 1
      <4>1. test.fp \in Nat /\ Locals \in Nat
        BY <1>1, TestFacts, FrameFacts, InstrumenterAssumption
      <4>2. rsp - 1 \in Int
        <5>1. StackTop \in Nat /\ HeapSize \in Nat
          BY InstrumenterAssumption
        <5> QED  BY <3>1, <5>1 DEF Addr
      <4> DEFINE x == rsp - 1
      <4> HIDE DEF x
      <4>3. \A a \in Int : a >= test.fp - Locals => a # x
        BY <3>1, <4>1, <4>2 DEF x
      <4>4. Addr \subseteq Int
        BY InstrumenterAssumption DEF Addr
      <4> QED  BY <4>3, <4>4 DEF x
    <3>3. ~ store
      <4>1. store => code[pc].op = "store"
        BY DEF store, Next_is
      <4> QED  BY <1>1, <1>4, <4>1, BodyOp
    <3>4. CASE mem' = mem
      BY <3>4
    <3>5. CASE \E v : mem' = [mem EXCEPT ![rsp - 1] = v]
      BY <3>1, <3>2, <3>5
    <3>6. mov \/ movabs \/ pop \/ storeReg \/ UNCHANGED <<pc, machine>> => mem' = mem
      BY DEF mov, movabs, pop, storeReg, machine
    <3>7. push => \E v : mem' = [mem EXCEPT ![rsp - 1] = v]
      BY DEF push
    <3>8. (\E junk \in Junk : mprotect(junk)) => \E v : mem' = [mem EXCEPT ![rsp - 1] = v]
      BY DEF mprotect
    <3> QED  BY <3>3, <3>4, <3>5, <3>6, <3>7, <3>8, StepKinds
  <2>3. ASSUME pc + 1 \in 17 .. DumpAt, NEW r \in Defined(body, e + 1)
        PROVE  reg'[r] = m.reg[r]
    <3>1. pc + 1 = 17 /\ e = 0
      <4>1. pc + 1 = 17
        BY <1>1, <1>4, <2>3
      <4>2. pc < 17
        BY <1>1, <4>1
      <4> QED  BY <1>1, <4>1, <4>2, ExecutedFacts
    <3>2. m.reg = EntryRegs
      BY <1>1, <3>1, RunFacts DEF m, Entry
    <3>3. r \in Range(ArgumentRegs)
      BY <1>1, <3>1, DefinedFacts
    <3>4. PICK i \in 1 .. 6 : r = ArgumentRegs[i]
      <4>1. DOMAIN ArgumentRegs = 1 .. 6
        BY DEF ArgumentRegs
      <4> QED  BY <3>3, <4>1 DEF Range
    <3>5. reg'[ArgumentRegs[i]] = EntryRegs[ArgumentRegs[i]]
      <4>1. pc' = 17 /\ i > 17 - 17
        BY <2>1, <3>1
      <4> QED  BY <1>1, <4>1 DEF ArgumentsKept
    <3> QED  BY <3>2, <3>4, <3>5
  <2> QED  BY <1>2, <2>1, <2>2, <2>3 DEF m
<1>5. CASE Proceed /\ pc \in 17 .. DumpAt - 1
  <2> DEFINE b == test.rewrite[Executed + 1]
  <2>1. /\ e + 1 \in 1 .. Len(body) /\ Executed' = e + 1
        /\ code[pc] = b /\ b \in Instructions /\ m \in States
        /\ Run(body)[e + 1] = Step(b, m)
    BY <1>1, <1>5, BodyStep DEF m
  <2>2. pc \in 17 .. DumpAt /\ pc' = pc + 1
    BY <1>1, <1>5 DEF Proceed
  <2>3. \A r \in Defined(body, e + 1) : reg[r] = m.reg[r]
    BY <1>2, <2>2
  <2>4. Defined(body, (e + 1) + 1) = IF b.op = "mov" THEN Defined(body, e + 1) \cup {b.dst}
                                     ELSE Defined(body, e + 1)
    <3> DEFINE i == e + 1
    <3>1. i \in 1 .. Len(body)
      BY <2>1
    <3> HIDE DEF i, e
    <3>2. Defined(body, i + 1) = IF body[i].op = "mov" THEN Defined(body, i) \cup {body[i].dst}
                                 ELSE Defined(body, i)
      BY <1>1, <3>1, DefinedFacts
    <3> QED  BY <3>2 DEF i, e
  <2>5. b.op \in {"mov", "store"} => b.src \in Defined(body, e + 1)
    <3>1. e + 1 \in DOMAIN body
      BY <1>1, <2>1
    <3> QED  BY <3>1 DEF ReadsDefined
  <2>6. /\ Step(b, m) \in States
        /\ b.op = "mov" => /\ Step(b, m).reg = [m.reg EXCEPT ![b.dst] = m.reg[b.src]]
                           /\ Step(b, m).mem = m.mem
        /\ b.op = "store" => /\ Step(b, m).mem = [m.mem EXCEPT ![b.at] = m.reg[b.src]]
                             /\ Step(b, m).reg = m.reg
    BY <2>1, StepFacts
  <2>7. Defined(body, e + 1) \subseteq Names
    BY <1>1, <2>1, DefinedFacts
  <2>8. m.reg \in [Names -> 0 .. 15] /\ m.mem \in [Addr -> 0 .. 15]
        /\ reg \in [Names -> Int] /\ mem \in [Addr -> Int]
    BY <1>1, <2>1 DEF States, Shape
  <2>9. ~ UNCHANGED <<pc, machine>>
    BY <1>1, <2>2
  <2>10. b.op \in {"mov", "store", "trap"}
    BY <2>1, InstructionCases
  <2>11. mov \/ store
    BY <2>1, <2>9, <2>10, StepKinds DEF movabs, push, pop, storeReg, mprotect, Next_is
  <2> HIDE DEF b, e, body
  <2>12. CASE mov
    <3>1. b.op = "mov" /\ mem' = mem /\ reg' = [reg EXCEPT ![b.dst] = reg[b.src]]
      BY <2>1, <2>12 DEF mov, Next_is
    <3>2. reg[b.src] = m.reg[b.src] /\ b.dst \in Names
      BY <2>1, <2>3, <2>5, <3>1, InstructionCases
    <3>3. \A r \in Defined(body, (e + 1) + 1) : reg'[r] = Run(body)[e + 1].reg[r]
      <4> SUFFICES ASSUME NEW r \in Defined(body, (e + 1) + 1)
                   PROVE  reg'[r] = Step(b, m).reg[r]
        BY <2>1
      <4>1. r \in Names /\ (r = b.dst \/ r \in Defined(body, e + 1))
        BY <2>4, <2>7, <3>1, <3>2
      <4> QED  BY <2>3, <2>6, <2>8, <3>1, <3>2, <4>1
    <3> QED  BY <1>2, <2>1, <2>6, <3>1, <3>3
  <2>13. CASE store
    <3>1. b.op = "store" /\ reg' = reg /\ mem' = [mem EXCEPT ![b.at] = reg[b.src]]
      BY <2>1, <2>13 DEF store, Next_is
    <3>2. reg[b.src] = m.reg[b.src]
      BY <2>3, <2>5, <3>1
    <3>3. \A a \in Addr : a >= test.fp - Locals => mem'[a] = Run(body)[e + 1].mem[a]
      BY <1>2, <2>1, <2>6, <2>8, <3>1, <3>2
    <3>4. \A r \in Defined(body, (e + 1) + 1) : reg'[r] = Run(body)[e + 1].reg[r]
      BY <2>1, <2>3, <2>4, <2>6, <3>1
    <3> QED  BY <2>1, <3>3, <3>4
  <2> QED  BY <2>11, <2>12, <2>13
<1> HIDE DEF body, e
<1> QED  BY <1>3, <1>4, <1>5, StepKinds

(* The result is dumped first, by itself, at the start of the buffer. *)
LEMMA LayoutFirst ==
  ASSUME Shape, test.type # "void"
  PROVE  /\ Len(layout) >= 1 /\ layout[1].reg.name = "RAX" /\ layout[1].reg.size = layout[1].size
         /\ layout[1].offset = 0 /\ layout[1].size \in {1, 2, 4}
         /\ \A i \in 2 .. Len(layout) : layout[i].offset >= layout[1].size
         /\ reg_buf_size(layout) \in Nat /\ reg_buf_size(layout) >= layout[1].size
         /\ getReturnRegs(test.type) = <<layout[1].reg>>
<1> DEFINE outputs == getReturnRegs(test.type)
           K == Len(layout)
<1>1. /\ test.type \in ReturnTypes /\ layout \in Seq(RegInfos) /\ K \in Nat
      /\ \A i \in 1 .. K : layout[i] \in RegInfos
  BY TestFacts
<1>2. outputs \in Seq(Registers)
      /\ \E size \in {1, 2, 4} : outputs = <<Register("RAX", size)>>
  BY <1>1, ReturnRegsFacts
<1>3. PICK size \in {1, 2, 4} : outputs = <<Register("RAX", size)>>
  BY <1>2
<1>4. /\ K >= Len(outputs)
      /\ \A i \in 1 .. Len(outputs) : layout[i].reg = outputs[i]
      /\ \A i \in 1 .. K : layout[i].size = layout[i].reg.size
      /\ K > 0 => layout[1].offset = 0
      /\ \A i, j \in 1 .. K : i < j => layout[i].offset + layout[i].size <= layout[j].offset
  <2> HIDE DEF outputs
  <2> QED  BY <1>2, LayoutFacts DEF layout, outputs
<1>5. Len(outputs) = 1 /\ outputs[1] = [name |-> "RAX", size |-> size]
  BY <1>3 DEF Register
<1> HIDE DEF outputs
<1>6. K >= 1 /\ layout[1].reg = [name |-> "RAX", size |-> size]
  BY <1>4, <1>5
<1>7. layout[1].size = size /\ layout[1].offset = 0 /\ 1 \in 1 .. K
  BY <1>1, <1>4, <1>6
<1>8. ASSUME NEW i \in 2 .. K PROVE layout[i].offset >= layout[1].size
  <2>1. i \in 1 .. K /\ 1 < i
    BY <1>1
  <2>2. layout[1].offset + layout[1].size <= layout[i].offset
    BY <1>4, <1>7, <2>1
  <2>3. layout[i].offset \in Nat
    BY <1>1, <2>1 DEF RegInfos
  <2> QED  BY <1>7, <2>2, <2>3
<1>9. reg_buf_size(layout) \in Nat /\ reg_buf_size(layout) >= layout[1].size
  <2>1. K \in 1 .. K
    BY <1>1, <1>6
  <2>2. layout[K].offset \in Nat /\ layout[K].size \in Nat \ {0}
    BY <1>1, <2>1 DEF RegInfos
  <2>3. layout # <<>>
    BY <1>1, <1>6
  <2>4. reg_buf_size(layout) = layout[K].offset + layout[K].size
    BY <2>3 DEF reg_buf_size, Last
  <2>5. K = 1 \/ K \in 2 .. K
    <3>1. K \in Nat /\ K >= 1
      BY <1>1, <1>6
    <3> HIDE DEF K
    <3> QED  BY <3>1
  <2>6. layout[K].offset + layout[K].size >= layout[1].size
    <3>1. CASE K = 1
      BY <1>7, <3>1
    <3>2. CASE K \in 2 .. K
      <4>1. layout[K].offset >= layout[1].size
        BY <1>8, <3>2
      <4> QED  BY <1>7, <2>2, <4>1
    <3> QED  BY <2>5, <3>1, <3>2
  <2> QED  BY <2>2, <2>4, <2>6
<1>10. outputs = <<layout[1].reg>>
  BY <1>3, <1>6 DEF Register
<1> QED  BY <1>6, <1>7, <1>8, <1>9, <1>10 DEF outputs

(* The address of the dump stays in the free register until it is done. *)
LEMMA BufferAddressStep ==
  ASSUME FrameInv, BufferAddress, [Next]_vars
  PROVE  BufferAddress'
<1>1. /\ Shape /\ test' = test /\ DumpAt' = DumpAt /\ UnprotectAt' = UnprotectAt
      /\ DumpAt \in Nat /\ UnprotectAt \in Nat /\ 17 <= DumpAt /\ DumpAt < UnprotectAt /\ pc \in Nat
      /\ ReturnAt = UnprotectAt + 4
  BY StepKinds, SameTest, Parts DEF FrameInv
<1>2. CASE UNCHANGED <<pc, machine>>
  BY <1>1, <1>2 DEF BufferAddress, machine
<1>3. CASE Proceed /\ pc \notin DumpAt .. UnprotectAt - 1
  <2>1. pc' = pc + 1 /\ pc + 1 \notin DumpAt + 1 .. UnprotectAt
    BY <1>1, <1>3 DEF Proceed
  <2> QED  BY <1>1, <2>1 DEF BufferAddress
<1>4. CASE Proceed /\ pc \in DumpAt .. UnprotectAt - 1
  <2>1. \/ pc = DumpAt /\ code[pc] = Movabs(FreeReg, Buffer)
        \/ pc # DumpAt /\ code[pc].op = "storeReg"
    <3>1. \/ pc \in 1 .. 6 \/ pc \in {7, 8, 9, 10} \/ pc \in 11 .. 16
          \/ pc \in BodyAt .. DumpAt - 1
          \/ pc = DumpAt /\ code[pc] = Movabs(FreeReg, Buffer)
          \/ pc \in DumpAt + 1 .. UnprotectAt - 1 /\ code[pc].op = "storeReg"
          \/ pc \in {UnprotectAt, UnprotectAt + 1, UnprotectAt + 2, UnprotectAt + 3}
          \/ pc \in {UnprotectAt + 4, UnprotectAt + 5, UnprotectAt + 6}
      BY <1>1, CodeAt, Fields, Parts
    <3>2. pc \in Nat /\ DumpAt <= pc /\ pc <= UnprotectAt - 1
      BY <1>1, <1>4
    <3> QED  BY <1>1, <3>1, <3>2
  <2>2. code[pc].op \in {"movabs", "storeReg"}
    BY <2>1, Fields
  <2>3. ~ UNCHANGED <<pc, machine>>
    BY <1>1, <1>4 DEF Proceed
  <2>4. movabs \/ storeReg
    BY <2>2, <2>3, StepKinds DEF mov, store, push, pop, mprotect, Next_is
  <2>5. reg \in [Names -> Int] /\ FreeReg \in Names
    BY <1>1, NamesAre DEF Shape, FreeReg
  <2>6. CASE movabs
    <3>1. code[pc].op = "movabs" /\ reg' = [reg EXCEPT ![code[pc].dst] = code[pc].imm]
      BY <2>6 DEF movabs, Next_is
    <3>2. code[pc].dst = FreeReg /\ code[pc].imm = Buffer
      BY <2>1, <3>1, Fields
    <3> QED  BY <2>5, <3>1, <3>2 DEF BufferAddress
  <2>7. CASE storeReg
    <3>1. reg' = reg /\ code[pc].op = "storeReg"
      BY <2>7 DEF storeReg, Next_is
    <3>2. pc # DumpAt
      BY <2>1, <3>1, Fields
    <3>3. pc \in DumpAt + 1 .. UnprotectAt
      BY <1>1, <1>4, <3>2
    <3> QED  BY <3>1, <3>3 DEF BufferAddress
  <2> QED  BY <2>4, <2>6, <2>7
<1> QED  BY <1>2, <1>3, <1>4, StepKinds

(* The result is dumped as the rewrite left it, and no other register over it. *)
LEMMA ResultKeptStep ==
  ASSUME FrameInv, BufferAddress, Simulates, ResultKept, [Next]_vars
  PROVE  ResultKept'
<1>1. /\ Shape /\ test' = test /\ DumpAt' = DumpAt /\ UnprotectAt' = UnprotectAt
      /\ layout' = layout
      /\ DumpAt \in Nat /\ UnprotectAt \in Nat /\ 17 <= DumpAt /\ DumpAt < UnprotectAt /\ pc \in Nat
      /\ ReturnAt = UnprotectAt + 4 /\ BodyAt = 17
  BY StepKinds, SameTest, Parts DEF FrameInv
<1> DEFINE m == Plain(test.rewrite)
<1> SUFFICES ASSUME ReadsDefined(test.rewrite), test.type # "void",
                    "RAX" \in Defined(test.rewrite, Len(test.rewrite) + 1)
             PROVE  /\ pc' = DumpAt + 1 => reg'["RAX"] = m.reg["RAX"]
                    /\ pc' > DumpAt + 1 =>
                          \A b \in 0 .. layout[1].size - 1 : data'[b] = bit(m.reg["RAX"], b)
  BY <1>1 DEF ResultKept
<1>2. /\ pc = DumpAt + 1 => reg["RAX"] = m.reg["RAX"]
      /\ pc > DumpAt + 1 =>
             \A b \in 0 .. layout[1].size - 1 : data[b] = bit(m.reg["RAX"], b)
  BY DEF ResultKept
<1>3. pc = DumpAt => reg["RAX"] = m.reg["RAX"]
  <2> SUFFICES ASSUME pc = DumpAt PROVE reg["RAX"] = m.reg["RAX"]
    OBVIOUS
  <2>1. Executed = Len(test.rewrite) /\ pc \in BodyAt .. DumpAt
    <3>1. pc >= DumpAt /\ pc \in BodyAt .. DumpAt
      BY <1>1
    <3> QED  BY <1>1, <3>1, ExecutedFacts
  <2> QED  BY <2>1 DEF Simulates, Plain
<1> HIDE DEF m
<1>4. CASE UNCHANGED <<pc, machine>>
  BY <1>2, <1>4 DEF machine
<1>5. CASE Proceed /\ pc < DumpAt
  <2>1. pc' = pc + 1 /\ ~ (pc + 1 = DumpAt + 1) /\ ~ (pc + 1 > DumpAt + 1)
    BY <1>1, <1>5 DEF Proceed
  <2> QED  BY <2>1
<1>6. CASE movabs /\ pc >= DumpAt
  <2>1. /\ pc' = pc + 1 /\ data' = data /\ code[pc].op = "movabs"
        /\ reg' = [reg EXCEPT ![code[pc].dst] = code[pc].imm]
    BY <1>6 DEF movabs, Proceed, Next_is
  <2>2. \/ pc = DumpAt /\ code[pc].dst = FreeReg
        \/ pc > DumpAt + 1
        \/ pc = UnprotectAt
    <3>1. \/ pc \in {7, 8, 9}
          \/ pc = DumpAt /\ code[pc].dst = FreeReg
          \/ pc \in {UnprotectAt, UnprotectAt + 1, UnprotectAt + 2, ReturnAt, ReturnAt + 1}
      BY <1>1, <2>1, MovabsAt, Fields
    <3> QED  BY <1>1, <1>6, <3>1
  <2>3. CASE pc = DumpAt /\ code[pc].dst = FreeReg
    <3>1. reg'["RAX"] = reg["RAX"]
      <4>1. FreeReg # "RAX" /\ "RAX" \in Names /\ reg \in [Names -> Int]
        BY <1>1, NamesAre DEF FreeReg, Shape
      <4> QED  BY <2>1, <2>3, <4>1
    <3>2. ~ (pc + 1 > DumpAt + 1)
      BY <1>1, <2>3
    <3> QED  BY <1>3, <2>1, <2>3, <3>1, <3>2
  <2>4. CASE pc > DumpAt + 1
    BY <1>1, <1>2, <2>1, <2>4
  <2>5. CASE pc = UnprotectAt /\ ~ (pc > DumpAt + 1)
    <3>1. UnprotectAt = DumpAt + 1 + Len(layout) /\ Len(layout) >= 1 /\ Len(layout) \in Nat
      BY <1>1, Parts, LayoutFirst, TestFacts
    <3> QED  BY <1>1, <2>5, <3>1
  <2> QED  BY <2>2, <2>3, <2>4, <2>5
<1>7. CASE storeReg
  <2> DEFINE info == code[pc].info
             at == reg[FreeReg] - Buffer + info.offset
             i == pc - DumpAt
  <2>1. /\ pc' = pc + 1 /\ code[pc].op = "storeReg" /\ reg' = reg
        /\ data' = [k \in DOMAIN data |->
                       IF k \in at .. at + info.size - 1 THEN bit(reg[info.reg.name], k - at)
                       ELSE data[k]]
    BY <1>7 DEF storeReg, Next_is, Proceed
  <2>2. /\ pc \in DumpAt + 1 .. UnprotectAt - 1 /\ i \in 1 .. Len(layout) /\ info = layout[i]
    BY <1>1, <2>1, StoreRegAt
  <2>3. info \in RegInfos /\ info.offset \in Nat /\ info.size \in Nat \ {0}
    <3>1. info \in RegInfos
      BY <1>1, <2>2, TestFacts
    <3> QED  BY <3>1 DEF RegInfos
  <2>4. at = info.offset
    <3>1. reg[FreeReg] = Buffer
      <4>1. pc \in DumpAt + 1 .. UnprotectAt
        BY <1>1, <2>2
      <4> QED  BY <4>1 DEF BufferAddress
    <3> QED  BY <2>3, <3>1 DEF Buffer
  <2> HIDE DEF at, info
  <2>5. /\ Len(layout) >= 1 /\ layout[1].reg.name = "RAX"
        /\ layout[1].offset = 0 /\ layout[1].size \in {1, 2, 4}
        /\ \A j \in 2 .. Len(layout) : layout[j].offset >= layout[1].size
        /\ reg_buf_size(layout) \in Nat /\ reg_buf_size(layout) >= layout[1].size
    BY <1>1, LayoutFirst
  <2>6. \A b \in 0 .. layout[1].size - 1 : b \in DOMAIN data /\ b \in Nat
    <3>1. DOMAIN data = 0 .. reg_buf_size(layout) - 1
      BY <1>1 DEF Shape
    <3> QED  BY <2>5, <3>1
  <2>7. ~ (pc + 1 = DumpAt + 1)
    BY <1>1, <2>2
  <2>8. ASSUME NEW b \in 0 .. layout[1].size - 1
        PROVE  data'[b] = bit(m.reg["RAX"], b)
    <3>1. CASE i = 1
      <4>1. info = layout[1] /\ pc = DumpAt + 1
        BY <1>1, <2>2, <3>1
      <4>2. at = 0 /\ b \in at .. at + info.size - 1 /\ b - at = b
        BY <2>4, <2>5, <2>6, <4>1
      <4>3. data'[b] = bit(reg["RAX"], b)
        BY <2>1, <2>5, <2>6, <4>1, <4>2
      <4> QED  BY <1>2, <4>1, <4>3
    <3>2. CASE i # 1
      <4>1. i \in 2 .. Len(layout) /\ pc > DumpAt + 1
        BY <1>1, <2>2, <3>2
      <4>2. at >= layout[1].size
        BY <2>2, <2>4, <2>5, <4>1
      <4>3. b \notin at .. at + info.size - 1
        BY <2>3, <2>4, <2>5, <2>6, <4>2
      <4>4. data'[b] = data[b]
        BY <2>1, <2>6, <4>3
      <4> QED  BY <1>2, <4>1, <4>4
    <3> QED  BY <3>1, <3>2
  <2> QED  BY <2>1, <2>7, <2>8
<1>8. CASE (\E junk \in Junk : mprotect(junk)) /\ pc >= DumpAt
  <2>1. pc' = pc + 1 /\ data' = data /\ code[pc].op = "call"
    BY <1>8 DEF mprotect, Next_is, Proceed
  <2>2. pc \in {10, UnprotectAt + 3, LastCall} /\ LastCall = UnprotectAt + 6
    BY <1>1, <2>1, CallAt, Parts
  <2>3. pc > DumpAt + 1
    BY <1>1, <1>8, <2>2
  <2>4. ~ (pc + 1 = DumpAt + 1)
    BY <1>1, <2>3
  <2> QED  BY <1>2, <2>1, <2>3, <2>4
<1>9. CASE mov \/ store
  <2>1. Proceed /\ code[pc].op \in {"mov", "store"}
    BY <1>9 DEF mov, store, Next_is
  <2>2. pc < DumpAt
    BY <1>1, <2>1, BodyOp
  <2> QED  BY <1>5, <2>1, <2>2
<1>10. CASE push \/ pop
  <2>1. Proceed /\ code[pc].op \in {"push", "pop"}
    BY <1>10 DEF push, pop, Next_is
  <2>2. pc < DumpAt
    BY <1>1, <2>1, PushAt, PopAt
  <2> QED  BY <1>5, <2>1, <2>2
<1>11. CASE movabs /\ pc < DumpAt
  BY <1>5, <1>11 DEF movabs
<1>12. CASE (\E junk \in Junk : mprotect(junk)) /\ pc < DumpAt
  BY <1>5, <1>12 DEF mprotect
<1>13. pc < DumpAt \/ pc >= DumpAt
  BY <1>1
<1> QED
  BY <1>4, <1>6, <1>7, <1>8, <1>9, <1>10, <1>11, <1>12, <1>13, StepKinds

-------------------------------------------------------------------------------
(* What is compared.                                                       *)

(* Four bits tell a word from another. *)
LEMMA BitsDecide ==
  ASSUME NEW x \in 0 .. 15, NEW y \in 0 .. 15, \A k \in 0 .. 3 : bit(x, k) = bit(y, k)
  PROVE  x = y
<1>1. /\ bit(x, 0) = bit(y, 0) /\ bit(x, 1) = bit(y, 1)
      /\ bit(x, 2) = bit(y, 2) /\ bit(x, 3) = bit(y, 3)
  OBVIOUS
<1>2. \A v : /\ bit(v, 0) = (v \div 1) % 2 /\ bit(v, 1) = (v \div 2) % 2
             /\ bit(v, 2) = (v \div 4) % 2 /\ bit(v, 3) = (v \div 8) % 2
  BY DEF bit
<1>3. \A v \in 0 .. 15 :
         v = ((v \div 1) % 2) + 2 * ((v \div 2) % 2)
             + 4 * ((v \div 4) % 2) + 8 * ((v \div 8) % 2)
  OBVIOUS
<1> QED  BY <1>1, <1>2, <1>3

(* The distance of two memories counts the bits in which they differ. *)
LEMMA MemDist ==
  ASSUME NEW a, NEW b, NEW where, IsFiniteSet(where)
  PROVE  /\ get_mem_dist(a, b, where) \in Nat
         /\ get_mem_dist(a, b, where) = 0
               <=> \A w \in where : \A k \in 0 .. 3 : bit(a[w], k) = bit(b[w], k)
<1> DEFINE differ(w) == {k \in 0 .. 3 : bit(a[w], k) # bit(b[w], k)}
           g == [w \in where |-> Cardinality(differ(w))]
           eqn1(h) == [s \in SUBSET where |->
                         IF s = {} THEN 0
                         ELSE Cardinality(differ(Chosen(s))) + h[s \ {Chosen(s)}]]
           eqn2(h) == [s \in SUBSET where |->
                         IF s = {} THEN 0 ELSE g[Chosen(s)] + h[s \ {Chosen(s)}]]
<1>1. get_mem_dist(a, b, where) = (CHOOSE h : h = eqn1(h))[where]
  BY DEF get_mem_dist, MapThenSumSet, MapThenFoldSet, Chosen
<1>2. \A h : eqn1(h) = eqn2(h)
  <2>1. \A s \in SUBSET where : s # {} => Chosen(s) \in where
    BY DEF Chosen
  <2>2. \A w \in where : g[w] = Cardinality(differ(w))
    OBVIOUS
  <2> HIDE DEF g, differ
  <2> QED  BY <2>1, <2>2
<1>3. SumOver(where, g) = (CHOOSE h : h = eqn2(h))[where]
  BY DEF SumOver
<1>4. get_mem_dist(a, b, where) = SumOver(where, g)
  <2> HIDE DEF eqn1, eqn2
  <2> QED  BY <1>1, <1>2, <1>3
<1>5. \A w \in where : /\ Cardinality(differ(w)) \in Nat
                       /\ Cardinality(differ(w)) = 0 <=> differ(w) = {}
  <2>1. IsFiniteSet(0 .. 3)
    <3>1. 0 \in Int /\ 3 \in Int
      OBVIOUS
    <3> QED  BY <3>1, FS_Interval
  <2>2. \A w \in where : IsFiniteSet(differ(w))
    BY <2>1, FS_Subset
  <2> HIDE DEF differ
  <2> QED  BY <2>2, FS_CardinalityType, FS_EmptySet
<1>6. g \in [where -> Nat]
  BY <1>5
<1>7. SumOver(where, g) \in Nat /\ (SumOver(where, g) = 0 <=> \A w \in where : g[w] = 0)
  <2> HIDE DEF g
  <2> QED  BY <1>6, SumZero
<1>8. \A w \in where : g[w] = 0 <=> \A k \in 0 .. 3 : bit(a[w], k) = bit(b[w], k)
  BY <1>5
<1> HIDE DEF g
<1> QED  BY <1>4, <1>7, <1>8

(* So does the distance of two registers in the buffers, *)
LEMMA RegDist ==
  ASSUME NEW a, NEW b, NEW i \in 1 .. Len(layout), Shape
  PROVE  /\ get_reg_dist(layout, a, b, i, i) \in Nat
         /\ get_reg_dist(layout, a, b, i, i) = 0
               <=> \A k \in 0 .. layout[i].size - 1 :
                      a[layout[i].offset + k] = b[layout[i].offset + k]
<1> DEFINE differ == {k \in 0 .. layout[i].size - 1 :
                        a[layout[i].offset + k] # b[layout[i].offset + k]}
<1>1. layout[i].size \in Nat
  BY TestFacts DEF RegInfos
<1>2. IsFiniteSet(0 .. layout[i].size - 1)
  <2>1. 0 \in Int /\ layout[i].size - 1 \in Int
    BY <1>1
  <2> QED  BY <2>1, FS_Interval
<1>3. IsFiniteSet(differ)
  BY <1>2, FS_Subset
<1>4. get_reg_dist(layout, a, b, i, i) = Cardinality(differ)
  BY DEF get_reg_dist
<1>5. differ = {} <=> \A k \in 0 .. layout[i].size - 1 :
                         a[layout[i].offset + k] = b[layout[i].offset + k]
  OBVIOUS
<1> HIDE DEF differ
<1> QED  BY <1>3, <1>4, <1>5, FS_CardinalityType, FS_EmptySet

(* and what is added up for the output registers is 0 for the same ones. *)
LEMMA OutputDist ==
  ASSUME NEW n \in 0 .. Len(layout), Shape
  PROVE  LET sum == MapThenSumSet(LAMBDA i : output_dist(i, n), 1 .. n)
         IN /\ sum \in Nat
            /\ sum = 0 <=> \A i \in 1 .. n : \A k \in 0 .. layout[i].size - 1 :
                              data[layout[i].offset + k] = target_reg_data[layout[i].offset + k]
<1> DEFINE where == 1 .. n
           g == [i \in where |-> output_dist(i, n)]
           eqn1(h) == [s \in SUBSET where |->
                         IF s = {} THEN 0
                         ELSE output_dist(Chosen(s), n) + h[s \ {Chosen(s)}]]
           eqn2(h) == [s \in SUBSET where |->
                         IF s = {} THEN 0 ELSE g[Chosen(s)] + h[s \ {Chosen(s)}]]
           sum == MapThenSumSet(LAMBDA i : output_dist(i, n), 1 .. n)
<1>1. sum = (CHOOSE h : h = eqn1(h))[where]
  BY DEF MapThenSumSet, MapThenFoldSet, Chosen
<1>2. \A h : eqn1(h) = eqn2(h)
  <2>1. \A s \in SUBSET where : s # {} => Chosen(s) \in where
    BY DEF Chosen
  <2>2. \A i \in where : g[i] = output_dist(i, n)
    OBVIOUS
  <2> HIDE DEF g, where
  <2> QED  BY <2>1, <2>2
<1>3. SumOver(where, g) = (CHOOSE h : h = eqn2(h))[where]
  BY DEF SumOver
<1> HIDE DEF sum
<1>4. sum = SumOver(where, g)
  <2> HIDE DEF eqn1, eqn2
  <2> QED  BY <1>1, <1>2, <1>3
<1>5. n \in Nat /\ IsFiniteSet(where)
  <2>1. n \in Nat
    BY TestFacts
  <2> QED  BY <2>1, FS_Interval
<1>6. ASSUME NEW i \in where
      PROVE  /\ output_dist(i, n) \in Nat
             /\ output_dist(i, n) = 0 <=>
                   \A k \in 0 .. layout[i].size - 1 :
                      data[layout[i].offset + k] = target_reg_data[layout[i].offset + k]
  <2> DEFINE dist == get_reg_dist(layout, data, target_reg_data, i, i)
  <2>1. i \in 1 .. Len(layout)
    BY TestFacts
  <2>2. /\ dist \in Nat
        /\ dist = 0 <=> \A k \in 0 .. layout[i].size - 1 :
                           data[layout[i].offset + k] = target_reg_data[layout[i].offset + k]
    BY <2>1, RegDist
  <2>3. output_dist(i, n) = dist \/ (output_dist(i, n) = 1 /\ 1 < dist)
    BY DEF output_dist, MISALIGN_PENALTY
  <2> HIDE DEF dist
  <2> QED  BY <2>2, <2>3
<1>7. g \in [where -> Nat]
  <2> HIDE DEF where
  <2> QED  BY <1>6
<1>8. SumOver(where, g) \in Nat /\ (SumOver(where, g) = 0 <=> \A i \in where : g[i] = 0)
  <2> HIDE DEF g, where
  <2> QED  BY <1>5, <1>7, SumZero
<1>9. \A i \in where : g[i] = output_dist(i, n)
  OBVIOUS
<1> HIDE DEF g
<1>10. sum \in Nat /\ (sum = 0 <=> \A i \in where : output_dist(i, n) = 0)
  BY <1>4, <1>8, <1>9
<1> QED  BY <1>6, <1>10 DEF sum

-------------------------------------------------------------------------------
(* The answer.                                                             *)

(* The answer of a rewrite that returned compares the states, *)
LEMMA SiglongjmpAnswers ==
  ASSUME Shape, siglongjmp
  PROVE  /\ response'.signal = 0 /\ pc = LastCall
         /\ response'.reg_dist + response'.stack_dist + response'.heap_dist = 0 <=> Agree
<1> DEFINE n == Len(getReturnRegs(test.type))
           r == MapThenSumSet(LAMBDA i : output_dist(i, n), 1 .. n)
           s == get_mem_dist(mem, target_mem, stack_words)
           h == get_mem_dist(mem, target_mem, Heap)
<1>1. response' = [signal |-> 0, reg_dist |-> r, stack_dist |-> s, heap_dist |-> h]
  BY DEF siglongjmp
<1>2. pc = LastCall
  <2>1. code[pc].op = "call" /\ code[pc].function = "siglongjmp"
    BY DEF siglongjmp, Next_is
  <2> QED  BY <2>1, CallAt
<1>3. IsFiniteSet(stack_words) /\ IsFiniteSet(Heap)
  <2>1. test.fp \in Nat
    BY TestFacts, FrameFacts
  <2>2. StackTop \in Nat /\ HeapSize \in Nat
    BY InstrumenterAssumption
  <2>3. test.fp \in Int /\ StackTop \in Int /\ StackTop - 1 \in Int
        /\ StackTop + HeapSize - 1 \in Int
    BY <2>1, <2>2
  <2> QED  BY <2>3, FS_Interval DEF stack_words, Heap
<1>4. /\ s \in Nat
      /\ s = 0 <=> \A w \in stack_words : \A k \in 0 .. 3 : bit(mem[w], k) = bit(target_mem[w], k)
  BY <1>3, MemDist
<1>5. /\ h \in Nat
      /\ h = 0 <=> \A w \in Heap : \A k \in 0 .. 3 : bit(mem[w], k) = bit(target_mem[w], k)
  BY <1>3, MemDist
<1>6. n \in 0 .. Len(layout) /\ (test.type = "void" => n = 0) /\ (test.type # "void" => n = 1)
  <2>1. Len(layout) \in Nat /\ test.type \in ReturnTypes
    BY TestFacts
  <2>2. CASE test.type = "void"
    <3>1. n = 0
      BY <2>1, <2>2, ReturnRegsFacts
    <3> QED  BY <2>1, <2>2, <3>1
  <2>3. CASE test.type # "void"
    <3>1. n = 1 /\ Len(layout) >= 1
      BY <2>3, LayoutFirst
    <3> QED  BY <2>1, <2>3, <3>1
  <2> QED  BY <2>2, <2>3
<1>7. /\ r \in Nat
      /\ r = 0 <=> \A i \in 1 .. n : \A k \in 0 .. layout[i].size - 1 :
                      data[layout[i].offset + k] = target_reg_data[layout[i].offset + k]
  <2> HIDE DEF n
  <2> QED  BY <1>6, OutputDist
<1>8. r = 0 <=> (test.type # "void" =>
                   \A k \in 0 .. layout[1].size - 1 : data[k] = target_reg_data[k])
  <2> HIDE DEF r, n
  <2>1. CASE test.type = "void"
    BY <1>6, <1>7, <2>1
  <2>2. CASE test.type # "void"
    <3>1. n = 1 /\ layout[1].offset = 0 /\ layout[1].size \in {1, 2, 4}
      BY <1>6, <2>2, LayoutFirst
    <3>2. \A k \in 0 .. layout[1].size - 1 : layout[1].offset + k = k
      BY <3>1
    <3>3. \A i \in 1 .. n : i = 1
      BY <3>1
    <3>4. 1 \in 1 .. n
      BY <3>1
    <3> QED  BY <1>7, <2>2, <3>2, <3>3, <3>4
  <2> QED  BY <2>1, <2>2
<1>9. r + s + h = 0 <=> r = 0 /\ s = 0 /\ h = 0
  <2> HIDE DEF r, s, h
  <2> QED  BY <1>4, <1>5, <1>7
<1> HIDE DEF r, s, h
<1> QED  BY <1>1, <1>2, <1>4, <1>5, <1>8, <1>9 DEF Agree

(* and a child dies at a trap or at a store to the frame only, *)
LEMMA CrashAnswers ==
  ASSUME FrameInv, crash, test.fp = test.first
  PROVE  /\ response'.signal = 1 /\ pc \in BodyAt .. DumpAt - 1
         /\ LET b == test.rewrite[pc - 16]
            IN b.op = "trap" \/ (b.op = "store" /\ b.at \in Protected(test.first))
<1>1. Shape /\ StackPointer /\ FrameReadonly
  BY DEF FrameInv
<1>2. response'.signal = 1
  BY DEF crash, Crash
<1>3. Faults
  <2> SUFFICES ASSUME code[pc] = Call("siglongjmp"), RuntimeFrame \cap readonly # {} PROVE FALSE
    BY DEF crash
  <2>1. code[pc].op = "call" /\ code[pc].function = "siglongjmp"
    BY Fields
  <2>2. pc = LastCall
    BY <1>1, <2>1, CallAt
  <2>3. pc \notin 11 .. UnprotectAt + 3
    BY <1>1, <2>2, Parts
  <2>4. readonly = {}
    BY <1>1, <2>3 DEF FrameReadonly
  <2> QED  BY <2>4
<1>4. readonly \subseteq Protected(test.first)
  BY <1>1 DEF FrameReadonly
<1>5. rsp - 1 \notin Protected(test.first)
  <2>1. rsp - 1 < frame_begin(test.first) /\ rsp \in Addr
    BY <1>1, StackAddress
  <2>2. frame_begin(test.first) \in Int
    BY <1>1, TestFacts, FrameFacts
  <2>3. rsp \in Int
    BY <2>1, InstrumenterAssumption DEF Addr
  <2> QED  BY <2>1, <2>2, <2>3 DEF Protected
<1>6. code[pc].op = "trap" \/ (code[pc].op = "store" /\ code[pc].at \in Protected(test.first))
  BY <1>3, <1>4, <1>5 DEF Faults, Written
<1>7. pc \in BodyAt .. DumpAt - 1 /\ code[pc] = test.rewrite[pc - 16]
  BY <1>1, <1>6, BodyOp
<1> QED  BY <1>2, <1>6, <1>7

(* so that Answered is kept. *)
LEMMA AnsweredStep ==
  ASSUME FrameInv, Answered, [Next]_vars
  PROVE  Answered'
<1>1. /\ test' = test /\ Shape /\ LastCall' = LastCall /\ DumpAt' = DumpAt /\ BodyAt' = BodyAt
      /\ layout' = layout
  BY StepKinds, SameTest DEF FrameInv
<1>2. target_reg_data' = target_reg_data /\ target_mem' = target_mem /\ stack_words' = stack_words
  BY <1>1 DEF target_reg_data, target_mem, stack_words
<1>3. CASE response' = NoResponse
  BY <1>3 DEF Answered, NoResponse
<1>4. CASE siglongjmp
  <2>1. /\ response'.signal = 0 /\ pc = LastCall
        /\ response'.reg_dist + response'.stack_dist + response'.heap_dist = 0 <=> Agree
    BY <1>1, <1>4, SiglongjmpAnswers
  <2>2. pc' = pc /\ mem' = mem /\ data' = data
    BY <1>4 DEF siglongjmp, machine
  <2>3. Agree' <=> Agree
    BY <1>1, <1>2, <2>2 DEF Agree
  <2> QED  BY <1>1, <2>1, <2>2, <2>3 DEF Answered
<1>5. CASE crash
  <2>1. pc' = pc
    BY <1>5 DEF crash, Crash
  <2> SUFFICES ASSUME test.fp = test.first PROVE Answered'
    BY <1>1 DEF Answered
  <2>2. /\ response'.signal = 1 /\ pc \in BodyAt .. DumpAt - 1
        /\ LET b == test.rewrite[pc - 16]
           IN b.op = "trap" \/ (b.op = "store" /\ b.at \in Protected(test.first))
    BY <1>5, CrashAnswers
  <2> QED  BY <1>1, <2>1, <2>2 DEF Answered
<1>6. CASE UNCHANGED vars
  <2>1. response' = response /\ pc' = pc /\ mem' = mem /\ data' = data
    BY <1>6 DEF vars, machine
  <2>2. Agree' <=> Agree
    BY <1>1, <1>2, <2>1 DEF Agree
  <2> QED  BY <1>1, <2>1, <2>2 DEF Answered
<1>7. ASSUME response' # NoResponse, Next, ~ siglongjmp, ~ crash PROVE FALSE
  <2>1. response' = response /\ response = NoResponse
    BY <1>7 DEF Next, mov, movabs, store, push, pop, storeReg, mprotect, Next_is, Proceed
  <2> QED  BY <1>7, <2>1
<1> QED  BY <1>3, <1>4, <1>5, <1>6, <1>7

(* TestInv holds when the rewrite is called. *)
LEMMA TestInvInit == Init => TestInv
<1> SUFFICES ASSUME Init PROVE TestInv
  OBVIOUS
<1>1. FrameInv /\ Shape
  BY FrameInvInit DEF FrameInv
<1>2. /\ pc = 1 /\ reg = EntryRegs /\ mem = EntryMem /\ response = NoResponse
  BY DEF Init
<1>3. BodyAt = 17 /\ DumpAt \in Nat /\ DumpAt >= 17 /\ UnprotectAt \in Nat
  BY <1>1, Parts
<1>4. ArgumentsKept
  BY <1>2 DEF ArgumentsKept
<1>5. BufferAddress
  BY <1>2, <1>3 DEF BufferAddress
<1>6. Executed = 0
  BY <1>1, <1>2, ExecutedFacts
<1>7. Harmless
  BY <1>6 DEF Harmless
<1>8. Simulates
  <2>1. Run(test.rewrite)[0] = Entry
    BY <1>1, TestFacts, RunFacts
  <2>2. pc \notin BodyAt .. DumpAt
    BY <1>2, <1>3
  <2> QED  BY <1>2, <1>6, <2>1, <2>2 DEF Simulates, Entry
<1>9. ResultKept
  <2>1. ~ (pc = DumpAt + 1) /\ ~ (pc > DumpAt + 1)
    BY <1>2, <1>3
  <2> QED  BY <2>1 DEF ResultKept
<1>10. Answered
  BY <1>2 DEF Answered
<1> QED  BY <1>1, <1>4, <1>5, <1>7, <1>8, <1>9, <1>10 DEF TestInv

(* What the parent kept of the target's result. *)
LEMMA TargetDump ==
  ASSUME Shape, test.type # "void", NEW k \in 0 .. layout[1].size - 1
  PROVE  target_reg_data[k] = bit(Plain(test.target).reg["RAX"], k)
<1> DEFINE regs == Plain(test.target).reg
           holds(j) == k \in layout[j].offset .. layout[j].offset + layout[j].size - 1
           i == CHOOSE j \in DOMAIN layout : holds(j)
<1>1. /\ Len(layout) >= 1 /\ layout[1].reg.name = "RAX"
      /\ layout[1].offset = 0 /\ layout[1].size \in {1, 2, 4}
      /\ \A j \in 2 .. Len(layout) : layout[j].offset >= layout[1].size
      /\ reg_buf_size(layout) \in Nat /\ reg_buf_size(layout) >= layout[1].size
  BY LayoutFirst
<1>2. DOMAIN layout = 1 .. Len(layout) /\ Len(layout) \in Nat
  BY TestFacts
<1>3. k \in 0 .. reg_buf_size(layout) - 1 /\ k \in Nat /\ k < layout[1].size
  BY <1>1
<1>4. target_reg_data[k] = bit(regs[layout[i].reg.name], k - layout[i].offset)
  BY <1>3 DEF target_reg_data, dump
<1>5. 1 \in DOMAIN layout /\ holds(1)
  BY <1>1, <1>2, <1>3
<1>6. \A j \in DOMAIN layout : holds(j) => j = 1
  <2> SUFFICES ASSUME NEW j \in DOMAIN layout, holds(j), j # 1 PROVE FALSE
    OBVIOUS
  <2>1. j \in 2 .. Len(layout)
    BY <1>2
  <2>2. layout[j].offset >= layout[1].size
    BY <1>1, <2>1
  <2>3. layout[j].offset \in Nat
    BY <1>2, TestFacts DEF RegInfos
  <2> QED  BY <1>1, <1>3, <2>2, <2>3
<1>7. i = 1
  <2> HIDE DEF holds
  <2> QED  BY <1>5, <1>6
<1> HIDE DEF i, regs
<1>8. k - layout[1].offset = k
  BY <1>1, <1>3
<1> QED  BY <1>1, <1>4, <1>7, <1>8 DEF regs

(* The comparison of the client is the one of the bodies by themselves. *)
LEMMA AgreeIsSame ==
  ASSUME TestInv, pc = LastCall, test.fp = test.first, HasResult(test.rewrite)
  PROVE  Agree <=> /\ SameResult(Plain(test.rewrite), Plain(test.target))
                   /\ \A a \in stack_words \cup Heap :
                         Plain(test.rewrite).mem[a] = Plain(test.target).mem[a]
<1> DEFINE rewrite == Plain(test.rewrite)
           target == Plain(test.target)
<1>1. Shape /\ Simulates /\ ResultKept
  BY DEF TestInv, FrameInv
<1>2. /\ test.rewrite \in Seq(Instructions) /\ test.target \in Seq(Instructions)
      /\ test.fp \in FramePointers
  BY <1>1, TestFacts
<1>3. rewrite \in States /\ target \in States
  <2>1. \A body \in Seq(Instructions) : Plain(body) \in States
    <3> SUFFICES ASSUME NEW body \in Seq(Instructions) PROVE Plain(body) \in States
      OBVIOUS
    <3>1. Len(body) \in 0 .. Len(body)
      BY RunFacts
    <3> QED  BY <3>1, RunFacts DEF Plain
  <2> QED  BY <1>2, <2>1
<1>4. ReadsDefined(test.rewrite)
      /\ (test.type = "void" \/ "RAX" \in Defined(test.rewrite, Len(test.rewrite) + 1))
  BY DEF HasResult, ReadsDefined
<1>5. pc > DumpAt + 1 /\ Executed = Len(test.rewrite)
  <2>1. pc > DumpAt + 1 /\ pc >= DumpAt
    BY <1>1, Parts
  <2> QED  BY <1>1, <2>1, ExecutedFacts
<1>6. \A a \in Addr : a >= test.fp - Locals => mem[a] = rewrite.mem[a]
  BY <1>1, <1>4, <1>5 DEF Simulates, Plain
<1>7. \A a \in stack_words \cup Heap : a \in Addr /\ a >= test.fp - Locals
  <2>1. test.fp \in Nat /\ test.fp < StackTop
    BY <1>2, FrameFacts
  <2>2. Locals \in Nat /\ StackTop \in Nat /\ HeapSize \in Nat
    BY InstrumenterAssumption
  <2> QED  BY <2>1, <2>2 DEF stack_words, Heap, Addr
<1>8. target_mem = target.mem
  BY DEF target_mem
<1> HIDE DEF rewrite, target
<1>9. (\A a \in stack_words \cup Heap : \A k \in 0 .. 3 : bit(mem[a], k) = bit(target_mem[a], k))
      <=> \A a \in stack_words \cup Heap : rewrite.mem[a] = target.mem[a]
  <2>1. ASSUME NEW a \in stack_words \cup Heap
        PROVE  (\A k \in 0 .. 3 : bit(mem[a], k) = bit(target_mem[a], k))
               <=> rewrite.mem[a] = target.mem[a]
    <3>1. mem[a] = rewrite.mem[a] /\ target_mem[a] = target.mem[a]
      BY <1>6, <1>7, <1>8
    <3>2. rewrite.mem[a] \in 0 .. 15 /\ target.mem[a] \in 0 .. 15
      BY <1>3, <1>7 DEF States
    <3>3. (\A k \in 0 .. 3 : bit(rewrite.mem[a], k) = bit(target.mem[a], k)) =>
             rewrite.mem[a] = target.mem[a]
      BY <3>2, BitsDecide
    <3> QED  BY <3>1, <3>3
  <2> QED  BY <2>1
<1>10. (test.type # "void" => \A k \in 0 .. layout[1].size - 1 : data[k] = target_reg_data[k])
       <=> SameResult(rewrite, target)
  <2>1. CASE test.type = "void"
    <3>1. getReturnRegs(test.type) = <<>>
      BY <2>1 DEF getReturnRegs
    <3> QED  BY <2>1, <3>1 DEF SameResult, Range
  <2>2. CASE test.type # "void"
    <3>1. /\ layout[1].reg.name = "RAX" /\ layout[1].reg.size = layout[1].size
          /\ getReturnRegs(test.type) = <<layout[1].reg>>
      BY <1>1, <2>2, LayoutFirst
    <3>2. Range(getReturnRegs(test.type)) = {layout[1].reg}
      BY <3>1 DEF Range
    <3>3. SameResult(rewrite, target) <=>
             \A k \in 0 .. layout[1].size - 1 :
                bit(rewrite.reg["RAX"], k) = bit(target.reg["RAX"], k)
      BY <3>1, <3>2 DEF SameResult
    <3>4. \A k \in 0 .. layout[1].size - 1 : data[k] = bit(rewrite.reg["RAX"], k)
      BY <1>1, <1>4, <1>5, <2>2 DEF ResultKept, rewrite
    <3>5. \A k \in 0 .. layout[1].size - 1 : target_reg_data[k] = bit(target.reg["RAX"], k)
      BY <1>1, <2>2, TargetDump DEF target
    <3> QED  BY <2>2, <3>3, <3>4, <3>5
  <2> QED  BY <2>1, <2>2
<1> QED  BY <1>9, <1>10 DEF Agree, rewrite, target

(* TestInv says that the answer is exact. *)
LEMMA TestInvAnswers == TestInv => ResponseExact
<1> SUFFICES ASSUME TestInv, response # NoResponse, test.fp = test.first
    PROVE  LET rewrite == Plain(test.rewrite)
               target == Plain(test.target)
               intrudes == Stored(test.rewrite) \cap Protected(test.fp) # {}
               same == /\ SameResult(rewrite, target)
                       /\ \A a \in stack_words \cup Heap : rewrite.mem[a] = target.mem[a]
           IN /\ response.signal = 1 <=> rewrite.trapped \/ intrudes
              /\ Stored(test.rewrite) \subseteq Writable(test.fp) =>
                     (response.signal = 1 <=> rewrite.trapped)
              /\ response.signal = 0 /\ HasResult(test.rewrite) =>
                     (response.reg_dist + response.stack_dist + response.heap_dist = 0 <=> same)
  BY DEF ResponseExact
<1> DEFINE n == Len(test.rewrite)
           rewrite == Plain(test.rewrite)
           target == Plain(test.target)
           intrudes == Stored(test.rewrite) \cap Protected(test.fp) # {}
           same == /\ SameResult(rewrite, target)
                   /\ \A a \in stack_words \cup Heap : rewrite.mem[a] = target.mem[a]
           total == response.reg_dist + response.stack_dist + response.heap_dist
<1>1. Shape /\ Harmless /\ Answered
  BY DEF TestInv, FrameInv
<1>2. test.rewrite \in Seq(Instructions) /\ n \in Nat /\ DOMAIN test.rewrite = 1 .. n
  BY <1>1, TestFacts
<1>3. rewrite.trapped <=> \E j \in 1 .. n : test.rewrite[j].op = "trap"
  <2>1. n \in 0 .. n
    BY <1>2
  <2> QED  BY <1>2, <2>1, RunTrapped DEF Plain
<1>7. intrudes <=> \E i \in DOMAIN test.rewrite :
                       /\ test.rewrite[i].op = "store"
                       /\ test.rewrite[i].at \in Protected(test.fp)
  BY DEF Stored
<1>8. Stored(test.rewrite) \subseteq Writable(test.fp) => ~intrudes
  <2>1. test.fp \in FramePointers
    BY <1>1, TestFacts
  <2> QED  BY <2>1, PlaceholderSeparates
<1> DEFINE kept == Stored(test.rewrite) \subseteq Writable(test.fp)
<1>4. \/ response.signal = 0 /\ pc = LastCall /\ (total = 0 <=> Agree)
      \/ /\ response.signal = 1
         /\ pc \in BodyAt .. DumpAt - 1
         /\ LET b == test.rewrite[pc - 16]
            IN b.op = "trap" \/ (b.op = "store" /\ b.at \in Protected(test.first))
  BY <1>1 DEF Answered
<1>5. CASE response.signal = 0 /\ pc = LastCall /\ (total = 0 <=> Agree)
  <2>1. Executed = n
    <3>1. pc >= DumpAt
      BY <1>1, <1>5, Parts
    <3> QED  BY <1>1, <3>1, ExecutedFacts
  <2>2. ~ rewrite.trapped /\ ~ intrudes
    <3> HIDE DEF rewrite, intrudes
    <3> QED  BY <1>1, <1>2, <1>3, <1>7, <2>1 DEF Harmless
  <2>3. HasResult(test.rewrite) => (Agree <=> same)
    BY <1>5, AgreeIsSame
  <2> HIDE DEF rewrite, target, same, intrudes, total, kept
  <2>4. /\ response.signal = 1 <=> rewrite.trapped \/ intrudes
        /\ kept => (response.signal = 1 <=> rewrite.trapped)
        /\ response.signal = 0 /\ HasResult(test.rewrite) => (total = 0 <=> same)
    BY <1>5, <1>8, <2>2, <2>3
  <2> QED  BY <2>4 DEF rewrite, target, same, intrudes, total, kept
<1>6. CASE /\ response.signal = 1
           /\ pc \in BodyAt .. DumpAt - 1
           /\ LET b == test.rewrite[pc - 16]
              IN b.op = "trap" \/ (b.op = "store" /\ b.at \in Protected(test.first))
  <2>1. pc - 16 \in 1 .. n
    <3>1. BodyAt = 17 /\ DumpAt = 17 + n /\ pc \in Nat
      BY <1>1, Parts
    <3> QED  BY <1>2, <1>6, <3>1
  <2>2. rewrite.trapped \/ intrudes
    <3> HIDE DEF rewrite, intrudes
    <3> QED  BY <1>2, <1>3, <1>6, <1>7, <2>1
  <2>3. response.signal = 1 /\ response.signal # 0
    BY <1>6
  <2> HIDE DEF rewrite, target, same, intrudes, total, kept
  <2>4. /\ response.signal = 1 <=> rewrite.trapped \/ intrudes
        /\ kept => (response.signal = 1 <=> rewrite.trapped)
        /\ response.signal = 0 /\ HasResult(test.rewrite) => (total = 0 <=> same)
    <3>1. kept => rewrite.trapped
      BY <1>8, <2>2 DEF kept
    <3> QED  BY <2>2, <2>3, <3>1
  <2> QED  BY <2>4 DEF rewrite, target, same, intrudes, total, kept
<1> HIDE DEF rewrite, target, same, intrudes, total, kept
<1> QED  BY <1>4, <1>5, <1>6 DEF rewrite, target, same, intrudes, total, kept

(* For every target, rewrite, return type, page size and frame: the response to a *)
(* test says exactly how the rewrite by itself compares with the target, and a *)
(* crash exactly that it traps or writes to a page of the frame, of which  *)
(* none holds a word that the code of a test may write (server.c,          *)
(* _server_spawn_worker and spawn_impl; mf_instrument.cpp, instrument).    *)
THEOREM ResponseExactAlways == Spec => []ResponseExact
<1>1. Init => TestInv
  BY TestInvInit
<1>2. TestInv /\ [Next]_vars => TestInv'
  <2> SUFFICES ASSUME TestInv, [Next]_vars PROVE TestInv'
    OBVIOUS
  <2>1. /\ FrameInv /\ ArgumentsKept /\ BufferAddress /\ Harmless /\ Simulates /\ ResultKept
        /\ Answered
    BY DEF TestInv
  <2>2. FrameInv'
    BY <2>1, FrameInvStep
  <2>3. ArgumentsKept'
    BY <2>1, ArgumentsKeptStep
  <2>4. BufferAddress'
    BY <2>1, BufferAddressStep
  <2>5. Harmless'
    BY <2>1, HarmlessStep
  <2>6. Simulates'
    BY <2>1, <2>3, SimulatesStep
  <2>7. ResultKept'
    BY <2>1, ResultKeptStep
  <2>8. Answered'
    BY <2>1, AnsweredStep
  <2> QED  BY <2>2, <2>3, <2>4, <2>5, <2>6, <2>7, <2>8 DEF TestInv
<1>3. TestInv => ResponseExact
  BY TestInvAnswers
<1> QED  BY <1>1, <1>2, <1>3, PTL DEF Spec
================================================================================
