-------------------------- MODULE ComptimeVMProofs --------------------------
(***************************************************************************)
(* Proofs about the comptime machine, for every set of well-formed chunks  *)
(* and every value of the limits.                                          *)
(*                                                                         *)
(* A step does one of four things to the frames and the stack: it leaves   *)
(* both alone, it stays in the running frame, it enters a function or it   *)
(* leaves one.  StepShape sorts the actions into these shapes; every       *)
(* invariant is then shown for the shapes.                                 *)
(***************************************************************************)
EXTENDS ComptimeVM, FiniteSetTheorems, SequenceTheorems, TLAPS

FramesOK ==
    /\ frames \in Seq(FrameType(Chunks))
    /\ Height(stack) \in Nat
    /\ DOMAIN stack = 0 .. Height(stack) - 1
    /\ RegisterWindows

Live == status = "running" => frames # <<>>

Below == 0 .. Top.base - 1

Rests  == UNCHANGED <<frames, stack>>
Stays  == /\ \E i \in 0 .. Len(Code) : Goto(i)
          /\ DOMAIN stack' = DOMAIN stack
          /\ \A r \in Below : stack'[r] = stack[r]
Enters == /\ \E f \in DOMAIN Chunks : \E args : \E least \in Nat : Enter(Chunks[f], args, least)
          /\ Instr.dst \in 0 .. Top.chunk.regs - 1
          /\ Top.ip < Len(Code)
          /\ Len(frames) < MaxDepth
Leaves == /\ frames' = Pop
          /\ DOMAIN stack' = Below
          /\ \A r \in Below :
                \/ stack'[r] = stack[r]
                \/ Len(frames) > 1 /\ r = frames[Len(frames) - 1].base + Top.ret

-----------------------------------------------------------------------------
(* A vector of h registers has height h. *)
LEMMA HeightOf ==
    ASSUME NEW s, NEW h \in Nat, DOMAIN s = 0 .. h - 1
    PROVE  Height(s) = h
<1>1. Cardinality(0 .. h - 1) = IF 0 > h - 1 THEN 0 ELSE (h - 1) - 0 + 1
  BY FS_Interval
<1> QED  BY <1>1 DEF Height

LEMMA AtLeastNat ==
    ASSUME NEW a \in Nat, NEW b \in Nat
    PROVE  AtLeast(a, b) \in Nat /\ a <= AtLeast(a, b) /\ b <= AtLeast(a, b)
  BY DEF AtLeast

(* The running frame is one the invariant speaks of. *)
LEMMA TopFacts ==
    ASSUME FramesOK, frames # <<>>
    PROVE  /\ Len(frames) \in Nat \ {0}
           /\ Top \in FrameType(Chunks)
           /\ Top = frames[Len(frames)]
           /\ WellFormed(Top.chunk)
           /\ Top.chunk.regs \in Nat
           /\ Len(Code) \in Nat
           /\ Top.base \in Nat
           /\ Top.ip \in 0 .. Len(Code)
           /\ Top.base + Top.chunk.regs <= Height(stack)
<1>1. Len(frames) \in Nat \ {0}
  BY DEF FramesOK
<1>2. Top \in FrameType(Chunks)
  BY <1>1 DEF FramesOK, Top
<1>3. WellFormed(Top.chunk)
  BY <1>2, ChunksWellFormed DEF FrameType
<1>4. Top.chunk.regs \in Nat /\ Len(Code) \in Nat
  BY <1>3 DEF WellFormed, Code
<1>5. Top.base \in Nat /\ Top.ip \in Nat
  BY <1>2 DEF FrameType
<1>6. Limit(Len(frames)) = Height(stack)
  BY <1>1 DEF Limit
<1>7. Top.base + Top.chunk.regs <= Height(stack) /\ Top.ip <= Len(Code)
  BY <1>1, <1>6 DEF FramesOK, RegisterWindows, Top, Code
<1> QED  BY <1>1, <1>2, <1>3, <1>4, <1>5, <1>7 DEF Top

(* The instruction under the ip keeps the compiler's promises. *)
LEMMA InstrFacts ==
    ASSUME FramesOK, frames # <<>>, Top.ip < Len(Code)
    PROVE  /\ Instr.op \in Ops
           /\ Registers(Instr) \subseteq 0 .. Top.chunk.regs - 1
           /\ Instr.op \in JumpOps => Top.ip + Instr.offset \in 0 .. Len(Code)
           /\ Instr.op \in CallOps \cup {"AllocArray"} => Instr.count \in Nat
           /\ Top.ip + 1 \in 0 .. Len(Code)
<1>1. Top.ip \in Nat /\ Len(Code) \in Nat /\ WellFormed(Top.chunk)
  BY TopFacts
<1>2. Top.ip + 1 \in 1 .. Len(Code)
  BY <1>1
<1>3. /\ Instr.op \in Ops
      /\ Registers(Instr) \subseteq 0 .. Top.chunk.regs - 1
      /\ Instr.op \in JumpOps => /\ Instr.offset \in Int
                                 /\ (Top.ip + 1) - 1 + Instr.offset \in 0 .. Len(Code)
      /\ Instr.op \in CallOps \cup {"AllocArray"} => Instr.count \in Nat
  BY <1>1, <1>2 DEF WellFormed, Instr, Code
<1> QED  BY <1>1, <1>2, <1>3

-----------------------------------------------------------------------------
(* The shapes of the steps. *)

(* The registers an instruction names are the running frame's own. *)
LEMMA OwnRegister ==
    ASSUME FramesOK, frames # <<>>, NEW r \in 0 .. Top.chunk.regs - 1
    PROVE  /\ Top.base + r \in DOMAIN stack
           /\ Top.base + r \notin Below
           /\ Below \subseteq DOMAIN stack
<1>1. Top.base \in Nat /\ Top.chunk.regs \in Nat /\ Height(stack) \in Nat
      /\ Top.base + Top.chunk.regs <= Height(stack)
  BY TopFacts DEF FramesOK
<1>2. DOMAIN stack = 0 .. Height(stack) - 1
  BY DEF FramesOK
<1>3. Top.base + r \in 0 .. Height(stack) - 1
  BY <1>1
<1>4. Top.base + r \notin Below
  BY <1>1 DEF Below
<1>5. Below \subseteq 0 .. Height(stack) - 1
  BY <1>1 DEF Below
<1> QED  BY <1>2, <1>3, <1>4, <1>5

LEMMA SetRegKeeps ==
    ASSUME FramesOK, frames # <<>>, NEW r \in 0 .. Top.chunk.regs - 1, NEW x, SetReg(r, x)
    PROVE  /\ DOMAIN stack' = DOMAIN stack
           /\ \A q \in Below : stack'[q] = stack[q]
<1>1. Top.base + r \notin Below /\ Below \subseteq DOMAIN stack
  BY OwnRegister
<1>2. stack' = [stack EXCEPT ![Top.base + r] = x]
  BY DEF SetReg
<1> QED  BY <1>1, <1>2

LEMMA AdvanceStays ==
    ASSUME FramesOK, frames # <<>>, Top.ip < Len(Code), Advance
    PROVE  \E i \in 0 .. Len(Code) : Goto(i)
<1>1. Top.ip + 1 \in 0 .. Len(Code)
  BY InstrFacts
<1> QED  BY <1>1 DEF Advance

LEMMA DataShape ==
    ASSUME FramesOK, frames # <<>>, Data
    PROVE  Stays
<1>1. PICK op \in DataOps : At(op)
  BY DEF Data
<1>2. Top.ip < Len(Code) /\ Instr.op \in DataOps
  BY <1>1 DEF At
<1>3. \E i \in 0 .. Len(Code) : Goto(i)
  BY <1>2, AdvanceStays DEF Data
<1>4. Registers(Instr) \subseteq 0 .. Top.chunk.regs - 1
  BY <1>2, InstrFacts
<1>5. Instr.dst \in Registers(Instr)
  BY <1>2 DEF DataOps, Registers
<1>6. CASE UNCHANGED stack
  BY <1>3, <1>6 DEF Stays
<1>7. CASE SetReg(Instr.dst, Computed(Instr))
  BY <1>3, <1>4, <1>5, <1>7, SetRegKeeps DEF Stays
<1> QED  BY <1>6, <1>7 DEF Data

LEMMA AllocArrayShape ==
    ASSUME FramesOK, frames # <<>>, AllocArray
    PROVE  Stays
<1>2. Top.ip < Len(Code) /\ Instr.op = "AllocArray"
  BY DEF At, AllocArray
<1>3. \E i \in 0 .. Len(Code) : Goto(i)
  BY <1>2, AdvanceStays DEF AllocArray
<1>4. Registers(Instr) \subseteq 0 .. Top.chunk.regs - 1
  BY <1>2, InstrFacts
<1>5. Instr.dst \in Registers(Instr)
  BY <1>2 DEF Registers
<1>6. CASE UNCHANGED stack
  BY <1>3, <1>6 DEF Stays
<1>7. ASSUME NEW x, SetReg(Instr.dst, x)
      PROVE  Stays
  BY <1>3, <1>4, <1>5, <1>7, SetRegKeeps DEF Stays
<1> QED  BY <1>6, <1>7 DEF AllocArray

LEMMA JumpShape ==
    ASSUME FramesOK, frames # <<>>, Jump \/ JumpIf \/ LoopStep \/ AssertTrue
    PROVE  Stays
<1>1. ASSUME Top.ip < Len(Code), Instr.op \in JumpOps
      PROVE  Top.ip + Instr.offset \in 0 .. Len(Code)
  BY <1>1, InstrFacts
<1>2. CASE Jump
  BY <1>1, <1>2 DEF Jump, At, JumpOps, Stays
<1>3. CASE JumpIf
  <2>1. Top.ip < Len(Code) /\ Instr.op \in JumpOps
    BY <1>3 DEF JumpIf, At, JumpOps
  <2>2. \E i \in 0 .. Len(Code) : Goto(i)
    BY <1>1, <1>3, <2>1, AdvanceStays DEF JumpIf
  <2> QED  BY <1>3, <2>2 DEF JumpIf, Stays
<1>4. CASE LoopStep
  <2>1. Top.ip < Len(Code) /\ Instr.op = "LoopStep"
    BY <1>4 DEF LoopStep, At
  <2>2. \E i \in 0 .. Len(Code) : Goto(i)
    BY <1>1, <1>4, <2>1, AdvanceStays DEF LoopStep, JumpOps
  <2>3. Registers(Instr) \subseteq 0 .. Top.chunk.regs - 1
    BY <2>1, InstrFacts
  <2>4. Instr.dst \in Registers(Instr)
    BY <2>1 DEF Registers
  <2>5. PICK x : SetReg(Instr.dst, x)
    BY <1>4 DEF LoopStep
  <2>6. Instr.dst \in 0 .. Top.chunk.regs - 1
    BY <2>3, <2>4
  <2>7. DOMAIN stack' = DOMAIN stack /\ \A q \in Below : stack'[q] = stack[q]
    BY <2>5, <2>6, SetRegKeeps
  <2> QED  BY <2>2, <2>7 DEF Stays
<1>5. CASE AssertTrue
  <2>1. Top.ip < Len(Code)
    BY <1>5 DEF AssertTrue, At
  <2>2. \E i \in 0 .. Len(Code) : Goto(i)
    BY <1>5, <2>1, AdvanceStays DEF AssertTrue
  <2> QED  BY <1>5, <2>2 DEF AssertTrue, Stays
<1> QED  BY <1>2, <1>3, <1>4, <1>5

LEMMA CallShape ==
    ASSUME FramesOK, frames # <<>>, Call
    PROVE  Stays \/ Enters
<1>1. Top.ip < Len(Code) /\ Instr.op = "Call"
  BY DEF At, Call
<1>2. Registers(Instr) \subseteq 0 .. Top.chunk.regs - 1
  BY <1>1, InstrFacts
<1>3. Instr.dst \in Registers(Instr)
  BY <1>1 DEF Registers
<1>4. CASE Advance /\ UNCHANGED stack
  BY <1>1, <1>4, AdvanceStays DEF Stays
<1>5. CASE /\ Len(frames) < MaxDepth
           /\ Instr.fn \in DOMAIN Chunks
           /\ Enter(Chunks[Instr.fn], Arguments, CallRegs)
  BY <1>1, <1>2, <1>3, <1>5, LimitsAreNumbers DEF Enters
<1> QED  BY <1>4, <1>5 DEF Call

LEMMA CallMethodShape ==
    ASSUME FramesOK, frames # <<>>, CallMethod
    PROVE  Stays \/ Enters
<1>1. Top.ip < Len(Code) /\ Instr.op = "CallMethod"
  BY DEF At, CallMethod
<1>2. Registers(Instr) \subseteq 0 .. Top.chunk.regs - 1 /\ Instr.count \in Nat
  BY <1>1, InstrFacts DEF CallOps
<1>3. Instr.dst \in Registers(Instr)
  BY <1>1 DEF Registers
<1>4. CASE Advance /\ UNCHANGED stack
  BY <1>1, <1>4, AdvanceStays DEF Stays
<1> DEFINE target == Reg(Instr.src)
           name   == <<target.name>> \o Instr.fn
           args   == <<target>> \o Arguments
<1>5. CASE /\ name \in DOMAIN Chunks
           /\ Len(frames) < MaxDepth
           /\ Enter(Chunks[name], args, AtLeast(Len(args), MethodRegs))
  <2>1. Arguments \in Seq({Reg(Instr.args + k - 1) : k \in 1 .. Instr.count})
    BY <1>2 DEF Arguments
  <2>2. Len(args) \in Nat
    BY <2>1
  <2>3. AtLeast(Len(args), MethodRegs) \in Nat
    BY <2>2, AtLeastNat, LimitsAreNumbers
  <2>4. Instr.dst \in 0 .. Top.chunk.regs - 1
    BY <1>2, <1>3
  <2> HIDE DEF name, args
  <2> QED  BY <1>1, <1>5, <2>3, <2>4 DEF Enters
<1> QED  BY <1>4, <1>5 DEF CallMethod

LEMMA MoreThanOne == ASSUME NEW n \in Nat \ {0}, n # 1 PROVE n > 1
  OBVIOUS

LEMMA ReturnShape ==
    ASSUME FramesOK, frames # <<>>, Return
    PROVE  Leaves
<1>1. Top.base \in Nat /\ Len(frames) \in Nat \ {0}
  BY TopFacts
<1>2. CASE Len(frames) = 1
  BY <1>1, <1>2 DEF Return, Leaves, Truncate, Below
<1>3. CASE Len(frames) # 1
  <2> DEFINE low == Truncate(stack, Top.base)
             at  == frames[Len(frames) - 1].base + Top.ret
  <2>1. DOMAIN low = Below /\ \A r \in Below : low[r] = stack[r]
    BY DEF Truncate, Below
  <2>2. stack' = [low EXCEPT ![at] = Reg(Instr.src)]
    BY <1>3 DEF Return
  <2> HIDE DEF low
  <2>3. DOMAIN stack' = Below /\ \A r \in Below : stack'[r] = stack[r] \/ r = at
    BY <2>1, <2>2
  <2>4. Len(frames) > 1
    BY <1>1, <1>3, MoreThanOne
  <2>5. frames' = Pop
    BY DEF Return
  <2> QED  BY <2>3, <2>4, <2>5 DEF Leaves
<1> QED  BY <1>2, <1>3

LEMMA EndShape ==
    ASSUME FramesOK, frames # <<>>, EndOfCode
    PROVE  Leaves
  BY DEF EndOfCode, Leaves, Truncate, Below

LEMMA StepShape ==
    ASSUME FramesOK, frames # <<>>, Step
    PROVE  Rests \/ Stays \/ Enters \/ Leaves
<1>1. CASE OutOfFuel
  BY <1>1 DEF OutOfFuel, Rests
<1> QED  BY <1>1, DataShape, AllocArrayShape, JumpShape, CallShape, CallMethodShape,
            ReturnShape, EndShape DEF Step

-----------------------------------------------------------------------------
(* Each shape keeps the frames in order. *)

LEMMA StaysOK ==
    ASSUME FramesOK, frames # <<>>, Stays
    PROVE  FramesOK' /\ frames' # <<>> /\ Len(frames') = Len(frames)
<1>1. Len(frames) \in Nat \ {0} /\ Top = frames[Len(frames)] /\ Len(Code) \in Nat
  BY TopFacts
<1>2. PICK i \in 0 .. Len(Code) : frames' = [frames EXCEPT ![Len(frames)].ip = i]
  BY DEF Stays, Goto
<1>3. frames \in Seq(FrameType(Chunks)) /\ i \in Nat
  BY <1>1 DEF FramesOK
<1>4. /\ frames' \in Seq(FrameType(Chunks))
      /\ Len(frames') = Len(frames)
      /\ \A k \in 1 .. Len(frames) :
            /\ frames'[k].chunk = frames[k].chunk
            /\ frames'[k].base = frames[k].base
            /\ frames'[k].ret = frames[k].ret
            /\ frames'[k].ip = IF k = Len(frames) THEN i ELSE frames[k].ip
  <2>1. frames[Len(frames)] \in FrameType(Chunks)
    BY <1>1, <1>3
  <2>2. [frames[Len(frames)] EXCEPT !.ip = i] \in FrameType(Chunks)
    BY <1>3, <2>1 DEF FrameType
  <2>3. frames' = [frames EXCEPT ![Len(frames)] = [frames[Len(frames)] EXCEPT !.ip = i]]
    BY <1>2
  <2>4. frames' \in Seq(FrameType(Chunks)) /\ Len(frames') = Len(frames)
    BY <1>1, <1>3, <2>2, <2>3
  <2>5. \A k \in 1 .. Len(frames) : frames[k] \in FrameType(Chunks)
    BY <1>3
  <2> QED  BY <1>1, <2>1, <2>3, <2>4, <2>5 DEF FrameType
<1>5. Height(stack') = Height(stack)
  BY DEF Stays, Height
<1>6. \A k \in 1 .. Len(frames) : Limit(k)' = Limit(k)
  BY <1>1, <1>4, <1>5 DEF Limit
<1>7. frames'[Len(frames)].ip <= Len(frames'[Len(frames)].chunk.code)
  BY <1>1, <1>3, <1>4 DEF Code
<1>8. RegisterWindows'
  <2> SUFFICES ASSUME NEW k \in 1 .. Len(frames)
               PROVE  /\ frames'[k].base + frames'[k].chunk.regs <= Limit(k)'
                      /\ frames'[k].ip <= Len(frames'[k].chunk.code)
                      /\ k > 1 => frames'[k].ret \in 0 .. frames'[k - 1].chunk.regs - 1
    BY <1>4 DEF RegisterWindows
  <2>1. /\ frames[k].base + frames[k].chunk.regs <= Limit(k)
        /\ frames[k].ip <= Len(frames[k].chunk.code)
        /\ k > 1 => frames[k].ret \in 0 .. frames[k - 1].chunk.regs - 1
    BY DEF FramesOK, RegisterWindows
  <2>2. frames'[k].base + frames'[k].chunk.regs <= Limit(k)'
    BY <1>4, <1>6, <2>1
  <2>3. frames'[k].ip <= Len(frames'[k].chunk.code)
    BY <1>4, <1>7, <2>1
  <2>4. k > 1 => frames'[k - 1].chunk = frames[k - 1].chunk
    BY <1>1, <1>4
  <2> QED  BY <1>4, <2>1, <2>2, <2>3, <2>4
<1>9. Height(stack)' \in Nat /\ DOMAIN stack' = 0 .. Height(stack)' - 1
  BY <1>5 DEF FramesOK, Stays, Height
<1> QED  BY <1>1, <1>4, <1>8, <1>9 DEF FramesOK

LEMMA LeavesOK ==
    ASSUME FramesOK, frames # <<>>, Leaves
    PROVE  /\ FramesOK'
           /\ Len(frames') = Len(frames) - 1
           /\ Len(frames) # 1 => frames' # <<>>
<1>1. Len(frames) \in Nat \ {0} /\ Top = frames[Len(frames)] /\ Top.base \in Nat
  BY TopFacts
<1>2. /\ frames' \in Seq(FrameType(Chunks))
      /\ Len(frames') = Len(frames) - 1
      /\ \A k \in 1 .. Len(frames) - 1 : frames'[k] = frames[k]
  <2>1. frames \in Seq(FrameType(Chunks))
    BY DEF FramesOK
  <2> DEFINE n == Len(frames) - 1
  <2>2. n \in Nat /\ \A k \in 1 .. n : frames[k] \in FrameType(Chunks)
    BY <1>1, <2>1
  <2> HIDE DEF n, FrameType
  <2>3. /\ SubSeq(frames, 1, n) \in Seq(FrameType(Chunks))
        /\ Len(SubSeq(frames, 1, n)) = IF 1 <= n THEN n - 1 + 1 ELSE 0
        /\ \A k \in 1 .. n - 1 + 1 : SubSeq(frames, 1, n)[k] = frames[1 + k - 1]
    BY <2>2, SubSeqProperties
  <2>4. /\ Len(SubSeq(frames, 1, n)) = n
        /\ \A k \in 1 .. n : SubSeq(frames, 1, n)[k] = frames[k]
    BY <2>2, <2>3
  <2>5. frames' = SubSeq(frames, 1, n)
    BY DEF n, Leaves, Pop
  <2> QED  BY <2>3, <2>4, <2>5 DEF n
<1>3. DOMAIN stack' = 0 .. Top.base - 1
  BY DEF Leaves, Below
<1>4. Height(stack') = Top.base
  BY <1>1, <1>3, HeightOf
<1>5. \A k \in 1 .. Len(frames) - 1 : Limit(k)' = Limit(k)
  <2> SUFFICES ASSUME NEW k \in 1 .. Len(frames) - 1  PROVE Limit(k)' = Limit(k)
    OBVIOUS
  <2>1. Limit(k) = frames[k + 1].base
    BY <1>1 DEF Limit
  <2>2. Limit(k)' = IF k < Len(frames') THEN frames'[k + 1].base ELSE Height(stack')
    BY DEF Limit
  <2>3. CASE k < Len(frames) - 1
    BY <1>1, <1>2, <2>1, <2>2, <2>3
  <2>4. CASE k = Len(frames) - 1
    BY <1>1, <1>2, <1>4, <2>1, <2>2, <2>4
  <2> QED  BY <1>1, <2>3, <2>4
<1>6. RegisterWindows'
  <2> SUFFICES ASSUME NEW k \in 1 .. Len(frames) - 1
               PROVE  /\ frames'[k].base + frames'[k].chunk.regs <= Limit(k)'
                      /\ frames'[k].ip <= Len(frames'[k].chunk.code)
                      /\ k > 1 => frames'[k].ret \in 0 .. frames'[k - 1].chunk.regs - 1
    BY <1>2 DEF RegisterWindows
  <2>1. k \in 1 .. Len(frames)
    BY <1>1
  <2>2. /\ frames[k].base + frames[k].chunk.regs <= Limit(k)
        /\ frames[k].ip <= Len(frames[k].chunk.code)
        /\ k > 1 => frames[k].ret \in 0 .. frames[k - 1].chunk.regs - 1
    BY <2>1 DEF FramesOK, RegisterWindows
  <2>3. frames'[k] = frames[k] /\ (k > 1 => frames'[k - 1] = frames[k - 1])
    BY <1>1, <1>2
  <2> QED  BY <1>5, <2>2, <2>3
<1>7. Height(stack)' = Top.base
  BY <1>4 DEF Height
<1>8. Len(frames) # 1 => frames' # <<>>
  BY <1>1, <1>2
<1> QED  BY <1>1, <1>2, <1>3, <1>6, <1>7, <1>8 DEF FramesOK

LEMMA EntersOK ==
    ASSUME FramesOK, frames # <<>>, Enters
    PROVE  /\ FramesOK'
           /\ Len(frames') = Len(frames) + 1
           /\ Len(frames) < MaxDepth
           /\ \A r \in DOMAIN stack : stack'[r] = stack[r]
<1>1. /\ Len(frames) \in Nat \ {0}
      /\ Top = frames[Len(frames)] /\ Top \in FrameType(Chunks)
      /\ Top.chunk.regs \in Nat /\ Top.base \in Nat
      /\ Top.base + Top.chunk.regs <= Height(stack)
      /\ Len(Code) \in Nat /\ Top.ip \in 0 .. Len(Code)
  BY TopFacts
<1>2. PICK f \in DOMAIN Chunks : \E args : \E least \in Nat : Enter(Chunks[f], args, least)
  BY DEF Enters
<1>2_args. PICK args : \E least \in Nat : Enter(Chunks[f], args, least)
  BY <1>2
<1>2_least. PICK least \in Nat : Enter(Chunks[f], args, least)
  BY <1>2_args
<1>3. Instr.dst \in 0 .. Top.chunk.regs - 1 /\ Top.ip < Len(Code) /\ Len(frames) < MaxDepth
  BY DEF Enters
<1> DEFINE base   == Height(stack)
           window == AtLeast(Chunks[f].regs, least)
           up     == [frames EXCEPT ![Len(frames)].ip = Top.ip + 1]
           new    == Frame(Chunks[f], base, Instr.dst)
<1>4. /\ Chunks[f].regs \in Nat /\ Len(Chunks[f].code) \in Nat
      /\ window \in Nat /\ Chunks[f].regs <= window /\ base \in Nat
  <2>1. Chunks[f].regs \in Nat /\ Len(Chunks[f].code) \in Nat
    BY ChunksWellFormed DEF WellFormed
  <2> QED  BY <1>2_least, <2>1, AtLeastNat DEF FramesOK
<1>5. /\ DOMAIN stack' = 0 .. base + window - 1
      /\ \A r \in 0 .. base + window - 1 : r < base => stack'[r] = stack[r]
      /\ frames' = Append(up, new)
  <2>1. /\ stack' = [i \in 0 .. base + window - 1 |->
                        IF i < base THEN stack[i]
                        ELSE IF i - base < Len(args) THEN args[i - base + 1] ELSE Void]
        /\ frames' = Append(up, new)
    BY <1>2_least DEF Enter
  <2> HIDE DEF base, window, up, new
  <2> QED  BY <1>4, <2>1
<1> HIDE DEF window
<1>6. Height(stack') = base + window
  BY <1>4, <1>5, HeightOf
<1>7. new \in FrameType(Chunks)
  <2>1. Instr.dst \in Nat
    BY <1>1, <1>3
  <2> HIDE DEF base
  <2> QED  BY <1>4, <2>1 DEF Frame, FrameType, new
<1>8. /\ up \in Seq(FrameType(Chunks))
      /\ Len(up) = Len(frames)
      /\ \A k \in 1 .. Len(frames) :
            /\ up[k].chunk = frames[k].chunk
            /\ up[k].base = frames[k].base
            /\ up[k].ret = frames[k].ret
            /\ up[k].ip = IF k = Len(frames) THEN Top.ip + 1 ELSE frames[k].ip
  <2>1. Top.ip + 1 \in Nat /\ frames \in Seq(FrameType(Chunks))
    BY <1>1 DEF FramesOK
  <2>2. [Top EXCEPT !.ip = Top.ip + 1] \in FrameType(Chunks)
    BY <1>1, <2>1 DEF FrameType
  <2>3. up = [frames EXCEPT ![Len(frames)] = [Top EXCEPT !.ip = Top.ip + 1]]
    BY <1>1
  <2>4. up \in Seq(FrameType(Chunks)) /\ Len(up) = Len(frames)
    BY <1>1, <2>1, <2>2, <2>3
  <2>5. \A k \in 1 .. Len(frames) :
           up[k] = IF k = Len(frames) THEN [Top EXCEPT !.ip = Top.ip + 1] ELSE frames[k]
    BY <1>1, <2>1, <2>3
  <2> HIDE DEF up
  <2>6. /\ [Top EXCEPT !.ip = Top.ip + 1].ip = Top.ip + 1
        /\ [Top EXCEPT !.ip = Top.ip + 1].chunk = Top.chunk
        /\ [Top EXCEPT !.ip = Top.ip + 1].base = Top.base
        /\ [Top EXCEPT !.ip = Top.ip + 1].ret = Top.ret
    BY <1>1 DEF FrameType
  <2>7. ASSUME NEW k \in 1 .. Len(frames)
        PROVE  /\ up[k].chunk = frames[k].chunk
               /\ up[k].base = frames[k].base
               /\ up[k].ret = frames[k].ret
               /\ up[k].ip = IF k = Len(frames) THEN Top.ip + 1 ELSE frames[k].ip
    BY <1>1, <2>5, <2>6
  <2> QED  BY <2>4, <2>7
<1> HIDE DEF up, new
<1>9. /\ frames' \in Seq(FrameType(Chunks))
      /\ Len(frames') = Len(frames) + 1
      /\ \A k \in 1 .. Len(frames) : frames'[k] = up[k]
      /\ frames'[Len(frames) + 1] = new
  BY <1>1, <1>5, <1>7, <1>8
<1>10. /\ new.base = base /\ new.chunk = Chunks[f] /\ new.ip = 0 /\ new.ret = Instr.dst
  BY DEF new, Frame
<1>11. \A k \in 1 .. Len(frames) : Limit(k)' = Limit(k)
  <2> SUFFICES ASSUME NEW k \in 1 .. Len(frames)  PROVE Limit(k)' = Limit(k)
    OBVIOUS
  <2>1. Limit(k)' = frames'[k + 1].base
    BY <1>1, <1>9 DEF Limit
  <2>2. CASE k < Len(frames)
    <3>1. k + 1 \in 1 .. Len(frames)
      BY <1>1, <2>2
    <3>2. frames'[k + 1].base = frames[k + 1].base
      BY <1>8, <1>9, <3>1
    <3>3. Limit(k) = frames[k + 1].base
      BY <2>2 DEF Limit
    <3> QED  BY <2>1, <3>2, <3>3
  <2>3. CASE k = Len(frames)
    BY <1>1, <1>9, <1>10, <2>1, <2>3 DEF Limit
  <2> QED  BY <1>1, <2>2, <2>3
<1>12. RegisterWindows'
  <2> SUFFICES ASSUME NEW k \in 1 .. Len(frames) + 1
               PROVE  /\ frames'[k].base + frames'[k].chunk.regs <= Limit(k)'
                      /\ frames'[k].ip <= Len(frames'[k].chunk.code)
                      /\ k > 1 => frames'[k].ret \in 0 .. frames'[k - 1].chunk.regs - 1
    BY <1>9 DEF RegisterWindows
  <2>1. CASE k \in 1 .. Len(frames)
    <3>1. /\ frames[k].base + frames[k].chunk.regs <= Limit(k)
          /\ frames[k].ip <= Len(frames[k].chunk.code)
          /\ k > 1 => frames[k].ret \in 0 .. frames[k - 1].chunk.regs - 1
      BY <2>1 DEF FramesOK, RegisterWindows
    <3>2. /\ frames'[k].chunk = frames[k].chunk /\ frames'[k].base = frames[k].base
          /\ frames'[k].ret = frames[k].ret
      BY <1>8, <1>9, <2>1
    <3>3. ASSUME k > 1
          PROVE  frames'[k - 1].chunk = frames[k - 1].chunk
      <4>1. k - 1 \in 1 .. Len(frames)
        BY <1>1, <2>1, <3>3
      <4>2. frames'[k - 1] = up[k - 1]
        BY <1>9, <4>1
      <4> QED  BY <1>8, <4>1, <4>2
    <3>4. CASE k = Len(frames)
      <4>1. frames'[k].ip = Top.ip + 1
        BY <1>8, <1>9, <2>1, <3>4
      <4>2. Len(frames'[k].chunk.code) = Len(Code)
        BY <1>1, <3>2, <3>4 DEF Code
      <4>3. frames'[k].ip <= Len(frames'[k].chunk.code)
        BY <1>1, <1>3, <4>1, <4>2
      <4> QED  BY <1>11, <2>1, <3>1, <3>2, <3>3, <4>3
    <3>5. CASE k # Len(frames)
      BY <1>8, <1>9, <1>11, <2>1, <3>1, <3>2, <3>3, <3>5
    <3> QED  BY <3>4, <3>5
  <2>2. CASE k = Len(frames) + 1
    <3>1. Limit(k)' = base + window
      BY <1>1, <1>6, <1>9, <2>2 DEF Limit
    <3>2. frames'[k] = new /\ frames'[k - 1].chunk = Top.chunk
      BY <1>1, <1>8, <1>9, <2>2
    <3>3. frames'[k].base + frames'[k].chunk.regs <= Limit(k)'
      <4>1. frames'[k].base = base /\ frames'[k].chunk.regs = Chunks[f].regs
        BY <1>10, <3>2
      <4> QED  BY <1>4, <3>1, <4>1
    <3>4. frames'[k].ip <= Len(frames'[k].chunk.code)
      <4>1. frames'[k].ip = 0 /\ frames'[k].chunk.code = Chunks[f].code
        BY <1>10, <3>2
      <4> QED  BY <1>4, <4>1
    <3>5. frames'[k].ret \in 0 .. frames'[k - 1].chunk.regs - 1
      <4>1. frames'[k].ret = Instr.dst
        BY <1>10, <3>2
      <4> QED  BY <1>3, <3>2, <4>1
    <3> QED  BY <3>3, <3>4, <3>5
  <2> QED  BY <1>1, <2>1, <2>2
<1>13. Height(stack)' = base + window
  BY <1>6 DEF Height
<1>14. \A r \in DOMAIN stack : stack'[r] = stack[r]
  <2>1. DOMAIN stack = 0 .. base - 1
    BY DEF FramesOK
  <2> QED  BY <1>4, <1>5, <2>1
<1> QED  BY <1>3, <1>4, <1>5, <1>9, <1>12, <1>13, <1>14 DEF FramesOK

-----------------------------------------------------------------------------
(* The inductive invariant.  The type of the frames, the windows and the   *)
(* liveness of the stack depend on each other: the windows are what makes  *)
(* an instruction's write hit the stack, and a run that has no frame left  *)
(* must have stopped before the next instruction is fetched.               *)
Statuses == {"running", "done", "fuel", "depth", "unknown", "type", "memory", "assert"}
Scalars  == /\ fuel \in 0 .. Budget
            /\ allocated \in Nat
            /\ status \in Statuses

MachineInv ==
    /\ entry \in Entry
    /\ FramesOK
    /\ Scalars
    /\ Live
    /\ RecursionBounded

LEMMA InitInv == Init => MachineInv
<1> SUFFICES ASSUME Init  PROVE MachineInv
  OBVIOUS
<1>1. /\ Chunks[entry].regs \in Nat /\ Len(Chunks[entry].code) \in Nat
      /\ entry \in DOMAIN Chunks
  BY ChunksWellFormed DEF Init, WellFormed
<1> DEFINE f == Frame(Chunks[entry], 0, NoReg)
           h == AtLeast(Chunks[entry].regs, CallRegs)
<1>2. h \in Nat /\ Chunks[entry].regs <= h
  BY <1>1, AtLeastNat, LimitsAreNumbers
<1>3. /\ f \in FrameType(Chunks) /\ f.base = 0 /\ f.ip = 0 /\ f.chunk = Chunks[entry]
  BY <1>1 DEF Frame, FrameType
<1> HIDE DEF f
<1>4. frames = <<f>> /\ Len(frames) = 1 /\ frames[1] = f
  BY DEF Init, f
<1>5. DOMAIN stack = 0 .. h - 1
  BY <1>3, <1>4 DEF Init, Top
<1> HIDE DEF h
<1>6. Height(stack) = h
  BY <1>2, <1>5, HeightOf
<1>7. RegisterWindows
  BY <1>1, <1>2, <1>3, <1>4, <1>6 DEF RegisterWindows, Limit
<1>8. FramesOK
  BY <1>2, <1>3, <1>4, <1>5, <1>6, <1>7 DEF FramesOK
<1>9. entry \in Entry /\ Scalars /\ Live /\ RecursionBounded
  BY <1>4, LimitsAreNumbers DEF Init, Scalars, Statuses, Live, RecursionBounded
<1> QED  BY <1>8, <1>9 DEF MachineInv

(* Only a running machine takes a step, so it has a frame. *)
LEMMA StepRuns ==
    ASSUME MachineInv, Step
    PROVE  status = "running" /\ frames # <<>> /\ FramesOK
<1>1. status = "running"
  <2>1. CASE OutOfFuel
    BY <2>1 DEF OutOfFuel
  <2>2. CASE EndOfCode
    BY <2>2 DEF EndOfCode, Running
  <2>3. CASE Data
    BY <2>3 DEF Data, At, Running
  <2>4. CASE AllocArray
    BY <2>4 DEF AllocArray, At, Running
  <2>5. CASE Jump \/ JumpIf \/ LoopStep \/ AssertTrue
    BY <2>5 DEF Jump, JumpIf, LoopStep, AssertTrue, At, Running
  <2>6. CASE Call \/ CallMethod \/ Return
    BY <2>6 DEF Call, CallMethod, Return, At, Running
  <2> QED  BY <2>1, <2>2, <2>3, <2>4, <2>5, <2>6 DEF Step
<1> QED  BY <1>1 DEF MachineInv, Live

LEMMA StepFrames ==
    ASSUME MachineInv, Step
    PROVE  FramesOK' /\ Len(frames') <= MaxDepth
<1>1. frames # <<>> /\ FramesOK
  BY StepRuns
<1>2. Len(frames) \in Nat \ {0} /\ Len(frames) <= MaxDepth /\ MaxDepth \in Nat
  BY <1>1, TopFacts, LimitsAreNumbers DEF MachineInv, RecursionBounded
<1>3. CASE Rests
  <2>1. frames' = frames /\ stack' = stack
    BY <1>3 DEF Rests
  <2>2. FramesOK'
    BY <1>1, <2>1 DEF FramesOK, RegisterWindows, Limit, Height
  <2> QED  BY <1>2, <2>1, <2>2
<1>4. CASE Stays
  BY <1>1, <1>2, <1>4, StaysOK
<1>5. CASE Enters
  BY <1>1, <1>2, <1>5, EntersOK
<1>6. CASE Leaves
  BY <1>1, <1>2, <1>6, LeavesOK
<1> QED  BY <1>1, <1>3, <1>4, <1>5, <1>6, StepShape

(* Each turn burns fuel, and there is some to burn. *)
LEMMA StepScalars ==
    ASSUME MachineInv, Step
    PROVE  Scalars'
<1>1. fuel \in 0 .. Budget /\ allocated \in Nat /\ status \in Statuses /\ Budget \in Nat
  BY LimitsAreNumbers DEF MachineInv, Scalars
<1>2. fuel > 0 /\ Burn => fuel' \in 0 .. Budget
  BY <1>1 DEF Burn
<1>3. CASE OutOfFuel
  BY <1>1, <1>3 DEF OutOfFuel, Halt, Scalars, Statuses
<1>4. CASE EndOfCode
  BY <1>1, <1>2, <1>4 DEF EndOfCode, Running, Scalars, Statuses
<1>5. CASE Data
  <2>1. Running
    BY <1>5 DEF Data, At
  <2>2. status' \in Statuses
    BY <1>1, <1>5 DEF Data, Halt, Statuses
  <2> QED  BY <1>1, <1>2, <1>5, <2>1, <2>2 DEF Data, Running, Scalars
<1>6. CASE AllocArray
  <2>1. Running /\ Instr.op = "AllocArray" /\ Top.ip < Len(Code)
    BY <1>6 DEF AllocArray, At
  <2>2. Instr.count \in Nat
    BY <2>1, InstrFacts, StepRuns
  <2>3. status' \in Statuses
    BY <1>1, <1>6 DEF AllocArray, Halt, Statuses
  <2>4. allocated' \in Nat
    BY <1>1, <1>6, <2>2 DEF AllocArray
  <2> QED  BY <1>2, <1>6, <2>1, <2>3, <2>4 DEF AllocArray, Running, Scalars
<1>7. CASE Jump
  BY <1>1, <1>2, <1>7 DEF Jump, At, Running, Scalars
<1>8. CASE JumpIf
  BY <1>1, <1>2, <1>8 DEF JumpIf, At, Running, Scalars
<1>9. CASE LoopStep
  BY <1>1, <1>2, <1>9 DEF LoopStep, At, Running, Scalars
<1>10. CASE AssertTrue
  <2>1. status' \in Statuses
    BY <1>1, <1>10 DEF AssertTrue, Halt, Statuses
  <2> QED  BY <1>1, <1>2, <1>10, <2>1 DEF AssertTrue, At, Running, Scalars
<1>11. CASE Call
  <2>1. status' \in Statuses
    BY <1>1, <1>11 DEF Call, Halt, Statuses
  <2> QED  BY <1>1, <1>2, <1>11, <2>1 DEF Call, At, Running, Scalars
<1>12. CASE CallMethod
  <2>1. status' \in Statuses
    BY <1>1, <1>12 DEF CallMethod, Halt, Statuses
  <2> QED  BY <1>1, <1>2, <1>12, <2>1 DEF CallMethod, At, Running, Scalars
<1>13. CASE Return
  <2>1. status' \in Statuses
    BY <1>1, <1>13 DEF Return, Statuses
  <2> QED  BY <1>1, <1>2, <1>13, <2>1 DEF Return, At, Running, Scalars
<1> QED  BY <1>3, <1>4, <1>5, <1>6, <1>7, <1>8, <1>9, <1>10, <1>11, <1>12, <1>13 DEF Step

(* The last frame's end stops the machine. *)
LEMMA StepLive ==
    ASSUME MachineInv, Step
    PROVE  Live'
<1>1. status = "running" /\ frames # <<>> /\ FramesOK
  BY StepRuns
<1>2. CASE OutOfFuel
  BY <1>2 DEF OutOfFuel, Halt, Live
<1>3. CASE EndOfCode \/ Return
  <2>1. Leaves
    BY <1>1, <1>3, EndShape, ReturnShape
  <2>2. Len(frames) # 1 => frames' # <<>>
    BY <1>1, <2>1, LeavesOK
  <2>3. Len(frames) = 1 => status' = "done"
    BY <1>3 DEF EndOfCode, Return
  <2> QED  BY <2>2, <2>3 DEF Live
<1>4. CASE Data \/ AllocArray \/ Jump \/ JumpIf \/ LoopStep \/ AssertTrue
  <2>1. Stays
    BY <1>1, <1>4, DataShape, AllocArrayShape, JumpShape
  <2> QED  BY <1>1, <2>1, StaysOK DEF Live
<1>5. CASE Call \/ CallMethod
  <2>1. Stays \/ Enters
    BY <1>1, <1>5, CallShape, CallMethodShape
  <2>2. CASE Stays
    BY <1>1, <2>2, StaysOK DEF Live
  <2>3. CASE Enters
    <3>1. Len(frames') = Len(frames) + 1 /\ Len(frames) \in Nat
      BY <1>1, <2>3, EntersOK, TopFacts
    <3> QED  BY <3>1 DEF Live
  <2> QED  BY <2>1, <2>2, <2>3
<1> QED  BY <1>2, <1>3, <1>4, <1>5 DEF Step

(* Both kinds of call report the depth at the limit, and nothing else does. *)
LEMMA StepDepth ==
    ASSUME MachineInv, Step
    PROVE  RecursionBounded'
<1>1. status = "running" /\ frames # <<>> /\ FramesOK
  BY StepRuns
<1>2. Len(frames) \in Nat /\ MaxDepth \in Nat /\ Len(frames) <= MaxDepth
  BY <1>1, TopFacts, LimitsAreNumbers DEF MachineInv, RecursionBounded
<1>3. ASSUME status' = "depth"
      PROVE  Advance /\ Len(frames) >= MaxDepth /\ Top.ip < Len(Code) /\ UNCHANGED stack
  <2>1. CASE OutOfFuel \/ EndOfCode \/ Return
    BY <1>1, <1>3, <2>1 DEF OutOfFuel, EndOfCode, Return, Halt
  <2>2. CASE Data
    BY <1>1, <1>3, <2>2 DEF Data, Halt
  <2>3. CASE AllocArray
    BY <1>1, <1>3, <2>3 DEF AllocArray, Halt
  <2>4. CASE Jump \/ JumpIf \/ LoopStep
    BY <1>1, <1>3, <2>4 DEF Jump, JumpIf, LoopStep
  <2>5. CASE AssertTrue
    BY <1>1, <1>3, <2>5 DEF AssertTrue, Halt
  <2>6. CASE Call
    BY <1>1, <1>3, <2>6 DEF Call, Halt, At
  <2>7. CASE CallMethod
    BY <1>1, <1>3, <2>7 DEF CallMethod, Halt, At
  <2> QED  BY <2>1, <2>2, <2>3, <2>4, <2>5, <2>6, <2>7 DEF Step
<1>4. status' = "depth" => Len(frames') = MaxDepth
  <2> SUFFICES ASSUME status' = "depth"  PROVE Len(frames') = MaxDepth
    OBVIOUS
  <2>1. Advance /\ Len(frames) >= MaxDepth /\ Top.ip < Len(Code) /\ UNCHANGED stack
    BY <1>3
  <2>2. Stays
    BY <1>1, <2>1, AdvanceStays DEF Stays
  <2> QED  BY <1>1, <1>2, <2>1, <2>2, StaysOK
<1> QED  BY <1>4, StepFrames DEF RecursionBounded

LEMMA NextInv == MachineInv /\ [Next]_vars => MachineInv'
<1> SUFFICES ASSUME MachineInv, [Next]_vars  PROVE MachineInv'
  OBVIOUS
<1>1. CASE Next
  <2>1. Step /\ entry' = entry
    BY <1>1 DEF Next
  <2> QED  BY <2>1, StepFrames, StepScalars, StepLive, StepDepth DEF MachineInv
<1>2. CASE UNCHANGED vars
  BY <1>2 DEF vars, MachineInv, FramesOK, RegisterWindows, Limit, Height, Scalars, Live,
              RecursionBounded
<1> QED  BY <1>1, <1>2

THEOREM MachineInvariant == Spec => []MachineInv
  BY InitInv, NextInv, PTL DEF Spec

-----------------------------------------------------------------------------
(* The types hold, the stack is a vector and fuel is never negative:       *)
(* sandbox.rs may subtract from it unchecked.                              *)
THEOREM TypeCorrect == Spec => []TypeOK
<1>1. MachineInv => TypeOK
  BY DEF MachineInv, TypeOK, FramesOK, Scalars, Live, Statuses
<1> QED  BY <1>1, MachineInvariant, PTL

(* No register access of dispatch.rs leaves the frame it belongs to. *)
THEOREM WindowsTheorem == Spec => []RegisterWindows
<1>1. MachineInv => RegisterWindows
  BY DEF MachineInv, FramesOK
<1> QED  BY <1>1, MachineInvariant, PTL

(* Calls and method calls stop at MAX_CALL_STACK_DEPTH. *)
THEOREM DepthTheorem == Spec => []RecursionBounded
<1>1. MachineInv => RecursionBounded
  BY DEF MachineInv
<1> QED  BY <1>1, MachineInvariant, PTL

(* A callee never writes its callers' variables. *)
THEOREM CallersTheorem == Spec => CallersUntouched
<1> DEFINE Kept == \A i \in 0 .. Top.base - 1 :
                      \/ stack'[i] = stack[i]
                      \/ /\ Len(frames') < Len(frames)
                         /\ i = frames[Len(frames) - 1].base + Top.ret
<1>1. MachineInv /\ [Next]_vars => [Kept]_vars
  <2> SUFFICES ASSUME MachineInv, Step  PROVE Kept
    BY DEF Next
  <2>1. frames # <<>> /\ FramesOK
    BY StepRuns
  <2>2. CASE Rests
    BY <2>2 DEF Rests
  <2>3. CASE Stays
    BY <2>3 DEF Stays, Below
  <2>4. CASE Enters
    <3>1. Below \subseteq DOMAIN stack
      <4>1. Top.base \in Nat /\ Top.chunk.regs \in Nat /\ Height(stack) \in Nat
            /\ Top.base + Top.chunk.regs <= Height(stack)
        BY <2>1, TopFacts DEF FramesOK
      <4> QED  BY <2>1, <4>1 DEF FramesOK, Below
    <3> QED  BY <2>1, <2>4, <3>1, EntersOK DEF Below
  <2>5. CASE Leaves
    <3>1. Len(frames') < Len(frames)
      BY <2>1, <2>5, LeavesOK, TopFacts
    <3> QED  BY <2>5, <3>1 DEF Leaves, Below
  <2> QED  BY <2>1, <2>2, <2>3, <2>4, <2>5, StepShape
<1> QED  BY <1>1, MachineInvariant, PTL DEF Spec, CallersUntouched

=============================================================================
