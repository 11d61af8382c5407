----------------------------- MODULE ComptimeVM -----------------------------
(***************************************************************************)
(* The bytecode machine that runs comptime code:                           *)
(*   hwc-compiler/src/eval/vm/{vm_core,dispatch}.rs, vm/ops/call_method.rs *)
(*   hwc-compiler/src/eval/{frame,sandbox,opcodes}.rs                      *)
(*                                                                         *)
(* One call of run_chunk.  All frames share one stack of registers; a      *)
(* frame owns the registers from its base up.  Every turn of the dispatch  *)
(* loop is one step and burns one unit of fuel.                            *)
(*                                                                         *)
(* The control instructions are modelled one by one; of the values, there  *)
(* are integers, booleans, arrays, tuples and structs, and the             *)
(* instructions that compute with them.  Strings, measurements, points,    *)
(* the emission of geometry and cell methods are left out.                 *)
(***************************************************************************)
EXTENDS Integers, Sequences, FiniteSets

CONSTANTS
    Chunks,         \* functions: a chunk, by its name (a tuple of strings)
    Entry,          \* the chunks run_chunk may be called with
    MaxDepth,       \* MAX_CALL_STACK_DEPTH, 256
    CallRegs,       \* the least window of a call, 64
    MethodRegs,     \* the least window of a method call, 32
    Budget,         \* the fuel of this run
    Quota           \* max_memory_bytes, in units of one Value

-----------------------------------------------------------------------------
(* Values and what the data instructions compute from them. *)
Void    == [t |-> "void"]
Num(i)  == [t |-> "int",  v |-> i]
Flag(b) == [t |-> "bool", v |-> b]
List(s) == [t |-> "array", v |-> s]
Tuple(s) == [t |-> "tuple", v |-> s]
Struct(n, fs) == [t |-> "struct", name |-> n, fields |-> fs]   \* fs: pairs of a name and a value
Failed  == [t |-> "error"]     \* an EvalError of a data instruction

Truthy(x) == (x.t = "bool" /\ x.v) \/ (x.t = "int" /\ x.v # 0)
AsInt(x)  == IF x.t = "int" THEN x.v ELSE 0

(* Bitwise operations see the bits of a word of Width bits, the sign last: *)
(* the integers of a program stay well within it.                          *)
Width     == 7
BitsOf(a) == {i \in 0 .. Width - 1 : (a \div 2^i) % 2 = 1}
FromBits(bits) == CHOOSE n \in -(2^(Width - 1)) .. 2^(Width - 1) - 1 : BitsOf(n) = bits
Quotient(a, b) ==
    LET Abs(n) == IF n < 0 THEN -n ELSE n
    IN  IF (a < 0) = (b < 0) THEN Abs(a) \div Abs(b) ELSE -(Abs(a) \div Abs(b))
Equal(x, y) == x.t = y.t /\ x = y

BitwiseOps == {"BitAnd", "BitOr", "BitXor"}
BinaryOps  == BitwiseOps \cup {"Eq", "Ne", "Lt", "Le", "Gt", "Ge", "And", "Or",
                               "Add", "Sub", "Mul", "Div", "Mod", "Shl", "Shr"}
BitSet(f, S, T) ==
    CASE f = "BitAnd" -> S \cap T
      [] f = "BitOr"  -> S \cup T
      [] f = "BitXor" -> (S \ T) \cup (T \ S)
OfInts(f, a, b) ==
    CASE f = "Add" -> Num(a + b)
      [] f = "Sub" -> Num(a - b)
      [] f = "Mul" -> Num(a * b)
      [] f = "Div" -> IF b = 0 THEN Failed ELSE Num(Quotient(a, b))
      [] f = "Mod" -> IF b = 0 THEN Failed ELSE Num(a - b * Quotient(a, b))
      [] f = "Lt"  -> Flag(a < b)
      [] f = "Le"  -> Flag(a <= b)
      [] f = "Gt"  -> Flag(a > b)
      [] f = "Ge"  -> Flag(a >= b)
      [] f = "Shl" -> Num(IF b \in 0 .. 63 THEN a * 2^b ELSE 0)
      [] f = "Shr" -> Num(IF b \in 0 .. 63 THEN a \div 2^b ELSE 0)
      [] f \in BitwiseOps -> Num(FromBits(BitSet(f, BitsOf(a), BitsOf(b))))
Binary(f, x, y) ==
    CASE f = "Eq"  -> Flag(Equal(x, y))
      [] f = "Ne"  -> Flag(~Equal(x, y))
      [] f = "And" -> Flag(Truthy(x) /\ Truthy(y))
      [] f = "Or"  -> Flag(Truthy(x) \/ Truthy(y))
      [] f \in BitwiseOps /\ x.t = "bool" /\ y.t = "bool" ->
            Flag(BitSet(f, {b \in {x.v} : b}, {b \in {y.v} : b}) # {})
      [] x.t = "int" /\ y.t = "int" /\ f \notin {"Eq", "Ne", "And", "Or"} -> OfInts(f, x.v, y.v)
      [] OTHER -> Failed

UnaryOps == {"Not", "Neg", "BitNot", "Len"}
Unary(f, x) ==
    CASE f = "Not" /\ x.t \in {"bool", "int"}      -> Flag(~Truthy(x))
      [] f = "Neg" /\ x.t = "int"                  -> Num(-x.v)
      [] f = "BitNot" /\ x.t = "int"               -> Num(-x.v - 1)
      [] f = "BitNot" /\ x.t = "bool"              -> Flag(~x.v)
      [] f = "Len" /\ x.t \in {"array", "tuple"}   -> Num(Len(x.v))
      [] OTHER -> Failed

(* Indexing past the end, or what is no array, yields Void. *)
IndexOf(x, i) ==
    IF x.t \in {"array", "tuple"} /\ i.t = "int" /\ i.v \in 0 .. Len(x.v) - 1
        THEN x.v[i.v + 1] ELSE Void

(* A slice, its bounds cut to the array. *)
SliceOf(x, lo, hi) ==
    LET Cut(i, void) == IF i.t # "int" THEN void ELSE IF i.v < 0 THEN 0
                        ELSE IF i.v > Len(x.v) THEN Len(x.v) ELSE i.v
    IN  IF x.t # "array" THEN Failed ELSE List(SubSeq(x.v, Cut(lo, 0) + 1, Cut(hi, Len(x.v))))

FieldOf(x, n) ==
    IF x.t = "struct" /\ \E i \in DOMAIN x.fields : x.fields[i][1] = n
        THEN x.fields[CHOOSE i \in DOMAIN x.fields :
                         x.fields[i][1] = n /\ \A j \in 1 .. i - 1 : x.fields[j][1] # n][2]
        ELSE Failed

RangeOf(lo, hi, inclusive) ==
    LET end == IF Truthy(inclusive) THEN AsInt(hi) ELSE AsInt(hi) - 1
        n   == IF end < AsInt(lo) THEN 0 ELSE end - AsInt(lo) + 1
    IN  List([k \in 1 .. n |-> Num(AsInt(lo) + k - 1)])

-----------------------------------------------------------------------------
(* Instructions: the registers each names, and the ones it writes. *)
DataOps    == {"Load", "Move", "Binary", "Unary", "GetIndex", "GetField", "Range", "ArrayPush",
               "ArraySlice", "AllocTuple", "AllocStruct"}
JumpOps    == {"Jump", "JumpIfTrue", "JumpIfFalse", "LoopStep"}
CallOps    == {"Call", "CallMethod"}
Ops        == DataOps \cup JumpOps \cup CallOps \cup {"AllocArray", "Return", "Assert"}

Window(first, count) == first .. first + count - 1

Registers(c) ==
    CASE c.op = "Load"       -> {c.dst}
      [] c.op = "Move"       -> {c.dst, c.src}
      [] c.op = "Binary"     -> {c.dst, c.lhs, c.rhs}
      [] c.op = "GetIndex"   -> {c.dst, c.obj, c.index}
      [] c.op \in {"Unary", "ArrayPush"} -> {c.dst, c.src}
      [] c.op = "GetField"   -> {c.dst, c.obj}
      [] c.op = "ArraySlice" -> {c.dst, c.obj, c.from, c.to}
      [] c.op = "Range"      -> {c.dst} \cup Window(c.args, 3)
      [] c.op \in {"AllocArray", "AllocTuple", "AllocStruct"} -> {c.dst} \cup Window(c.args, c.count)
      [] c.op \in {"JumpIfTrue", "JumpIfFalse", "Assert"} -> {c.cond}
      [] c.op = "LoopStep"   -> {c.dst, c.end}
      [] c.op = "Call"       -> {c.dst} \cup Window(c.args, c.count)
      [] c.op = "CallMethod" -> {c.dst, c.src} \cup Window(c.args, c.count)
      [] c.op = "Return"     -> {c.src}
      [] c.op = "Jump"       -> {}

(* What the compiler promises of a chunk: max_registers covers every       *)
(* register it uses, and a jump stays within the code or goes to its end.  *)
WellFormed(chunk) ==
    /\ chunk.regs \in Nat
    /\ Len(chunk.code) \in Nat
    /\ \A i \in 1 .. Len(chunk.code) :
          LET c == chunk.code[i] IN
          /\ c.op \in Ops
          /\ Registers(c) \subseteq 0 .. chunk.regs - 1
          /\ c.op \in JumpOps => /\ c.offset \in Int
                                 /\ i - 1 + c.offset \in 0 .. Len(chunk.code)
          /\ c.op \in CallOps \cup {"AllocArray", "AllocTuple", "AllocStruct"} => c.count \in Nat

ASSUME ChunksWellFormed ==
    /\ \A f \in DOMAIN Chunks : WellFormed(Chunks[f])
    /\ Entry \subseteq DOMAIN Chunks
ASSUME LimitsAreNumbers ==
    /\ MaxDepth \in Nat \ {0}
    /\ CallRegs \in Nat
    /\ MethodRegs \in Nat
    /\ Budget \in Nat
    /\ Quota \in Nat

VARIABLES
    entry,      \* the chunk this run was called with
    frames,     \* the call stack, the running frame last
    stack,      \* the registers of all frames: a function on 0 .. height - 1
    fuel,       \* fuel_remaining
    allocated,  \* allocated_bytes
    status,     \* "running", "done", or the error that ended the run
    result

vars == <<entry, frames, stack, fuel, allocated, status, result>>

Height(s)  == Cardinality(DOMAIN s)
AtLeast(a, b) == IF a < b THEN b ELSE a

NoReg == -1
Frame(c, base, ret) == [chunk |-> c, ip |-> 0, base |-> base, ret |-> ret]

Top == frames[Len(frames)]

(* run_chunk on a fresh machine. *)
Init ==
    /\ entry \in Entry
    /\ frames    = <<Frame(Chunks[entry], 0, NoReg)>>
    /\ stack     = [i \in 0 .. AtLeast(Top.chunk.regs, CallRegs) - 1 |-> Void]
    /\ fuel      = Budget
    /\ allocated = 0
    /\ status    = "running"
    /\ result    = Void

Code   == Top.chunk.code
Instr  == Code[Top.ip + 1]
Reg(r) == stack[Top.base + r]

(* What the loop does before it looks at an instruction. *)
Running == status = "running" /\ fuel > 0
(* Mutant: a turn of the loop burns nothing. *)
Burn_free  == fuel' = fuel

Burn == fuel' = fuel - 1
At(op)  == Running /\ Top.ip < Len(Code) /\ Instr.op = op
Goto(i) == frames' = [frames EXCEPT ![Len(frames)].ip = i]
Advance == Goto(Top.ip + 1)
Halt(why) == status' = why /\ UNCHANGED result

Truncate(s, height) == [i \in 0 .. height - 1 |-> s[i]]
SetReg(r, x) == stack' = [stack EXCEPT ![Top.base + r] = x]
Pop == SubSeq(frames, 1, Len(frames) - 1)

-----------------------------------------------------------------------------
OutOfFuel ==
    /\ status = "running"
    /\ fuel = 0
    /\ Halt("fuel")
    /\ UNCHANGED <<frames, stack, fuel, allocated>>

(* Past the last instruction: the frame ends and writes no register. *)
EndOfCode ==
    /\ Running
    /\ Top.ip >= Len(Code)
    /\ Burn
    /\ frames' = Pop
    /\ stack'  = Truncate(stack, Top.base)
    /\ status' = IF Len(frames) = 1 THEN "done" ELSE status
    /\ UNCHANGED <<allocated, result>>

Regs(first, count) == [k \in 1 .. count |-> Reg(first + k - 1)]
Computed(c) ==
    CASE c.op = "Load"       -> c.val
      [] c.op = "Move"       -> Reg(c.src)
      [] c.op = "Binary"     -> Binary(c.f, Reg(c.lhs), Reg(c.rhs))
      [] c.op = "Unary"      -> Unary(c.f, Reg(c.src))
      [] c.op = "GetIndex"   -> IndexOf(Reg(c.obj), Reg(c.index))
      [] c.op = "GetField"   -> FieldOf(Reg(c.obj), c.field)
      [] c.op = "ArraySlice" -> SliceOf(Reg(c.obj), Reg(c.from), Reg(c.to))
      [] c.op = "Range"      -> RangeOf(Reg(c.args), Reg(c.args + 1), Reg(c.args + 2))
      [] c.op = "ArrayPush"  -> IF Reg(c.dst).t # "array" THEN Failed
                                ELSE List(Append(Reg(c.dst).v, Reg(c.src)))
      [] c.op = "AllocTuple" -> Tuple(Regs(c.args, c.count))
      [] c.op = "AllocStruct" ->
            Struct(c.name, [k \in 1 .. c.count |-> <<c.fields[k], Regs(c.args, c.count)[k]>>])

Data ==
    /\ \E op \in DataOps : At(op)
    /\ Burn
    /\ Advance
    /\ IF Computed(Instr).t = "error"
          THEN Halt("type") /\ UNCHANGED stack
          ELSE SetReg(Instr.dst, Computed(Instr)) /\ UNCHANGED <<status, result>>
    /\ UNCHANGED allocated

(* Mutant: the quota is compared with what was charged before. *)
AllocArray_late ==
    /\ At("AllocArray")
    /\ Burn
    /\ Advance
    /\ allocated' = allocated + Instr.count
    /\ IF allocated > Quota
          THEN Halt("memory") /\ UNCHANGED stack
          ELSE /\ SetReg(Instr.dst, List([k \in 1 .. Instr.count |-> Reg(Instr.args + k - 1)]))
               /\ UNCHANGED <<status, result>>

(* The quota is charged before the array is stored; no other instruction   *)
(* charges it, and nothing is ever given back.                             *)
AllocArray ==
    /\ At("AllocArray")
    /\ Burn
    /\ Advance
    /\ allocated' = allocated + Instr.count
    /\ IF allocated' > Quota
          THEN Halt("memory") /\ UNCHANGED stack
          ELSE /\ SetReg(Instr.dst, List([k \in 1 .. Instr.count |-> Reg(Instr.args + k - 1)]))
               /\ UNCHANGED <<status, result>>

Jump ==
    /\ At("Jump")
    /\ Burn
    /\ Goto(Top.ip + Instr.offset)
    /\ UNCHANGED <<stack, allocated, status, result>>

JumpIf ==
    /\ At("JumpIfTrue") \/ At("JumpIfFalse")
    /\ Burn
    /\ IF Truthy(Reg(Instr.cond)) = (Instr.op = "JumpIfTrue")
          THEN Goto(Top.ip + Instr.offset) ELSE Advance
    /\ UNCHANGED <<stack, allocated, status, result>>

LoopStep ==
    /\ At("LoopStep")
    /\ Burn
    /\ LET next == AsInt(Reg(Instr.dst)) + Instr.step
           end  == AsInt(Reg(Instr.end))
       IN  /\ SetReg(Instr.dst, Num(next))
           /\ IF (Instr.step > 0 /\ next <= end) \/ (Instr.step < 0 /\ next >= end)
                 THEN Goto(Top.ip + Instr.offset) ELSE Advance
    /\ UNCHANGED <<allocated, status, result>>

AssertTrue ==
    /\ At("Assert")
    /\ Burn
    /\ Advance
    /\ IF Truthy(Reg(Instr.cond)) THEN UNCHANGED <<status, result>> ELSE Halt("assert")
    /\ UNCHANGED <<stack, allocated>>

(* Mutant: the window is as long as the arguments. *)
Enter_short(chunk, args, least) ==
    LET base == Height(stack) IN
    /\ stack'  = [i \in 0 .. base + Len(args) - 1 |->
                     IF i < base THEN stack[i] ELSE args[i - base + 1]]
    /\ frames' = Append([frames EXCEPT ![Len(frames)].ip = Top.ip + 1],
                        Frame(chunk, base, Instr.dst))

(* The callee's window starts where the stack ends; its arguments are      *)
(* copied to the first registers and the rest is Void.  The window is cut  *)
(* at its size when there are more arguments than that.                    *)
Enter(chunk, args, least) ==
    LET base == Height(stack) IN
    /\ stack'  = [i \in 0 .. base + AtLeast(chunk.regs, least) - 1 |->
                     IF i < base THEN stack[i]
                     ELSE IF i - base < Len(args) THEN args[i - base + 1] ELSE Void]
    /\ frames' = Append([frames EXCEPT ![Len(frames)].ip = Top.ip + 1],
                        Frame(chunk, base, Instr.dst))

Arguments == [k \in 1 .. Instr.count |-> Reg(Instr.args + k - 1)]

(* The depth is checked before the name is looked up ... *)
Call ==
    /\ At("Call")
    /\ Burn
    /\ \/ /\ Len(frames) >= MaxDepth
          /\ Halt("depth")
          /\ Advance
          /\ UNCHANGED stack
       \/ /\ Len(frames) < MaxDepth
          /\ Instr.fn \notin DOMAIN Chunks
          /\ Halt("unknown")
          /\ Advance
          /\ UNCHANGED stack
       \/ /\ Len(frames) < MaxDepth
          /\ Instr.fn \in DOMAIN Chunks
          /\ Enter(Chunks[Instr.fn], Arguments, CallRegs)
          /\ UNCHANGED <<status, result>>
    /\ UNCHANGED allocated

(* ... and after it for a method, whose first argument is the target. *)
CallMethod ==
    /\ At("CallMethod")
    /\ Burn
    /\ LET target == Reg(Instr.src)
           name   == <<target.name>> \o Instr.fn
           args   == <<target>> \o Arguments
       IN  \/ /\ target.t # "struct"
              /\ Halt("type")
              /\ Advance
              /\ UNCHANGED stack
           \/ /\ target.t = "struct"
              /\ name \notin DOMAIN Chunks
              /\ Halt("unknown")
              /\ Advance
              /\ UNCHANGED stack
           \/ /\ target.t = "struct"
              /\ name \in DOMAIN Chunks
              /\ Len(frames) >= MaxDepth
              /\ Halt("depth")
              /\ Advance
              /\ UNCHANGED stack
           \/ /\ target.t = "struct"
              /\ name \in DOMAIN Chunks
              /\ Len(frames) < MaxDepth
              /\ Enter(Chunks[name], args, AtLeast(Len(args), MethodRegs))
              /\ UNCHANGED <<status, result>>
    /\ UNCHANGED allocated

(* Mutant: the value goes to a register of the first frame. *)
Return_absolute ==
    /\ At("Return")
    /\ Burn
    /\ frames' = Pop
    /\ IF Len(frames) = 1
          THEN /\ status' = "done"
               /\ result' = Reg(Instr.src)
               /\ stack'  = Truncate(stack, Top.base)
          ELSE /\ stack' = [Truncate(stack, Top.base) EXCEPT ![Top.ret] = Reg(Instr.src)]
               /\ UNCHANGED <<status, result>>
    /\ UNCHANGED allocated

(* The frame's registers go, and the value lands in the caller's register. *)
Return ==
    /\ At("Return")
    /\ Burn
    /\ frames' = Pop
    /\ IF Len(frames) = 1
          THEN /\ status' = "done"
               /\ result' = Reg(Instr.src)
               /\ stack'  = Truncate(stack, Top.base)
          ELSE LET parent == frames[Len(frames) - 1] IN
               /\ stack' = [Truncate(stack, Top.base)
                               EXCEPT ![parent.base + Top.ret] = Reg(Instr.src)]
               /\ UNCHANGED <<status, result>>
    /\ UNCHANGED allocated

Step ==
    \/ OutOfFuel \/ EndOfCode \/ Data \/ AllocArray
    \/ Jump \/ JumpIf \/ LoopStep \/ AssertTrue
    \/ Call \/ CallMethod \/ Return

Next == Step /\ UNCHANGED entry

Spec == Init /\ [][Next]_vars

(* run() turns its loop until it returns. *)
FairSpec == Spec /\ WF_vars(Next)

-----------------------------------------------------------------------------
FrameType(chunks) ==
    [chunk : {chunks[f] : f \in DOMAIN chunks}, ip : Nat, base : Nat, ret : Nat \cup {NoReg}]

(* Types: the stack is a prefix of the naturals, fuel never goes below 0.  *)
TypeOK ==
    /\ entry \in Entry
    /\ frames \in Seq(FrameType(Chunks))
    /\ Height(stack) \in Nat
    /\ DOMAIN stack = 0 .. Height(stack) - 1
    /\ fuel \in 0 .. Budget
    /\ allocated \in Nat
    /\ status \in {"running", "done", "fuel", "depth", "unknown", "type", "memory", "assert"}
    /\ status = "running" => frames # <<>>

(* Every register a frame may name lies on the stack and below the base of *)
(* the frame it called, and the register its callee's value goes to is one *)
(* of them: no access of the machine leaves the vector (dispatch.rs would  *)
(* panic) or reaches another frame's registers.                            *)
Limit(i) == IF i < Len(frames) THEN frames[i + 1].base ELSE Height(stack)
RegisterWindows ==
    \A i \in 1 .. Len(frames) :
        /\ frames[i].base + frames[i].chunk.regs <= Limit(i)
        /\ frames[i].ip <= Len(frames[i].chunk.code)
        /\ i > 1 => frames[i].ret \in 0 .. frames[i - 1].chunk.regs - 1

(* A step leaves the registers of the frames below the running one alone;  *)
(* only a return writes one of them, the register the call named.          *)
CallersUntouched ==
    [][\A i \in 0 .. Top.base - 1 :
          \/ stack'[i] = stack[i]
          \/ /\ Len(frames') < Len(frames)
             /\ i = frames[Len(frames) - 1].base + Top.ret]_vars

(* MAX_CALL_STACK_DEPTH: calls and method calls alike stop at the limit,   *)
(* and only there.                                                         *)
RecursionBounded ==
    /\ Len(frames) <= MaxDepth
    /\ status = "depth" => Len(frames) = MaxDepth

(* "Guarantees termination": every run ends, whatever it executes.         *)
Terminates == <>(status # "running")
=============================================================================
