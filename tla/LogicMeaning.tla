---------------------------- MODULE LogicMeaning ----------------------------
(***************************************************************************)
(* What a logic block means: its statements run in order, a name read      *)
(* before it is written is an input (or the state of a register), a name   *)
(* written is an output, and 0 on a path that does not write it.  And the  *)
(* order in which the lowering comes to the parts of a block.              *)
(***************************************************************************)
EXTENDS Integers, Sequences

Var(n) == [op |-> "var", name |-> n]
Lit(v) == [op |-> "lit", value |-> v]
Neg(e) == [op |-> "not", arg |-> e]
Minus(e) == [op |-> "sign", arg |-> e]
Group(e) == [op |-> "group", arg |-> e]
Bin(f, l, r) == [op |-> "bin", f |-> f, l |-> l, r |-> r]
Set(n, e) == [op |-> "assign", name |-> n, e |-> e]
If(c, t, e) == [op |-> "if", c |-> c, t |-> t, e |-> e]

\* Of what is in parentheses the lowering reads nothing.
RECURSIVE ExprCode(_)
ExprCode(e) ==
  CASE e.op \in {"var", "lit"} -> <<e>>
    [] e.op = "group" -> <<[op |-> "other"]>>
    [] e.op \in {"not", "sign"} -> ExprCode(e.arg) \o <<[op |-> e.op]>>
    [] e.op = "bin" -> ExprCode(e.l) \o ExprCode(e.r) \o <<[op |-> "bin", f |-> e.f]>>

RECURSIVE Code(_)
Code(stmts) ==
  IF stmts = <<>> THEN <<>>
  ELSE LET s == Head(stmts)
           this == IF s.op = "assign"
                   THEN ExprCode(s.e) \o <<[op |-> "assign", name |-> s.name]>>
                   ELSE ExprCode(s.c) \o <<[op |-> "if"]>> \o Code(s.t)
                        \o <<[op |-> "else"]>> \o Code(s.e) \o <<[op |-> "end"]>>
       IN  this \o Code(Tail(stmts))

\* On bits: a product is a conjunction, and a number and its negative are the
\* same modulo 2.  An order or a sum has no meaning here.
Operate(f, a, b) ==
  CASE f = "and" -> a /\ b
    [] f = "or" -> a \/ b
    [] f = "xor" -> a # b
    [] f = "eq" -> a = b
    [] f = "product" -> a /\ b

\* inputs gives every input and register its value; mem the names written.
RECURSIVE Value(_, _, _)
Value(e, inputs, mem) ==
  CASE e.op = "var" -> IF e.name \in DOMAIN mem THEN mem[e.name] ELSE inputs[e.name]
    [] e.op = "lit" -> e.value
    [] e.op = "not" -> ~Value(e.arg, inputs, mem)
    [] e.op \in {"sign", "group"} -> Value(e.arg, inputs, mem)
    [] e.op = "bin" -> Operate(e.f, Value(e.l, inputs, mem), Value(e.r, inputs, mem))

RECURSIVE Run(_, _, _)
Run(stmts, inputs, mem) ==
  IF stmts = <<>> THEN mem
  ELSE LET s == Head(stmts)
           next == IF s.op = "assign"
                   THEN [n \in DOMAIN mem \cup {s.name} |->
                           IF n = s.name THEN Value(s.e, inputs, mem) ELSE mem[n]]
                   ELSE Run(IF Value(s.c, inputs, mem) THEN s.t ELSE s.e, inputs, mem)
       IN  Run(Tail(stmts), inputs, next)

\* The names a block assigns on some path.
RECURSIVE Assigned(_)
Assigned(stmts) ==
  IF stmts = <<>> THEN {}
  ELSE LET s == Head(stmts)
       IN  (IF s.op = "assign" THEN {s.name} ELSE Assigned(s.t) \cup Assigned(s.e))
           \cup Assigned(Tail(stmts))
=============================================================================
