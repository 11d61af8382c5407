-------------------------- MODULE ComptimeCompiler --------------------------
(***************************************************************************)
(* From syntax trees to chunks:                                            *)
(*   hwc-compiler/src/eval/compiler/{mod,scope,statement}.rs               *)
(*   hwc-compiler/src/eval/compiler/expression/*.rs                        *)
(*                                                                         *)
(* The state C of the compiler is threaded through the operators: the code *)
(* so far, the scopes, the open loops, the next free register and the      *)
(* functions that are declared.  A register is never reused, so that       *)
(* max_reg is next.  Positions are counted from 0 as in the code.          *)
(***************************************************************************)
EXTENDS ComptimeVM, SequencesExt

NoExpr  == [k |-> "none"]
Wild    == [k |-> "wild"]     \* the pattern _

(* functions: the params, defaults and body of each, by its name. *)
New(functions) ==
    [code |-> <<>>, scopes |-> <<[n \in {} |-> 0]>>, loops |-> <<>>,
     next |-> 0, rejected |-> FALSE, functions |-> functions]

Emit(C, cs)  == [C EXCEPT !.code = @ \o cs]
Here(C)      == Len(C.code)
Take(C, n)   == [C EXCEPT !.next = @ + n]
PushScope(C) == [C EXCEPT !.scopes = Append(@, [n \in {} |-> 0])]
PopScope(C)  == [C EXCEPT !.scopes = Front(@)]

(* A scope holds the register of a name and whether it may be assigned. *)
Bind(C, n, r, mut) ==
    [C EXCEPT !.scopes[Len(C.scopes)] =
        [m \in DOMAIN @ \cup {n} |-> IF m = n THEN [reg |-> r, mut |-> mut] ELSE @[m]]]

Reject(C)   == [C EXCEPT !.rejected = TRUE]
Bound(C, n) == \E i \in DOMAIN C.scopes : n \in DOMAIN C.scopes[i]

(* The innermost scope that binds the name. *)
Lookup(C, n) ==
    LET s == CHOOSE i \in DOMAIN C.scopes :
                /\ n \in DOMAIN C.scopes[i]
                /\ \A j \in i + 1 .. Len(C.scopes) : n \notin DOMAIN C.scopes[j]
    IN  C.scopes[s][n]

(* Give the placeholder jumps at the positions the target they go to. *)
Patch(C, positions, target) ==
    [C EXCEPT !.code = [j \in DOMAIN @ |->
        IF j - 1 \in positions THEN [@[j] EXCEPT !.offset = target - (j - 1)] ELSE @[j]]]
Land(C, positions) == Patch(C, positions, Here(C))

OpenLoop(C) == [C EXCEPT !.loops = Append(@, [breaks |-> {}, continues |-> {}])]

Load(r, v)      == [op |-> "Load", dst |-> r, val |-> v]
Move(r, s)      == [op |-> "Move", dst |-> r, src |-> s]
Op(f, r, x, y)  == [op |-> "Binary", f |-> f, dst |-> r, lhs |-> x, rhs |-> y]
Item(r, x, i)   == [op |-> "GetIndex", dst |-> r, obj |-> x, index |-> i]
Jmp             == [op |-> "Jump", offset |-> 0]
JmpIf(op, r)    == [op |-> op, cond |-> r, offset |-> 0]

(* An expression's value is in register r of the compiler state C. *)
In(C, r)    == [C |-> C, r |-> r]
Refused(C)  == In(Reject(C), 0)
Fresh(C, c) == In(Emit(Take(C, 1), <<[c EXCEPT !.dst = C.next]>>), C.next)
Const(C, v) == Fresh(C, Load(0, v))
MoveTo(e, r) == Emit(e.C, <<Move(r, e.r)>>)

(* Copies of the registers rs side by side, from the next free one; at     *)
(* least one register is taken.                                            *)
SideBySide(C, rs) ==
    Emit(Take(C, AtLeast(Len(rs), 1)), [i \in 1 .. Len(rs) |-> Move(C.next + i - 1, rs[i])])

-----------------------------------------------------------------------------
RECURSIVE Expr(_, _), Stmt(_, _), Stmts(_, _)

(* The first statement that is rejected ends the compilation. *)
Stmts(C, ss) == IF C.rejected \/ ss = <<>> THEN C ELSE Stmts(Stmt(C, Head(ss)), Tail(ss))

(* A list of expressions: the registers of their values, in order. *)
Also(rs, e)  == [C |-> e.C, rs |-> Append(rs, e.r)]
Exprs(C, xs) == FoldLeft(LAMBDA es, x : Also(es.rs, Expr(es.C, x)), [C |-> C, rs |-> <<>>], xs)

(* What is emitted once the operands are in the registers es.rs. *)
Operator(es, f) == Fresh(es.C, Op(f, 0, es.rs[1], es.rs[2]))
RangeCall(es, inclusive) ==
    LET n == es.C.next
    IN  In(Emit(Take(es.C, 4), <<Move(n, es.rs[1]), Move(n + 1, es.rs[2]), Load(n + 2, Flag(inclusive)),
                                 [op |-> "Range", dst |-> n + 3, args |-> n]>>), n + 3)
Array(es) ==
    LET n == es.C.next
    IN  In(Emit(SideBySide(Take(es.C, 1), es.rs),
                <<[op |-> "AllocArray", dst |-> n, args |-> n + 1, count |-> Len(es.rs)]>>), n)
PushCall(es) ==
    Const(Emit(es.C, <<[op |-> "ArrayPush", dst |-> es.rs[1], src |-> es.rs[2]]>>), Void)
UnaryOp(e, f) ==
    Fresh(e.C, IF f = "Plus" THEN Move(0, e.r) ELSE [op |-> "Unary", f |-> f, dst |-> 0, src |-> e.r])
FieldAccess(e, n) == Fresh(e.C, [op |-> "GetField", dst |-> 0, obj |-> e.r, field |-> n])
IndexAccess(es)   == Fresh(es.C, Item(0, es.rs[1], es.rs[2]))
NewTuple(es) ==
    Fresh(SideBySide(es.C, es.rs), [op |-> "AllocTuple", dst |-> 0, args |-> es.C.next, count |-> Len(es.rs)])
StructInstance(es, x) ==
    Fresh(SideBySide(es.C, es.rs),
          [op |-> "AllocStruct", dst |-> 0, name |-> x.name, args |-> es.C.next, count |-> Len(es.rs),
           fields |-> [i \in DOMAIN x.fields |-> x.fields[i].n]])
(* The end of a slice comes after its start, and one further if inclusive. *)
SliceFrom(e, start, x) ==
    LET one  == e.C.next
        Upto(end) == Fresh(end.C, [op |-> "ArraySlice", dst |-> 0, obj |-> e.rs[1],
                                   from |-> start, to |-> end.r])
    IN  IF x.hi # NoExpr /\ x.inclusive
            THEN Upto(Fresh(Emit(Take(e.C, 1), <<Load(one, Num(1))>>), Op("Add", 0, e.rs[2], one)))
            ELSE Upto(In(e.C, e.rs[2]))
UserCall(es, fn) ==
    Fresh(SideBySide(es.C, es.rs),
          [op |-> "Call", fn |-> fn, dst |-> 0, args |-> es.C.next, count |-> Len(es.rs)])
MethodCall(es, fn) ==
    Fresh(SideBySide(es.C, Tail(es.rs)),
          [op |-> "CallMethod", fn |-> fn, dst |-> 0, src |-> es.rs[1],
           args |-> es.C.next, count |-> Len(es.rs) - 1])

(* A block: its statements in a scope of their own, then its tail. *)
Leave(e) == In(PopScope(e.C), e.r)
TailOf(C, b) == IF b.tail = NoExpr THEN Const(C, Void) ELSE Expr(C, b.tail)
BlockExpr(C, b) == Leave(TailOf(Stmts(PushScope(C), b.stmts), b))

(* A block as a statement: its tail for the effects only. *)
Effects(C, b) == PopScope(Expr(Stmts(C, b.stmts), b.tail).C)
Body(C, b)    == Effects(PushScope(C), b)

(* if: the jump over the then-branch is at test, the one over the          *)
(* else-branch where the then-branch ends; the value goes to out.          *)
OtherBranch(C, x, out) ==
    IF x.else = NoExpr THEN Emit(C, <<Load(out, Void)>>) ELSE MoveTo(Expr(C, x.else), out)
AfterThen(then, x, test, out) ==
    LET open == Emit(MoveTo(then, out), <<Jmp>>)
    IN  In(Land(OtherBranch(Land(open, {test}), x, out), {Here(open) - 1}), out)
AfterCond(cond, x) ==
    AfterThen(BlockExpr(Take(Emit(cond.C, <<JmpIf("JumpIfFalse", cond.r)>>), 1), x.then),
              x, Here(cond.C), cond.C.next)
IfExpr(C, x) == AfterCond(Expr(C, x.cond), x)

(* The test of an arm: a comparison and a jump, or nothing for _. *)
Compare(pat, target) ==
    Emit(Take(pat.C, 1), <<Op("Eq", pat.C.next, target, pat.r), JmpIf("JumpIfFalse", pat.C.next)>>)
ArmTest(C, pat, target) == IF pat = Wild THEN C ELSE Compare(Expr(C, pat), target)

(* A match expression.  Patching the test of an arm, the last instruction  *)
(* before its body, replaces the register it tests by R0.                  *)
EndArm(body, arm, start, out, exits) ==
    LET done == Emit(MoveTo(body, out), <<Jmp>>)
    IN  [C |-> IF arm.pat = Wild THEN done
               ELSE [done EXCEPT !.code[start].offset = Here(done) - (start - 1), !.code[start].cond = 0],
         exits |-> exits \cup {Here(done) - 1}]
ArmExpr(test, arm, out, exits) == EndArm(Expr(test, arm.body), arm, Here(test), out, exits)
Joined(all) == Land(all.C, all.exits)
MatchArms(target, arms) ==
    LET out == target.C.next
        Arm(all, arm) == ArmExpr(ArmTest(all.C, arm.pat, target.r), arm, out, all.exits)
    IN  In(Joined(FoldLeft(Arm, [C |-> Take(target.C, 1), exits |-> {}], arms)), out)

(* The arguments of a call, parameter by parameter: an argument goes where *)
(* its name says, or where it stands; a default fills what is left, and is *)
(* compiled where the call is.  A function that is not declared takes      *)
(* arguments as they stand.                                                *)
NoDecl == [params |-> <<>>, defaults |-> <<>>]
Declared(C, fn) == IF fn \in DOMAIN C.functions THEN C.functions[fn] ELSE NoDecl
Placed(params, args) ==
    LET Put(xs, i) ==
            IF args[i].n = "" THEN [xs EXCEPT ![i] = args[i].x]
            ELSE IF Contains(params, args[i].n)
                THEN [xs EXCEPT ![SelectInSeq(params, LAMBDA n : n = args[i].n)] = args[i].x]
            ELSE Append(xs, args[i].x)
    IN  FoldLeft(Put, [i \in 1 .. AtLeast(Len(params), Len(args)) |-> NoExpr], [i \in DOMAIN args |-> i])
Arranged(decl, args) ==
    LET xs == Placed(decl.params, args)
    IN  [i \in DOMAIN xs |-> IF xs[i] = NoExpr /\ i \in DOMAIN decl.defaults THEN decl.defaults[i] ELSE xs[i]]
CallOf(C, fn, args) ==
    LET xs == Arranged(Declared(C, fn), args)
    IN  IF Contains(xs, NoExpr) THEN Refused(C) ELSE UserCall(Exprs(C, xs), fn)

(* What is called: an array's own methods, a method, or a function.        *)
(* Programs call no builtin, no method of space and no method of a cell.   *)
Called(C, x) ==
    LET args == [i \in DOMAIN x.args |-> x.args[i].x]
        c    == x.callee
    IN  CASE c.k = "field" /\ c.n = "push" /\ args # <<>> -> PushCall(Exprs(C, <<c.target, args[1]>>))
          [] c.k = "field" /\ c.n = "len"  -> UnaryOp(Expr(C, c.target), "Len")
          [] c.k = "field" /\ c.n \notin {"push", "len"} ->
                MethodCall(Exprs(C, <<c.target>> \o args), <<c.n>>)
          [] c.k = "var"   -> CallOf(C, <<c.n>>, x.args)
          [] c.k = "path"  -> CallOf(C, c.segs, x.args)
          [] OTHER         -> Refused(C)

(* A field without a value takes the variable of its name. *)
FieldValues(x) ==
    [i \in DOMAIN x.fields |-> IF x.fields[i].x = NoExpr THEN [k |-> "var", n |-> x.fields[i].n]
                                                         ELSE x.fields[i].x]
OrVoid(x) == IF x = NoExpr THEN [k |-> "lit", v |-> Void] ELSE x
Slice(es, x) == SliceFrom([C |-> es.C, rs |-> <<es.rs[1], es.rs[3]>>], es.rs[2], x)

Expr(C, x) ==
    CASE x.k = "lit"    -> Const(C, x.v)
      [] x.k = "var"    -> IF Bound(C, x.n) THEN In(C, Lookup(C, x.n).reg) ELSE Refused(C)
      [] x.k = "path"   -> Refused(C)
      [] x.k = "group"  -> Expr(C, x.x)
      [] x.k = "unary"  -> UnaryOp(Expr(C, x.x), x.f)
      [] x.k = "bin"    -> Operator(Exprs(C, <<x.l, x.r>>), x.f)
      [] x.k = "range"  -> RangeCall(Exprs(C, <<x.lo, x.hi>>), x.inclusive)
      [] x.k = "array"  -> Array(Exprs(C, x.elems))
      [] x.k = "tuple"  -> NewTuple(Exprs(C, x.elems))
      [] x.k = "struct" -> StructInstance(Exprs(C, FieldValues(x)), x)
      [] x.k = "field"  -> FieldAccess(Expr(C, x.target), x.n)
      [] x.k = "index"  -> IndexAccess(Exprs(C, <<x.target, x.index>>))
      [] x.k = "slice"  -> Slice(Exprs(C, <<x.target, OrVoid(x.lo), OrVoid(x.hi)>>), x)
      [] x.k = "call"   -> Called(C, x)
      [] x.k = "block"  -> BlockExpr(C, x)
      [] x.k = "if"     -> IfExpr(C, x)
      [] x.k = "match"  -> MatchArms(Expr(C, x.target), x.arms)
      [] x.k \in {"wild", "none"} -> In(C, 0)

-----------------------------------------------------------------------------
(* The match statement: the test keeps its register. *)
EndBlockArm(body, arm, start, exits) ==
    LET done == Emit(body, <<Jmp>>)
    IN  [C |-> IF arm.pat = Wild THEN done ELSE Land(done, {start - 1}),
         exits |-> exits \cup {Here(done) - 1}]
ArmStmt(test, arm, exits) == EndBlockArm(Body(test, arm.body), arm, Here(test), exits)
MatchStmt(target, arms) ==
    LET Arm(all, arm) == ArmStmt(ArmTest(all.C, arm.pat, target.r), arm, all.exits)
    IN  Joined(FoldLeft(Arm, [C |-> target.C, exits |-> {}], arms))

OtherBody(C, else) == IF else.k = "block" THEN Body(C, else) ELSE PopScope(Stmt(PushScope(C), else))
EndIf(then, test, s) ==
    IF s.else = NoExpr THEN Land(then, {test})
    ELSE Land(OtherBody(Land(Emit(then, <<Jmp>>), {test}), s.else), {Here(then)})
IfStmt(cond, s) ==
    EndIf(Body(Emit(cond.C, <<JmpIf("JumpIfFalse", cond.r)>>), s.then), Here(cond.C), s)

(* A for loop: n is the index, n + 1 the item, and the loop ends when the  *)
(* item equals Void.  The code of a turn begins at start.                  *)
ForTest(iter) ==
    LET n == iter.C.next
    IN  Emit(Take(OpenLoop(iter.C), 4),
             <<Load(n, Num(0)), Item(n + 1, iter.r, n), Load(n + 3, Void),
               Op("Eq", n + 2, n + 1, n + 3), JmpIf("JumpIfTrue", n + 2)>>)
(* Mutant: break goes where continue goes. *)
CloseLoop_break(C, test, step) ==
    LET loop == Last(C.loops)
    IN  [Patch(Land(C, {test}), loop.breaks \cup loop.continues, step)
            EXCEPT !.loops = Front(@)]

CloseLoop(C, test, step) ==
    LET loop == Last(C.loops)
    IN  [Patch(Land(C, loop.breaks \cup {test}), loop.continues, step)
            EXCEPT !.loops = Front(@)]
ForStep(C, n, start) ==
    LET one  == C.next
        back == [Jmp EXCEPT !.offset = start - (Here(C) + 2)]
    IN  CloseLoop(Emit(Take(C, 1), <<Load(one, Num(1)), Op("Add", n, n, one), back>>),
                  start + 3, Here(C))
(* One variable is the item; two are the two parts of it. *)
LoopVars(C, names, item) ==
    LET a == C.next
    IN  IF Len(names) = 1 THEN Bind(C, names[1], item, FALSE)
        ELSE Bind(Bind(Emit(Take(C, 4), <<Load(a + 2, Num(0)), Load(a + 3, Num(1)),
                                          Item(a, item, a + 2), Item(a + 1, item, a + 3)>>),
                       names[1], a, FALSE), names[2], a + 1, FALSE)
ForStmt(iter, s) ==
    LET n == iter.C.next
    IN  ForStep(Effects(LoopVars(PushScope(ForTest(iter)), s.names, n + 1), s.body), n, Here(iter.C) + 1)

LetVar(e, s) == Bind(Emit(Take(e.C, 1), <<Move(e.C.next, e.r)>>), s.n, e.C.next, s.mut)
LetTuple(e, s) ==
    LET Part(C, i) == Bind(Emit(Take(C, 2), <<Load(C.next, Num(i - 1)), Item(C.next + 1, e.r, C.next)>>),
                           s.n[i], C.next + 1, s.mut)
    IN  FoldLeft(Part, e.C, [i \in DOMAIN s.n |-> i])

(* Only a variable that is mutable may be assigned. *)
Assignable(C, x) == x.k = "var" /\ Bound(C, x.n) /\ Lookup(C, x.n).mut
AssignTo(e, r, f) == IF f = "Assign" THEN MoveTo(e, r) ELSE Emit(e.C, <<Op(f, r, r, e.r)>>)
Assign(C, s) ==
    IF Assignable(C, s.target) THEN AssignTo(Expr(C, s.x), Lookup(C, s.target.n).reg, s.f) ELSE Reject(C)
Exit(C, k) ==
    LET last == Len(C.loops)
    IN  IF k = "break" THEN [Emit(C, <<Jmp>>) EXCEPT !.loops[last].breaks = @ \cup {Here(C)}]
                       ELSE [Emit(C, <<Jmp>>) EXCEPT !.loops[last].continues = @ \cup {Here(C)}]
Returns(e)      == Emit(e.C, <<[op |-> "Return", src |-> e.r]>>)
Asserts(e)      == Emit(e.C, <<[op |-> "Assert", cond |-> e.r]>>)

Stmt(C, s) ==
    CASE s.k = "let"       -> LetVar(Expr(C, s.x), s)
      [] s.k = "lettuple"  -> LetTuple(Expr(C, s.x), s)
      [] s.k = "assign"    -> Assign(C, s)
      [] s.k = "if"        -> IfStmt(Expr(C, s.cond), s)
      [] s.k = "for"       -> ForStmt(Expr(C, s.x), s)
      [] s.k = "match"     -> MatchStmt(Expr(C, s.target), s.arms)
      [] s.k \in {"break", "continue"} -> IF C.loops = <<>> THEN Reject(C) ELSE Exit(C, s.k)
      [] s.k = "return"    -> Returns(IF s.x = NoExpr THEN Const(C, Void) ELSE Expr(C, s.x))
      [] s.k = "assert"    -> Asserts(Expr(C, s.x))
      [] s.k = "expr"      -> Expr(C, s.x).C

-----------------------------------------------------------------------------
Explicit(stmts) == \E i \in DOMAIN stmts : stmts[i].k = "return"

(* A function's parameters are its first registers. *)
Parameters(C, ps) == FoldLeft(LAMBDA D, p : Bind(Take(D, 1), p, D.next, FALSE), C, ps)
EndFunction(C, b) ==
    IF b.tail = NoExpr /\ Explicit(b.stmts) THEN C ELSE Returns(TailOf(C, b))
Compiled(f, functions) == EndFunction(Stmts(Parameters(New(functions), f.params), f.body.stmts), f.body)

Finish(C) == [code |-> C.code, regs |-> C.next]
CompileFunction(f, functions) == Finish(Compiled(f, functions))
Accepted(f, functions)        == ~Compiled(f, functions).rejected
=============================================================================
