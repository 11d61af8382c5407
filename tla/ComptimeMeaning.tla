-------------------------- MODULE ComptimeMeaning ---------------------------
(***************************************************************************)
(* What a comptime program means, without registers, jumps or frames: the  *)
(* definition the compiled programs are compared with.                     *)
(*                                                                         *)
(* An outcome M is the scopes (innermost last), a signal that says how     *)
(* execution goes on, and a value.  Blocks open a scope and evaluate to    *)
(* their tail, arms are tried in order, break and continue end the         *)
(* innermost loop or its turn, and a loop visits the elements its iterable *)
(* has when the loop begins.                                               *)
(*                                                                         *)
(* A program may write arrays of Quota elements in all, wherever it writes *)
(* them and whether it keeps them or not.  What it grows by pushes or makes *)
(* as a range, a slice, a tuple or a struct is not counted.                *)
(***************************************************************************)
EXTENDS ComptimeCompiler

CONSTANT Functions   \* function declarations, by name: params, defaults and body

Outcome(env, sig, v) == [env |-> env, sig |-> sig, v |-> v]
Value(env, v)        == Outcome(env, "next", v)
Abrupt(M)            == M.sig # "next"
Enclose(env)         == Append(env, [n \in {} |-> Void])
Close(M)             == [M EXCEPT !.env = Front(@)]

Define(env, n, v) ==
    [env EXCEPT ![Len(env)] = [m \in DOMAIN @ \cup {n} |-> IF m = n THEN v ELSE @[m]]]
Scope(env, n) ==
    CHOOSE i \in DOMAIN env : /\ n \in DOMAIN env[i]
                              /\ \A j \in i + 1 .. Len(env) : n \notin DOMAIN env[j]
Update(env, n, v) == [env EXCEPT ![Scope(env, n)][n] = v]

(* The elements written so far are a variable of the outermost scope, that *)
(* a call takes along and brings back.                                     *)
Written == "$written"
WrittenIn(env)  == env[1][Written]
WithWritten(env, n) == [env EXCEPT ![1] = [m \in DOMAIN @ \cup {Written} |-> IF m = Written THEN n ELSE @[m]]]

RECURSIVE Eval(_, _, _)

(* depth is the number of calls in progress. *)
EvalAll(env, es, depth) ==
    LET Add(M, e) == IF Abrupt(e) THEN e ELSE Value(e.env, Append(M.v, e.v))
    IN  FoldLeft(LAMBDA M, x : IF Abrupt(M) THEN M ELSE Add(M, Eval(M.env, x, depth)),
                 Value(env, <<>>), es)

ExecAll(env, ss, depth) ==
    FoldLeft(LAMBDA M, s : IF Abrupt(M) THEN M ELSE Eval(M.env, s, depth), Value(env, Void), ss)

EvalBlock(env, b, depth) ==
    LET End(M) == Close(IF Abrupt(M) THEN M ELSE Eval(M.env, b.tail, depth))
    IN  End(ExecAll(Enclose(env), b.stmts, depth))

Invoke(env, name, args, depth) ==
    IF name \notin DOMAIN Functions THEN Outcome(env, "unknown", Void)
    ELSE IF depth >= MaxDepth THEN Outcome(env, "depth", Void)
    ELSE LET f     == Functions[name]
             bound == [n \in Range(f.params) |->
                          args[CHOOSE i \in DOMAIN f.params : f.params[i] = n]]
             End(M) == IF M.sig \in {"next", "return"} THEN Value(WithWritten(env, WrittenIn(M.env)), M.v)
                       ELSE Outcome(env, M.sig, Void)
         IN  End(EvalBlock(WithWritten(<<bound>>, WrittenIn(env)), f.body, depth + 1))

(* The argument a parameter gets, in the order of the parameters: the one  *)
(* that names it, or the one at its place, or its default.                 *)
ArgumentOf(f, args, i) ==
    LET naming == {j \in DOMAIN args : args[j].n = f.params[i]}
    IN  IF naming # {} THEN args[CHOOSE j \in naming : TRUE].x
        ELSE IF i \in DOMAIN args /\ args[i].n = "" THEN args[i].x
        ELSE f.defaults[i]
CallParts(fn, args) ==
    IF fn \in DOMAIN Functions
        THEN [i \in DOMAIN Functions[fn].params |-> ArgumentOf(Functions[fn], args, i)]
        ELSE [i \in DOMAIN args |-> args[i].x]
CallKind(x) ==
    CASE x.callee.k # "field" -> "function"
      [] x.callee.k = "field" /\ x.callee.n \in {"push", "len"} -> x.callee.n
      [] OTHER -> "method"
CalleeName(c) == IF c.k = "path" THEN c.segs ELSE <<c.n>>

(* The first arm that is _ or equals the target. *)
Select(env, arms, v, depth) ==
    LET Picked == {i \in DOMAIN arms :
                      arms[i].pat = Wild \/ Truthy(Binary("Eq", Eval(env, arms[i].pat, depth).v, v))}
    IN  IF Picked = {} THEN Value(env, Void) ELSE Eval(env, arms[Min(Picked)].body, depth)

Iterate(env, s, items, depth) ==
    LET Unless(M, sig) == IF M.sig = sig THEN Value(M.env, Void) ELSE M
        Bindings(env1, item) ==
            IF Len(s.names) = 1 THEN Define(env1, s.names[1], item)
            ELSE Define(Define(env1, s.names[1], item.v[1]), s.names[2], item.v[2])
        Turn(M, item) ==
            IF Abrupt(M) THEN M
            ELSE Unless(Close(ExecAll(Bindings(Enclose(M.env), item), s.body.stmts, depth)), "continue")
    IN  Unless(FoldLeft(Turn, Value(env, Void), items), "break")

(* The value of an expression, or the effect of a statement, whose parts   *)
(* have the values v.                                                      *)
Apply(env, x, v, depth) ==
    LET Checked(w, end) == IF w.t = "error" THEN Outcome(env, "type", Void) ELSE end
        Computes(w)     == Checked(w, Value(env, w))
        Writes(n)       == IF n > Quota THEN Outcome(env, "memory", Void) ELSE Value(WithWritten(env, n), List(v))
    IN  CASE x.k = "bin"    -> Computes(Binary(x.f, v[1], v[2]))
          [] x.k = "unary"  -> Computes(IF x.f = "Plus" THEN v[1] ELSE Unary(x.f, v[1]))
          [] x.k = "range"  -> Value(env, RangeOf(v[1], v[2], Flag(x.inclusive)))
          [] x.k = "array"  -> Writes(WrittenIn(env) + Len(v))
          [] x.k = "tuple"  -> Value(env, Tuple(v))
          [] x.k = "struct" -> Value(env, Struct(x.name, [i \in DOMAIN v |-> <<x.fields[i].n, v[i]>>]))
          [] x.k = "field"  -> Computes(FieldOf(v[1], x.n))
          [] x.k = "index"  -> Value(env, IndexOf(v[1], v[2]))
          [] x.k = "slice"  -> Computes(IF x.inclusive /\ x.hi # NoExpr
                                           THEN SliceOf(v[1], v[2], Binary("Add", v[3], Num(1)))
                                           ELSE SliceOf(v[1], v[2], v[3]))
          [] x.k = "call" /\ CallKind(x) = "push" ->
                Value(Update(env, x.callee.target.n, List(Append(v[1].v, v[2]))), Void)
          [] x.k = "call" /\ CallKind(x) = "len" -> Computes(Unary("Len", v[1]))
          [] x.k = "call" /\ CallKind(x) = "function" -> Invoke(env, CalleeName(x.callee), v, depth)
          [] x.k = "call" /\ CallKind(x) = "method" ->
                IF v[1].t # "struct" THEN Outcome(env, "type", Void)
                ELSE Invoke(env, <<v[1].name, x.callee.n>>, v, depth)
          [] x.k = "if"     -> Eval(env, IF Truthy(v[1]) THEN x.then ELSE x.else, depth)
          [] x.k = "match"  -> Select(env, x.arms, v[1], depth)
          [] x.k = "for"    -> Iterate(env, x, IF v[1].t \in {"array", "tuple"} THEN v[1].v ELSE <<>>, depth)
          [] x.k = "let"    -> Value(Define(env, x.n, v[1]), Void)
          [] x.k = "lettuple" ->
                Value(FoldLeft(LAMBDA e, i : Define(e, x.n[i], IndexOf(v[1], Num(i - 1))),
                               env, [i \in DOMAIN x.n |-> i]), Void)
          [] x.k = "assign" ->
                LET old == env[Scope(env, x.target.n)][x.target.n]
                    w   == IF x.f = "Assign" THEN v[1] ELSE Binary(x.f, old, v[1])
                IN  Checked(w, Value(Update(env, x.target.n, w), Void))
          [] x.k = "return" -> Outcome(env, "return", v[1])
          [] x.k = "assert" -> IF Truthy(v[1]) THEN Value(env, Void) ELSE Outcome(env, "assert", Void)
          [] x.k = "expr"   -> Value(env, Void)

(* The parts that are evaluated first, from left to right. *)
Parts(x) ==
    CASE x.k = "bin"    -> <<x.l, x.r>>
      [] x.k = "range"  -> <<x.lo, x.hi>>
      [] x.k \in {"array", "tuple"} -> x.elems
      [] x.k = "struct" -> FieldValues(x)
      [] x.k = "field"  -> <<x.target>>
      [] x.k = "index"  -> <<x.target, x.index>>
      [] x.k = "slice"  -> <<x.target, OrVoid(x.lo), OrVoid(x.hi)>>
      [] x.k = "call"   -> IF CallKind(x) = "function" THEN CallParts(CalleeName(x.callee), x.args)
                           ELSE <<x.callee.target>> \o [i \in DOMAIN x.args |-> x.args[i].x]
      [] x.k = "if"     -> <<x.cond>>
      [] x.k = "match"  -> <<x.target>>
      [] OTHER          -> <<x.x>>

Eval(env, x, depth) ==
    CASE x.k = "lit"   -> Value(env, x.v)
      [] x.k = "var"   -> Value(env, env[Scope(env, x.n)][x.n])
      [] x.k \in {"none", "wild"} -> Value(env, Void)
      [] x.k = "block" -> EvalBlock(env, x, depth)
      [] x.k \in {"break", "continue"} -> Outcome(env, x.k, Void)
      [] OTHER -> LET Go(M) == IF Abrupt(M) THEN M ELSE Apply(M.env, x, M.v, depth)
                  IN  Go(EvalAll(env, Parts(x), depth))

(* The end of a run of function f, as the machine reports it. *)
Meaning(f) ==
    LET End(M) == IF M.sig \in {"next", "return"} THEN <<"done", M.v>> ELSE <<M.sig, Void>>
    IN  End(EvalBlock(WithWritten(<<[n \in {} |-> Void]>>, 0), Functions[f].body, 1))
=============================================================================
