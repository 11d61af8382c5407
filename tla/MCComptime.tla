------------------------------ MODULE MCComptime ------------------------------
(***************************************************************************)
(* Programs for the comptime parser, compiler and machine.  A family is a  *)
(* set of functions that differ in one place; each member is written down  *)
(* as tokens, parsed, compiled and run.                                    *)
(***************************************************************************)
EXTENDS ComptimeMeaning, ComptimeParser, ComptimeText

CONSTANT Family   \* which programs the run takes

Lit(i)        == [k |-> "lit", v |-> Num(i)]
Bool(b)       == [k |-> "lit", v |-> Flag(b)]
Var(n)        == [k |-> "var", n |-> n]
Un(f, x)      == [k |-> "unary", f |-> f, x |-> x]
Bin(f, l, r)  == [k |-> "bin", f |-> f, l |-> l, r |-> r]
To(lo, hi)    == [k |-> "range", lo |-> lo, hi |-> hi, inclusive |-> FALSE]
Upto(n)       == To(Lit(0), Lit(n))
Thru(lo, hi)  == [k |-> "range", lo |-> lo, hi |-> hi, inclusive |-> TRUE]
Elems(es)     == [k |-> "array", elems |-> es]
Tup(es)       == [k |-> "tuple", elems |-> es]
With(n, x)    == [n |-> n, x |-> x]
Make(n, fs)   == [k |-> "struct", name |-> n, fields |-> fs]
Dot(x, n)     == [k |-> "field", target |-> x, n |-> n]
Nth(x, i)     == [k |-> "index", target |-> x, index |-> i]
Cut(x, hi, i) == [k |-> "slice", target |-> x, lo |-> NoExpr, hi |-> hi, inclusive |-> i]
Calls(f, as)  == [k |-> "call", callee |-> f, args |-> as]
Plain(es)     == [i \in DOMAIN es |-> With("", es[i])]
Ask(f, as)    == Calls(Var(f), Plain(as))
Tell(x, m, as) == Calls(Dot(x, m), Plain(as))
Size(x)       == Tell(x, "len", <<>>)
Blk(ss, tail) == [k |-> "block", stmts |-> ss, tail |-> tail]
Do(ss)        == Blk(ss, NoExpr)
IfElse(c, t, e) == [k |-> "if", cond |-> c, then |-> t, else |-> e]
If(c, t)      == IfElse(c, t, NoExpr)
Match(x, arms) == [k |-> "match", target |-> x, arms |-> arms]
Arm(p, b)     == [pat |-> p, body |-> b]
For(n, x, ss) == [k |-> "for", names |-> <<n>>, x |-> x, body |-> Do(ss)]
For2(n, m, x, ss) == [k |-> "for", names |-> <<n, m>>, x |-> x, body |-> Do(ss)]
Let(n, x)     == [k |-> "let", n |-> n, x |-> x, mut |-> FALSE]
LetMut(n, x)  == [k |-> "let", n |-> n, x |-> x, mut |-> TRUE]
LetAll(ns, x) == [k |-> "lettuple", n |-> ns, x |-> x, mut |-> FALSE]
By(n, f, x)   == [k |-> "assign", target |-> Var(n), f |-> f, x |-> x]
Set(n, x)     == By(n, "Assign", x)
Plus(n, x)    == By(n, "Add", x)
Ret(x)        == [k |-> "return", x |-> x]
Must(x)       == [k |-> "assert", x |-> x]
Run(x)        == [k |-> "expr", x |-> x]
Push(n, x)    == Tell(Var(n), "push", <<x>>)
Break         == [k |-> "break"]
Continue      == [k |-> "continue"]
Fn(ps, ss, tail) == [params |-> ps, defaults |-> [i \in DOMAIN ps |-> NoExpr], body |-> Blk(ss, tail)]
Script(ss, tail) == Fn(<<>>, ss, tail)

(* What the body of a loop over i may do, with x outside of it. *)
IsOne  == Bin("Eq", Var("i"), Lit(1))
Leaves == <<Plus("x", Lit(1)), Break, Continue, Ret(Var("x")),
            Set("x", IfElse(IsOne, Blk(<<>>, Lit(5)), Blk(<<Plus("x", Lit(3))>>, Var("x")))),
            Run(Blk(<<Let("x", Lit(7))>>, Var("x"))),
            Must(Bin("Lt", Var("i"), Lit(1)))>>
Map(F(_), s)     == [k \in DOMAIN s |-> F(s[k])]
Pairs(F(_, _), s) ==
    LET n == Len(s) IN [k \in 1 .. n * n |-> F(s[((k - 1) \div n) + 1], s[((k - 1) % n) + 1])]
Branches ==
    Map(LAMBDA l : If(IsOne, Do(<<l>>)), Leaves)
    \o Pairs(LAMBDA l, m : IfElse(IsOne, Do(<<l>>), Do(<<m>>)), Leaves)
    \o Pairs(LAMBDA l, m : Match(Var("i"), <<Arm(Lit(1), Do(<<l>>)), Arm(Lit(0), Do(<<m>>)),
                                             Arm(Wild, Do(<<Plus("x", Lit(4))>>))>>), Leaves)
Nested == Map(LAMBDA s : For("j", Upto(2), <<s, Plus("x", Lit(2))>>), Leaves \o Branches)

Looping ==
    Map(LAMBDA s : Script(<<LetMut("x", Lit(0)), For("i", Upto(3), <<s, Plus("x", Lit(10))>>)>>, Var("x")),
        Leaves \o Branches \o Nested)


(* Every operator beside every other, grouped either way; every unary one  *)
(* before, within and around every other; and every one in a range.        *)
BinarySeq == <<"Or", "And", "BitOr", "BitXor", "BitAnd", "Eq", "Ne", "Lt", "Gt", "Le", "Ge",
               "Shl", "Shr", "Add", "Sub", "Mul", "Div", "Mod">>
UnarySeq  == <<"Not", "BitNot", "Neg", "Plus">>
Answer(x) == Script(<<>>, x)
Grouped(a, b, c) ==
    Pairs(LAMBDA f, g : Answer(Bin(f, Lit(a), Bin(g, Lit(b), Lit(c)))), BinarySeq)
    \o Pairs(LAMBDA f, g : Answer(Bin(g, Bin(f, Lit(a), Lit(b)), Lit(c))), BinarySeq)
Signed(u) ==
    Map(LAMBDA f : Answer(Bin(f, Un(u, Lit(6)), Lit(3))), BinarySeq)
    \o Map(LAMBDA f : Answer(Bin(f, Lit(6), Un(u, Lit(3)))), BinarySeq)
    \o Map(LAMBDA f : Answer(Un(u, Bin(f, Lit(6), Lit(3)))), BinarySeq)
Operating ==
    Grouped(6, 3, 2) \o Grouped(1, 0, 0)
    \o Signed("Not") \o Signed("BitNot") \o Signed("Neg") \o Signed("Plus")
    \o Map(LAMBDA f : Answer(To(Lit(0), Bin(f, Lit(2), Lit(1)))), BinarySeq)
    \o Map(LAMBDA f : Answer(Bin(f, Bool(TRUE), Bool(FALSE))), BinarySeq)
    \o Map(LAMBDA u : Answer(Un(u, Bool(TRUE))), UnarySeq)

(* Calls, recursion within and past the limit, arrays, methods. *)
Count == Fn(<<"n">>, <<If(Bin("Lt", Lit(0), Var("n")),
                          Do(<<Ret(Bin("Add", Lit(1), Ask("count", <<Bin("Sub", Var("n"), Lit(1))>>)))>>))>>,
            Lit(0))
Swap  == Fn(<<"a", "b">>, <<Let("n", Bin("Sub", Var("b"), Var("a")))>>, Var("n"))
Touch == Fn(<<"a">>, <<Let("x", Lit(9)), Let("y", Var("x"))>>, NoExpr)
Area  == [Fn(<<"w", "h">>, <<>>, Bin("Sub", Bin("Mul", Var("w"), Lit(10)), Var("h")))
             EXCEPT !.defaults = <<NoExpr, Bin("Add", Lit(1), Lit(1))>>]
Net   == Fn(<<"self", "d">>, <<>>, Bin("Add", Var("d"), Ask("count", <<Var("d")>>)))
Wide  == Fn(<<"self", "d">>, <<>>, Bin("Add", Dot(Var("self"), "w"), Var("d")))
(* A method that calls itself. *)
Dig   == Fn(<<"self", "n">>, <<If(Bin("Lt", Lit(0), Var("n")),
                                  Do(<<Ret(Tell(Var("self"), "dig", <<Bin("Sub", Var("n"), Lit(1))>>))>>))>>,
            Var("n"))
(* A match as an expression, over a parameter or a local. *)
Choose2 == Fn(<<"t">>, <<Let("y", Match(Var("t"), <<Arm(Lit(1), Lit(100)), Arm(Lit(2), Lit(200)),
                                                    Arm(Wild, Lit(300))>>))>>, Var("y"))
(* Arrays written by calls within calls, and by a method's. *)
Fill  == Fn(<<"n">>, <<Let("a", Elems(<<Var("n"), Lit(0)>>)),
                       If(Bin("Lt", Lit(0), Var("n")), Do(<<Run(Ask("fill", <<Bin("Sub", Var("n"), Lit(1))>>))>>))>>,
            Size(Var("a")))
Keep  == Fn(<<"self", "n">>, <<Ret(Bin("Add", Ask("fill", <<Var("n")>>), Size(Elems(<<Var("n")>>))))>>, NoExpr)
Library == (<<"choose">> :> Choose2) @@ (<<"count">> :> Count) @@ (<<"swap">> :> Swap)
           @@ (<<"touch">> :> Touch) @@ (<<"area">> :> Area)
           @@ (<<"Pad", "net">> :> Net) @@ (<<"Pad", "dig">> :> Dig) @@ (<<"Pad", "wide">> :> Wide)
           @@ (<<"fill">> :> Fill) @@ (<<"Pad", "keep">> :> Keep)

Three == Elems(<<Lit(1), Lit(2), Lit(3)>>)
Pad   == Make("Pad", <<With("w", Lit(4)), With("h", Lit(2))>>)
Numbers(n) == [k \in 1 .. n |-> k - 1]
Calling ==
    Map(LAMBDA i : Script(<<Let("x", Lit(1)), Let("y", Ask("count", <<Lit(i)>>))>>,
                          Bin("Add", Var("y"), Lit(10))), Numbers(7))
    \o Map(LAMBDA i : Script(<<Let("x", Lit(1)), Let("y", Ask("swap", <<Var("x"), Ask("count", <<Lit(i)>>)>>))>>,
                             Bin("Add", Var("x"), Var("y"))), Numbers(7))
    \o Map(LAMBDA i : Script(<<Let("p", Pad)>>, Tell(Var("p"), "net", <<Lit(i)>>)), Numbers(6))
    \o Map(LAMBDA i : Script(<<Let("p", Pad)>>, Tell(Var("p"), "dig", <<Lit(i)>>)), <<1, 6>>)
    \o <<Script(<<Let("x", Lit(1)), Run(Ask("touch", <<Var("x")>>))>>, Var("x")),
         Script(<<Let("p", Pad), Run(Tell(Var("p"), "none", <<>>))>>, Var("p")),
         Script(<<Let("x", Lit(2)), Run(Ask("absent", <<Var("x")>>))>>, Var("x")),
         Script(<<Run(Tell(Lit(3), "net", <<>>))>>, NoExpr),
         Script(<<Ret(Bin("Add", Lit(3), Pad))>>, NoExpr),
         Script(<<LetMut("x", Lit(0)), Let("a", Three), Run(Push("a", Lit(4))),
                  For("i", Var("a"), <<Plus("x", Var("i"))>>)>>, Var("x")),
         Script(<<LetMut("x", Lit(0)), For("i", Lit(3), <<Plus("x", Lit(1))>>),
                  Let("b", Elems(<<>>))>>, Var("x"))>>
    (* Arguments by place, by name and by default. *)
    \o Map(LAMBDA as : Answer(Calls(Var("area"), as)),
           <<Plain(<<Lit(4), Lit(3)>>), Plain(<<Lit(4)>>), <<With("w", Lit(4))>>,
             <<With("h", Lit(3)), With("w", Lit(4))>>, <<With("w", Lit(4)), With("", Lit(3))>>,
             <<With("", Lit(4)), With("h", Ask("count", <<Lit(1)>>))>>>>)
    \o <<Answer(Calls([k |-> "path", segs |-> <<"Pad", "wide">>], Plain(<<Pad, Lit(1)>>))),
         Answer(Tell(Pad, "wide", <<Size(Three)>>))>>

(* Tuples, structs, indices, slices, compound assignments, else-if.        *)
Couple(i, j) == Tup(<<Lit(i), Lit(j)>>)
Chain(c) == IfElse(Bin("Lt", Var("i"), Lit(1)), Blk(<<>>, c),
                   IfElse(IsOne, Blk(<<>>, Var("x")), Blk(<<>>, Bin("Mul", c, Lit(2)))))
Shaping ==
    Map(LAMBDA x : Script(<<Let("a", Three), Let("i", Lit(1)), Let("t", Couple(7, 8)),
                            LetAll(<<"b", "c">>, Var("t")), Let("p", Pad), Let("w", Lit(9))>>, x),
        <<Bin("Sub", Var("b"), Var("c")), Nth(Var("a"), Var("i")), Nth(Var("a"), Lit(3)), Nth(Var("t"), Lit(0)),
          Nth(Var("a"), Un("Neg", Lit(1))), Nth(Elems(<<Var("a"), Var("t")>>), Lit(1)),
          Nth(Nth(Elems(<<Var("t"), Var("a")>>), Lit(1)), Lit(2)),
          Cut(Var("a"), Lit(2), FALSE), Cut(Var("a"), Lit(1), TRUE), Cut(Var("a"), NoExpr, FALSE),
          Cut(Var("a"), Lit(9), FALSE), Cut(Var("t"), Lit(1), FALSE), Cut(Var("a"), Un("Neg", Lit(1)), FALSE),
          Nth(Cut(Var("a"), Lit(2), FALSE), Lit(1)), Size(Cut(Var("a"), Lit(2), FALSE)),
          Size(Var("a")), Size(Var("t")), Size(Lit(3)), Dot(Var("p"), "h"), Dot(Var("p"), "d"), Dot(Lit(1), "w"),
          Dot(Make("Pad", <<With("w", NoExpr), With("h", Lit(2))>>), "w"), Make("Pad", <<>>),
          Bin("Eq", Var("p"), Pad), Bin("Add", Nth(Var("t"), Lit(0)), Dot(Var("p"), "w")), Tup(<<>>),
          Ask("count", <<Nth(Var("a"), Lit(2))>>), Thru(Var("i"), Bin("Add", Var("i"), Lit(2))),
          IfElse(Bin("Eq", Var("i"), Var("w")), Blk(<<>>, Var("i")), Blk(<<>>, Var("w")))>>)
    \o Map(LAMBDA f : Script(<<LetMut("x", Lit(7)), By("x", f, Lit(2)), By("x", f, Bin("Add", Lit(1), Lit(1)))>>,
                             Var("x")), <<"Assign", "Add", "Sub", "Mul", "Div", "Mod">>)
    \o Map(LAMBDA n : Script(<<LetMut("x", Lit(5)), Let("i", Lit(n)), Set("x", Chain(Lit(3)))>>, Var("x")), Numbers(3))
    \o Map(LAMBDA n : Script(<<LetMut("x", Lit(5)), Let("i", Lit(n)),
                               IfElse(IsOne, Do(<<Plus("x", Lit(1))>>),
                                      IfElse(Bin("Lt", Var("i"), Lit(1)), Do(<<Plus("x", Lit(2))>>),
                                             Do(<<Plus("x", Lit(3))>>)))>>, Var("x")), Numbers(3))
    \o <<Script(<<LetMut("x", Lit(0)),
                  For2("a", "b", Elems(<<Couple(1, 2), Couple(3, 4)>>), <<Plus("x", Bin("Mul", Var("a"), Var("b")))>>)>>,
                Var("x")),
         Script(<<Let("x", Lit(1)), If(Bin("Lt", Var("x"), Lit(2)), Do(<<Ret(NoExpr)>>)), Ret(NoExpr), Let("y", Lit(1))>>,
                Var("x"))>>

(* Arrays up to the quota and past it: in loops that end in every way, in   *)
(* calls, within one another, kept or dropped; and what is not counted.    *)
Some2 == Elems(<<Lit(1), Lit(2)>>)
Spending ==
    Map(LAMBDA n : Script(<<For("i", Upto(n), <<Let("a", Some2)>>)>>, Lit(n)), Numbers(6))
    \o Map(LAMBDA s : Script(<<For("i", Upto(4), <<If(IsOne, Do(<<s>>)), Let("a", Some2)>>)>>, Lit(1)),
           <<Break, Continue, Ret(Lit(3)), Run(Some2), Run(Couple(1, 2))>>)
    \o Map(LAMBDA n : Script(<<Let("x", Ask("fill", <<Lit(n)>>))>>, Var("x")), Numbers(6))
    \o Map(LAMBDA n : Script(<<Let("p", Pad), Let("x", Tell(Var("p"), "keep", <<Lit(n)>>))>>,
                             Size(Elems(<<Var("x")>>))), Numbers(4))
    \o Map(Answer,
           <<Elems(<<Some2, Some2>>), Elems(<<Some2, Some2, Lit(5)>>), Elems(<<Three, Bin("Add", Lit(3), Pad), Three>>),
             Elems(<<Three, Three, Bin("Add", Lit(3), Pad)>>), Elems(<<Ask("fill", <<Lit(1)>>), Ask("fill", <<Lit(0)>>)>>)>>)
    \o <<Script(<<LetMut("a", Three), For("i", Upto(9), <<Run(Push("a", Var("i")))>>)>>, Size(Var("a"))),
         Script(<<LetMut("a", Elems(<<>>)), For("i", Upto(4), <<Run(Push("a", Three))>>)>>, Var("a")),
         Script(<<Let("a", Three), Let("b", Cut(Var("a"), Lit(3), FALSE)), Let("c", Cut(Var("b"), Lit(3), FALSE))>>,
                Tup(<<Var("a"), Var("b"), Var("c"), Three>>))>>

Matching == Map(LAMBDA i : Script(<<Let("z", Lit(0))>>, Ask("choose", <<Lit(i)>>)), Numbers(4))

(* Chunks no source program compiles to: a jump to itself, and loops that  *)
(* count.                                                                  *)
Raw ==
    LET Loop(s) == [op |-> "LoopStep", dst |-> 0, end |-> 1, step |-> s, offset |-> -1]
        Counting(from, to, s) ==
            [regs |-> 3, code |-> <<Load(0, Num(from)), Load(1, Num(to)), Move(2, 0), Loop(s)>>]
    IN  (<<"spin">>  :> [regs |-> 0, code |-> <<Jmp>>])
     @@ (<<"up">>    :> Counting(0, 2, 1))
     @@ (<<"down">>  :> Counting(2, 0, -1))

Mains == CASE Family = "programs" -> Looping \o Calling \o Shaping \o Spending \o Operating
           [] Family = "matches"  -> Matching

(* Everything a run may call: the library, and its scripts by number; as   *)
(* it was written, and as the parser reads it.                             *)
EntryNames == {<<"$script", i>> : i \in 1 .. Len(Mains)}
MCEntry    == EntryNames \cup (IF Family = "programs" THEN DOMAIN Raw ELSE {})
Named(s)   == [f \in EntryNames |-> s[f[2]]]
Sources    == Library @@ Named(Mains)
MCFunctions == Sources
Parsed(f)  == ParseFunctionDecl(Parser(FunctionText("f", f)))
Declare(fs)  == [f \in DOMAIN fs |-> Parsed(fs[f]).x]
Declarations == Declare(Sources)
Assemble(ds) == [f \in DOMAIN ds |-> CompileFunction(ds[f], ds)] @@ Raw
Assembled    == Assemble(Declarations)
(* Through a LET, so that TLC's coverage does not unfold the parser here. *)
MCChunks     == LET chunks == Assembled IN chunks
Meanings   == [f \in EntryNames |-> Meaning(f)]

(* The parser and the compiler accept these programs; the compiler rejects *)
(* a name outside its scope, a break outside of a loop, an assignment to   *)
(* what is not mutable and a call that leaves a parameter without a value. *)
Misplaced ==
    <<Script(<<Run(Blk(<<Let("y", Lit(1))>>, NoExpr))>>, Var("y")),
      Script(<<For("i", Upto(2), <<Let("z", Lit(1))>>), Plus("z", Lit(1))>>, NoExpr),
      Script(<<For("i", Upto(2), <<>>), Break>>, NoExpr),
      Script(<<Let("x", Lit(1)), Set("x", Lit(2))>>, Var("x")),
      Script(<<For("i", Upto(2), <<Plus("i", Lit(1))>>)>>, NoExpr),
      Answer(Ask("area", <<>>)),
      Answer(Calls(Var("area"), <<With("h", Lit(3)), With("", Lit(4))>>)),
      Answer(Calls(Var("area"), <<With("h", Lit(3)), With("", Lit(5)), With("w", Lit(4))>>))>>
Whole(p) == p.ok /\ IsAtEnd(p)
ASSUME Scoping ==
    /\ \A f \in DOMAIN Sources : Whole(Parsed(Sources[f])) /\ Accepted(Declarations[f], Declarations)
    /\ \A i \in DOMAIN Misplaced : Whole(Parsed(Misplaced[i])) /\ ~Accepted(Parsed(Misplaced[i]).x, Declarations)

(* What the parser makes of a brace after a name, and of one on its own:   *)
(* if flag { 42 } else { 0 } is no expression, { x } is a struct without a *)
(* name, and a match whose arms are not blocks is no tail of a function.   *)
InBraces(ts) == <<Sym("{")>> \o ts \o <<Sym("}")>>
Whether(ts)  == <<Sym("if")>> \o ts \o InBraces(<<Lexeme(Num(42))>>) \o <<Sym("else")>> \o InBraces(<<Lexeme(Num(0))>>)
ASSUME Braces ==
    /\ ~ParseExpression(Parser(Whether(<<Name("flag")>>)), 0).ok
    /\ Whole(ParseExpression(Parser(Whether(InParens(<<Name("flag")>>))), 0))
    /\ ParseExpression(Parser(InBraces(<<Name("x")>>)), 0).x.k = "struct"
    /\ ~Parse(Parser(InBraces(Text(Match(Var("t"), <<Arm(Lit(1), Lit(2))>>)))), "block").ok

(* A program that ends of itself ends the way it was written: however the  *)
(* operators and statements are read, and whatever jumps and registers the *)
(* compiler gives them.  It is stopped for memory, in whatever loop or call, *)
(* exactly when the arrays it has written hold more than the quota.        *)
CompiledMeansSource ==
    entry \in EntryNames /\ status \notin {"running", "fuel"} =>
        <<status, result>> = Meanings[entry]

(* README: match is an expression.  The value of a match expression is the *)
(* one of the first arm whose pattern equals the target.                   *)
MatchPicksArm == status = "done" => <<status, result>> = Meanings[entry]
=============================================================================
