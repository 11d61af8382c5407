---------------------------- MODULE ComptimeText ----------------------------
(***************************************************************************)
(* How a program is written down: a syntax tree as tokens, the way its     *)
(* author would write it.  Parentheses go where the usual ranking of the   *)
(* operators needs them, a semicolon where the next statement would        *)
(* otherwise be read as a part of this one, or the last would be the tail. *)
(*                                                                         *)
(* A condition that ends in a name is put in parentheses before a block    *)
(* that could be read as the fields of a struct of that name; and an if, a *)
(* match or a block that is to be a value is, where a statement could be.  *)
(***************************************************************************)
EXTENDS Integers, Sequences, SequencesExt

Sym(t)   == [t |-> t, v |-> t]
Name(n)  == [t |-> "id", v |-> n]
Lexeme(v) == [t |-> "lit", v |-> v]
InParens(ts) == <<Sym("(")>> \o ts \o <<Sym(")")>>
Joining(parts, sep) ==
    FoldLeft(LAMBDA ts, i : ts \o (IF i = 1 THEN <<>> ELSE sep) \o parts[i], <<>>,
             [i \in DOMAIN parts |-> i])
Commas(parts) == Joining(parts, <<Sym(",")>>)

(* From the loosest to the tightest. *)
Ranking ==
    << [Or |-> "or"], [And |-> "and"], [BitOr |-> "|"], [BitXor |-> "^"], [BitAnd |-> "&"],
       [Eq |-> "==", Ne |-> "!=", Lt |-> "<", Gt |-> ">", Le |-> "<=", Ge |-> ">="],
       [Shl |-> "<<", Shr |-> ">>"], [Add |-> "+", Sub |-> "-"], [Mul |-> "*", Div |-> "/", Mod |-> "%"] >>
Rank(f)   == CHOOSE i \in DOMAIN Ranking : f \in DOMAIN Ranking[i]
Symbol(f) == Sym(Ranking[Rank(f)][f])
UnarySymbols == [Not |-> "not", BitNot |-> "~", Neg |-> "-", Plus |-> "+"]
Prefix   == Len(Ranking) + 1     \* a unary operator and its operand
Primary  == Prefix + 1           \* what a call, a field or an index applies to
RankOf(x) ==
    CASE x.k = "bin"   -> Rank(x.f)
      [] x.k = "range" -> Rank("BitXor")
      [] x.k = "unary" -> Prefix
      [] OTHER         -> Primary

Keywords == {"let", "if", "for", "break", "continue", "match", "return", "assert"}
(* The next statement's first token cannot go on the expression before it. *)
Apart(ts) == ts # <<>> /\ Head(ts).t \in Keywords \cup {"id", "lit"}
(* A name and then these tokens would read as a struct. *)
Fields(block) == block[2].t = "}" \/ block[3].t \in {":", ",", "}"}
Guarded(ts, block) == IF Last(ts).t = "id" /\ Fields(block) THEN InParens(ts) ELSE ts

RECURSIVE Text(_), Lines(_, _), BlockText(_)

(* An expression where only operators of at least this rank are.           *)
Within(x, rank) == IF RankOf(x) < rank THEN InParens(Text(x)) ELSE Text(x)
(* An expression where a statement could begin. *)
Opening(x) == LET ts == Text(x) IN IF Head(ts).t \in {"if", "match", "{"} THEN InParens(ts) ELSE ts

ArgText(a)   == (IF a.n = "" THEN <<>> ELSE <<Name(a.n), Sym(":")>>) \o Text(a.x)
FieldText(a) == <<Name(a.n)>> \o IF a.x.k = "none" THEN <<>> ELSE <<Sym(":")>> \o Text(a.x)
All(F(_), xs) == [i \in DOMAIN xs |-> F(xs[i])]
OrNothing(x) == IF x.k = "none" THEN <<>> ELSE Text(x)
ArmText(a) ==
    (IF a.pat.k = "wild" THEN <<Sym("_")>> ELSE Text(a.pat)) \o <<Sym("=>")>>
    \o IF a.body.k = "block" THEN BlockText(a.body) ELSE Text(a.body) \o <<Sym(",")>>
ElseText(x) ==
    CASE x.k = "none" -> <<>>
      [] x.k = "if"   -> <<Sym("else")>> \o Text(x)
      [] OTHER        -> <<Sym("else")>> \o BlockText(x)

Text(x) ==
    CASE x.k = "lit"    -> <<Lexeme(x.v)>>
      [] x.k = "var"    -> <<Name(x.n)>>
      [] x.k = "path"   -> Joining(All(LAMBDA n : <<Name(n)>>, x.segs), <<Sym("::")>>)
      [] x.k = "unary"  -> <<Sym(UnarySymbols[x.f])>> \o Within(x.x, Prefix)
      [] x.k = "bin"    -> Within(x.l, Rank(x.f)) \o <<Symbol(x.f)>> \o Within(x.r, Rank(x.f) + 1)
      [] x.k = "range"  -> Within(x.lo, RankOf(x)) \o <<Sym(IF x.inclusive THEN "..=" ELSE "..")>>
                           \o Within(x.hi, RankOf(x) + 1)
      [] x.k = "array"  -> <<Sym("[")>> \o Commas(All(Text, x.elems)) \o <<Sym("]")>>
      [] x.k = "tuple"  -> InParens(Joining(All(LAMBDA e : Text(e) \o <<Sym(",")>>, x.elems), <<>>))
      [] x.k = "struct" -> <<Name(x.name), Sym("{")>> \o Commas(All(FieldText, x.fields)) \o <<Sym("}")>>
      [] x.k = "field"  -> Within(x.target, Primary) \o <<Sym("."), Name(x.n)>>
      [] x.k = "index"  -> Within(x.target, Primary) \o <<Sym("[")>> \o Text(x.index) \o <<Sym("]")>>
      [] x.k = "slice"  -> Within(x.target, Primary) \o <<Sym("[")>> \o OrNothing(x.lo)
                           \o <<Sym(IF x.inclusive THEN "..=" ELSE "..")>> \o OrNothing(x.hi) \o <<Sym("]")>>
      [] x.k = "call"   -> Within(x.callee, Primary) \o InParens(Commas(All(ArgText, x.args)))
      [] x.k = "block"  -> BlockText(x)
      [] x.k = "if"     -> LET block == BlockText(x.then)
                           IN  <<Sym("if")>> \o Guarded(Text(x.cond), block) \o block \o ElseText(x.else)
      [] x.k = "match"  -> LET arms == Joining(All(ArmText, x.arms), <<>>)
                               body == <<Sym("{")>> \o arms \o <<Sym("}")>>
                           IN  <<Sym("match")>> \o Guarded(Text(x.target), body) \o body

(* The statements.  What an expression ends with is open: more could follow. *)
Open(s) == s.k \in {"let", "lettuple", "assign", "return", "expr"}
Bare(s) == s.k = "return" /\ s.x.k = "none"
AssignSymbols == [Assign |-> "=", Add |-> "+=", Sub |-> "-=", Mul |-> "*=", Div |-> "/=", Mod |-> "%="]
LetText(s) ==
    <<Sym("let")>> \o (IF s.mut THEN <<Sym("mut")>> ELSE <<>>)
    \o (IF s.k = "let" THEN <<Name(s.n)>> ELSE InParens(Commas(All(LAMBDA n : <<Name(n)>>, s.n))))
    \o <<Sym("=")>> \o Text(s.x)
Line(s) ==
    CASE s.k \in {"let", "lettuple"} -> LetText(s)
      [] s.k = "assign" -> Opening(s.target) \o <<Sym(AssignSymbols[s.f])>> \o Text(s.x)
      [] s.k = "for"    -> LET block == BlockText(s.body)
                           IN  <<Sym("for")>> \o Commas(All(LAMBDA n : <<Name(n)>>, s.names)) \o <<Sym("in")>>
                               \o Guarded(Text(s.x), block) \o block
      [] s.k = "return" -> <<Sym("return")>> \o OrNothing(s.x)
      [] s.k = "assert" -> <<Sym("assert")>> \o InParens(Text(s.x))
      [] s.k = "expr"   -> Opening(s.x)
      [] s.k \in {"break", "continue"} -> <<Sym(s.k)>>
      [] s.k \in {"if", "match"} -> Text(s)

(* Statements and then the tokens after them. *)
Lines(ss, after) ==
    IF ss = <<>> THEN after
    ELSE LET rest == Lines(Tail(ss), after)
             ends == Bare(Head(ss)) \/ (Open(Head(ss)) /\ ~Apart(rest))
         IN  Line(Head(ss)) \o (IF ends THEN <<Sym(";")>> ELSE <<>>) \o rest
BlockText(b) ==
    <<Sym("{")>> \o Lines(b.stmts, (IF b.tail.k = "none" THEN <<>> ELSE Opening(b.tail)) \o <<Sym("}")>>)

(* A function of this name; every parameter has the type T. *)
ParameterText(f, i) ==
    <<Name(f.params[i]), Sym(":"), Name("T")>>
    \o IF f.defaults[i].k = "none" THEN <<>> ELSE <<Sym("=")>> \o Text(f.defaults[i])
FunctionText(n, f) ==
    <<Sym("fn"), Name(n)>>
    \o InParens(Commas([i \in DOMAIN f.params |-> ParameterText(f, i)]))
    \o <<Sym("->"), Name("T")>> \o BlockText(f.body)
=============================================================================
