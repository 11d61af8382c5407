--------------------------- MODULE ComptimeParser ---------------------------
(***************************************************************************)
(* From tokens to syntax trees, for functions and what is in them:         *)
(*   hwc-parser/src/parser/expression.rs                                   *)
(*   hwc-parser/src/parser/statements/{mod,blocks,control_flow,let_stmt,   *)
(*     assert_stmt,types}.rs, declarations/functions.rs                    *)
(*   hwc-parser/src/parser/helpers/{navigation,tokens}.rs                  *)
(*                                                                         *)
(* A token is its kind t and, for a name or a literal, its value v.  The   *)
(* state p of a parser is the tokens s that are left, whether it has not   *)
(* failed yet, and the tree x it has just built.  Comments, newlines and   *)
(* spans are no part of it: the parser skips the first two and looks at no *)
(* span.  Route, logic, reg and region statements are left out.            *)
(***************************************************************************)
EXTENDS Integers, Sequences, SequencesExt

Parser(tokens) == [s |-> tokens, ok |-> TRUE, x |-> <<>>]

PeekAhead(p, n) == IF n < Len(p.s) THEN p.s[n + 1].t ELSE "eof"
Check(p, t)     == p.ok /\ PeekAhead(p, 0) = t
CheckAny(p, ts) == p.ok /\ PeekAhead(p, 0) \in ts
IsAtEnd(p)      == p.s = <<>>

Fail(p)         == [p EXCEPT !.ok = FALSE]
Consume(p)      == [p EXCEPT !.s = Tail(@)]
ExpectToken(p, t) == IF Check(p, t) THEN Consume(p) ELSE Fail(p)
Skip(p, t)      == IF Check(p, t) THEN Consume(p) ELSE p
Built(p, x)     == [p EXCEPT !.x = x]

(* Most keywords are names too, where a name is expected. *)
ContextualKeywords ==
    {"space", "module", "device", "material", "profile", "route", "test", "let", "mut", "const",
     "true", "false", "fn", "struct", "enum", "if", "else", "for", "in", "return", "assert",
     "match", "import", "export", "from", "implements", "to"}
ExpectIdentifier(p) ==
    IF CheckAny(p, ContextualKeywords \cup {"id"}) THEN Built(Consume(p), Head(p.s).v) ELSE Fail(p)
(* _ or a name. *)
ExpectBinding(p) ==
    IF Check(p, "_") THEN Built(Consume(p), "_") ELSE ExpectIdentifier(p)

None == [k |-> "none"]

-----------------------------------------------------------------------------
(* The operators: what a token means between two operands, and how tightly *)
(* it binds.                                                               *)
BinaryOperator ==
    [or |-> "Or", and |-> "And"]
    @@ ("|" :> "BitOr") @@ ("^" :> "BitXor") @@ ("&" :> "BitAnd")
    @@ ("==" :> "Eq") @@ ("!=" :> "Ne") @@ ("<" :> "Lt") @@ (">" :> "Gt") @@ ("<=" :> "Le") @@ (">=" :> "Ge")
    @@ ("<<" :> "Shl") @@ (">>" :> "Shr") @@ ("+" :> "Add") @@ ("-" :> "Sub")
    @@ ("*" :> "Mul") @@ ("/" :> "Div") @@ ("%" :> "Mod")
UnaryOperator == [not |-> "Not"] @@ ("~" :> "BitNot") @@ ("-" :> "Neg") @@ ("+" :> "Plus")
AssignmentOperator ==
    ("=" :> "Assign") @@ ("+=" :> "Add") @@ ("-=" :> "Sub") @@ ("*=" :> "Mul") @@ ("/=" :> "Div") @@ ("%=" :> "Mod")
RangeTokens == {"..", "..="}

Precedence(f) ==
    CASE f = "Or"     -> 1
      [] f = "And"    -> 2
      [] f = "BitOr"  -> 3
      [] f = "BitXor" -> 4
      [] f = "BitAnd" -> 5
      [] f \in {"Eq", "Ne", "Lt", "Gt", "Le", "Ge"} -> 6
      [] f \in {"Shl", "Shr"} -> 7
      [] f \in {"Add", "Sub"} -> 8
      [] f \in {"Mul", "Div", "Mod"} -> 9
RangePrecedence == 4

(* Mutant: the right operand takes in operators of the same level. *)
OperandPrecedence_right(level) == level

(* What the right operand of an operator may hold: comparisons, which a    *)
(* comment calls non-associative, are treated as the others are.           *)
OperandPrecedence(level) == level + 1

-----------------------------------------------------------------------------
RECURSIVE Parse(_, _), ParseExpression(_, _)   \* a construct; an expression of some level
RECURSIVE PrattLoop(_, _), ParseItems(_, _, _, _), ParseArms(_, _, _), ParsePathSegments(_, _),
          ParsePostfixChain(_), ParseMore(_), ParseBlockItems(_, _)   \* the loops

(* The loop over operators; p.x is the left operand. *)
ParseExpression(p, min) == PrattLoop(Parse(p, "prefix"), min)
PrattLoop(p, min) ==
    LET token == PeekAhead(p, 0)
        Right(level) == ParseExpression(Consume(p), OperandPrecedence(level))
        Joined(q, x) == PrattLoop(Built(q, x), min)
    IN  IF CheckAny(p, RangeTokens) /\ RangePrecedence >= min
            THEN LET q == Right(RangePrecedence)
                 IN  Joined(q, [k |-> "range", lo |-> p.x, hi |-> q.x, inclusive |-> token = "..="])
        ELSE IF CheckAny(p, DOMAIN BinaryOperator) /\ Precedence(BinaryOperator[token]) >= min
            THEN LET q == Right(Precedence(BinaryOperator[token]))
                 IN  Joined(q, [k |-> "bin", f |-> BinaryOperator[token], l |-> p.x, r |-> q.x])
        ELSE p

(* A list up to its closing token: a comma goes on, anything else ends it. *)
ParseParameter(p) ==
    LET n == ExpectIdentifier(p)
        t == IF n.x = "self" /\ ~Check(n, ":") THEN n ELSE Parse(ExpectToken(n, ":"), "type")
        d == IF Check(t, "=") THEN ParseExpression(Consume(t), 0) ELSE Built(t, None)
    IN  Built(d, [n |-> n.x, default |-> d.x])
ParseArgument(p) ==
    IF PeekAhead(p, 1) = ":"
        THEN LET n == ExpectIdentifier(p)
                 v == ParseExpression(ExpectToken(n, ":"), 0)
             IN  Built(v, [n |-> n.x, x |-> v.x])
        ELSE LET v == ParseExpression(p, 0) IN Built(v, [n |-> "", x |-> v.x])
ParseField(p) ==
    LET n == ExpectIdentifier(p)
        v == IF Check(n, ":") THEN ParseExpression(Consume(n), 0) ELSE Built(n, None)
    IN  Built(v, [n |-> n.x, x |-> v.x])
ParseItem(p, kind) ==
    CASE kind = "expression" -> ParseExpression(p, 0)
      [] kind = "argument"   -> ParseArgument(p)
      [] kind = "field"      -> ParseField(p)
      [] kind = "parameter"  -> ParseParameter(p)
      [] kind = "binding"    -> ExpectBinding(p)
      [] kind = "type"       -> Parse(p, "type")
ParseItems(p, close, kind, items) ==
    IF ~p.ok \/ Check(p, close) \/ IsAtEnd(p) THEN Built(ExpectToken(p, close), items)
    ELSE LET q == ParseItem(p, kind)
             found == Append(items, q.x)
         IN  IF Check(q, ",") THEN ParseItems(Consume(q), close, kind, found)
                              ELSE Built(ExpectToken(q, close), found)
ParseList(p, close, kind) == ParseItems(p, close, kind, <<>>)

(* After the name of a struct, or after nothing: is the brace here the     *)
(* start of its fields?  Two tokens decide.                                *)
LooksLikeStructInit(p) ==
    \/ PeekAhead(p, 1) = "}"
    \/ PeekAhead(p, 2) \in {":", ",", "}"}
ParseStructInstance(p, name) ==
    LET q == ParseList(ExpectToken(p, "{"), "}", "field")
    IN  Built(q, [k |-> "struct", name |-> name, fields |-> q.x])

(* else: an if of its own, or a block.  As an expression, the if is a      *)
(* whole prefix expression.                                                *)
ParseElse(p, kind) ==
    IF ~Check(p, "else") THEN Built(p, None)
    ELSE IF PeekAhead(p, 1) = "if"
        THEN Parse(Consume(p), IF kind = "expression" THEN "prefix" ELSE "statement")
    ELSE Parse(Consume(p), "block")
ParseIf(p, kind) ==
    LET c == ParseExpression(Consume(p), 0)
        t == Parse(c, "block")
        e == ParseElse(t, kind)
    IN  Built(e, [k |-> "if", cond |-> c.x, then |-> t.x, else |-> e.x])

(* The arms of a match.  An arm of a statement is a block; one of an       *)
(* expression may be an expression as well.                                *)
ParsePattern(p) == IF Check(p, "_") THEN Built(Consume(p), [k |-> "wild"]) ELSE ParseExpression(p, 0)
ParseArms(p, kind, arms) ==
    IF ~p.ok \/ Check(p, "}") \/ IsAtEnd(p) THEN Built(ExpectToken(p, "}"), arms)
    ELSE LET pat   == ParsePattern(p)
             arrow == ExpectToken(pat, "=>")
             body  == IF kind = "statement" \/ Check(arrow, "{") THEN Parse(arrow, "block")
                                                                 ELSE ParseExpression(arrow, 0)
         IN  ParseArms(Skip(body, ","), kind, Append(arms, [pat |-> pat.x, body |-> body.x]))
ParseMatch(p, kind) ==
    LET t == ParseExpression(Consume(p), 0)
        a == ParseArms(ExpectToken(t, "{"), kind, <<>>)
    IN  Built(a, [k |-> "match", target |-> t.x, arms |-> a.x])

(* Parentheses: the empty tuple, a tuple, or an expression of its own. *)
ParseParentheses(p) ==
    LET first == ParseExpression(p, 0)
        rest  == ParseList(Consume(first), ")", "expression")
    IN  IF Check(p, ")") THEN Built(Consume(p), [k |-> "tuple", elems |-> <<>>])
        ELSE IF Check(first, ",") THEN Built(rest, [k |-> "tuple", elems |-> <<first.x>> \o rest.x])
        ELSE Built(ExpectToken(first, ")"), [k |-> "group", x |-> first.x])

ParsePathSegments(p, segments) ==
    IF ~Check(p, "::") THEN Built(p, [k |-> "path", segs |-> segments])
    ELSE LET n == ExpectIdentifier(Consume(p)) IN ParsePathSegments(n, Append(segments, n.x))
ParseName(p) ==
    LET n == Head(p.s).v
        q == Consume(p)
    IN  IF Check(q, "::") THEN ParsePathSegments(q, <<n>>)
        ELSE IF Check(q, "{") /\ LooksLikeStructInit(q) THEN ParseStructInstance(q, n)
        ELSE Built(q, [k |-> "var", n |-> n])

(* Unary operators take a prefix expression and nothing after it. *)
ParseUnary(p) ==
    LET q == Parse(Consume(p), "prefix")
    IN  Built(q, [k |-> "unary", f |-> UnaryOperator[PeekAhead(p, 0)], x |-> q.x])
ParsePrimary(p) ==
    CASE Check(p, "if")     -> ParseIf(p, "expression")
      [] Check(p, "match")  -> ParseMatch(p, "expression")
      [] CheckAny(p, {"lit", "str"}) -> Built(Consume(p), [k |-> "lit", v |-> Head(p.s).v])
      [] Check(p, "space")  -> Built(Consume(p), [k |-> "var", n |-> "space"])
      [] Check(p, "id")     -> ParseName(p)
      [] Check(p, "{")      -> IF LooksLikeStructInit(p) THEN ParseStructInstance(p, "") ELSE Parse(p, "block")
      [] Check(p, "[")      -> LET q == ParseList(Consume(p), "]", "expression")
                               IN  Built(q, [k |-> "array", elems |-> q.x])
      [] Check(p, "(")      -> ParseParentheses(Consume(p))
      [] OTHER              -> Fail(p)
ParsePrefixExpression(p) ==
    IF CheckAny(p, DOMAIN UnaryOperator) THEN ParseUnary(p) ELSE ParsePostfixChain(ParsePrimary(p))

(* Calls, fields, indices and slices, one after the other; p.x is what     *)
(* they are applied to.  A slice that names its start never gets here as   *)
(* one: the start takes the range with it.                                 *)
ParseSlice(p, start) ==
    LET open == Consume(p)
        end  == IF Check(open, "]") \/ IsAtEnd(open) THEN Built(open, None) ELSE ParseExpression(open, 0)
    IN  [close |-> ExpectToken(end, "]"), lo |-> start, hi |-> end.x, inclusive |-> Check(p, "..=")]
ParseSubscript(p, target) ==
    LET first == ParseExpression(p, 0)
        Sliced(sl) == Built(sl.close, [k |-> "slice", target |-> target, lo |-> sl.lo, hi |-> sl.hi,
                                       inclusive |-> sl.inclusive])
    IN  IF CheckAny(p, RangeTokens) THEN Sliced(ParseSlice(p, None))
        ELSE IF CheckAny(first, RangeTokens) THEN Sliced(ParseSlice(first, first.x))
        ELSE Built(ExpectToken(first, "]"), [k |-> "index", target |-> target, index |-> first.x])
ParsePostfixChain(p) ==
    CASE Check(p, "(") -> LET q == ParseList(Consume(p), ")", "argument")
                          IN  ParsePostfixChain(Built(q, [k |-> "call", callee |-> p.x, args |-> q.x]))
      [] Check(p, ".") -> LET q == ExpectIdentifier(Consume(p))
                          IN  ParsePostfixChain(Built(q, [k |-> "field", target |-> p.x, n |-> q.x]))
      [] Check(p, "[") -> ParsePostfixChain(ParseSubscript(Consume(p), p.x))
      [] OTHER         -> p

-----------------------------------------------------------------------------
(* Types are parsed and not looked at. *)
ParseReturnType(p) == IF Check(p, "->") THEN Parse(Consume(p), "type") ELSE p
ParseTypeExpr(p) ==
    IF Check(p, "fn") THEN ParseReturnType(ParseList(ExpectToken(Consume(p), "("), ")", "type"))
    ELSE IF Check(p, "(") THEN ParseList(Consume(p), ")", "type")
    ELSE LET n == ExpectIdentifier(p)
         IN  IF Check(n, "[") THEN ParseList(Consume(n), "]", "type") ELSE n

ParseLet(p) ==
    LET m == Skip(Consume(p), "mut")
        b == IF Check(m, "(") THEN ParseList(Consume(m), ")", "binding") ELSE ExpectBinding(m)
        t == IF Check(b, ":") THEN Parse(Consume(b), "type") ELSE b
        v == ParseExpression(ExpectToken(t, "="), 0)
    IN  Built(v, [k |-> IF Check(m, "(") THEN "lettuple" ELSE "let", mut |-> PeekAhead(p, 1) = "mut",
                  n |-> b.x, x |-> v.x])

(* for n in x, or for a, b in x; a key is parsed and not compiled. *)
ParseKey(p) ==
    IF Check(p, "key") \/ (Check(p, "id") /\ Head(p.s).v = "key")
        THEN ParseExpression(ExpectToken(Consume(p), ":"), 0) ELSE p
ParseFor(p) ==
    LET first  == ExpectIdentifier(Consume(p))
        second == ExpectIdentifier(Consume(first))
        names  == IF Check(first, ",") THEN Built(second, <<first.x, second.x>>) ELSE Built(first, <<first.x>>)
        iter   == ParseExpression(ExpectToken(names, "in"), 0)
        body   == Parse(ParseKey(iter), "block")
    IN  Built(body, [k |-> "for", names |-> names.x, x |-> iter.x, body |-> body.x])

ParseReturn(p) ==
    LET q == Consume(p)
        v == IF CheckAny(q, {";", "}"}) \/ IsAtEnd(q) THEN Built(q, None) ELSE ParseExpression(q, 0)
    IN  Built(v, [k |-> "return", x |-> v.x])

(* assert(x), or with a message and the arguments of its placeholders. *)
ParseMore(p) == IF Check(p, ",") THEN ParseMore(ParseExpression(Consume(p), 0)) ELSE ExpectToken(p, ")")
ParseMessage(p) ==
    IF Check(p, ",") /\ PeekAhead(p, 1) = "str" THEN ParseMore(Consume(Consume(p)))
    ELSE IF Check(p, ",") THEN ExpectToken(ParseExpression(Consume(p), 0), ")")
    ELSE ExpectToken(p, ")")
ParseAssert(p) ==
    LET c == ParseExpression(ExpectToken(Consume(p), "("), 0)
    IN  Built(ParseMessage(c), [k |-> "assert", x |-> c.x])

(* An expression, or an assignment to one. *)
ParseAssignment(p) ==
    LET t == ParseExpression(p, 0)
        v == ParseExpression(Consume(t), 0)
    IN  IF CheckAny(t, DOMAIN AssignmentOperator)
            THEN Built(v, [k |-> "assign", f |-> AssignmentOperator[PeekAhead(t, 0)], target |-> t.x, x |-> v.x])
            ELSE Built(t, [k |-> "expr", x |-> t.x])
ParseJump(p) == Skip(Built(Consume(p), [k |-> PeekAhead(p, 0)]), ";")

ParseStatement(p) ==
    CASE Check(p, "let")    -> ParseLet(p)
      [] Check(p, "if")     -> ParseIf(p, "statement")
      [] Check(p, "for")    -> ParseFor(p)
      [] Check(p, "match")  -> ParseMatch(p, "statement")
      [] Check(p, "return") -> ParseReturn(p)
      [] Check(p, "assert") -> ParseAssert(p)
      [] CheckAny(p, {"break", "continue"}) -> ParseJump(p)
      [] OTHER              -> ParseAssignment(p)

(* An expression before the closing brace, with no semicolon between, is   *)
(* the tail; an if or a match at its place is a statement and never is.    *)
IsTail(after) == after.x.k = "expr" /\ Check(after, "}")

(* What is in a block, up to its closing brace. *)
ParseBlockItems(p, stmts) ==
    LET block(tail) == [k |-> "block", stmts |-> stmts, tail |-> tail]
        after == Parse(p, "statement")
    IN  IF ~p.ok \/ Check(p, "}") \/ IsAtEnd(p) THEN Built(p, block(None))
        ELSE IF Check(p, ";") THEN ParseBlockItems(Consume(p), stmts)
        ELSE IF IsTail(after) THEN Built(after, block(after.x.x))
        ELSE ParseBlockItems(Skip(after, ";"), Append(stmts, after.x))

(* p is at a brace, or fails. *)
ParseBlock(p) == ExpectToken(ParseBlockItems(ExpectToken(p, "{"), <<>>), "}")

Parse(p, what) ==
    CASE what = "prefix"    -> ParsePrefixExpression(p)
      [] what = "type"      -> ParseTypeExpr(p)
      [] what = "statement" -> ParseStatement(p)
      [] what = "block"     -> ParseBlock(p)

(* fn name(a: T, b: T = x) -> T { ... } *)
ParseFunctionDecl(p) ==
    LET n  == ExpectIdentifier(ExpectToken(p, "fn"))
        ps == ParseList(ExpectToken(n, "("), ")", "parameter")
        b  == Parse(ParseReturnType(ps), "block")
    IN  Built(b, [params |-> [i \in DOMAIN ps.x |-> ps.x[i].n],
                  defaults |-> [i \in DOMAIN ps.x |-> ps.x[i].default],
                  body |-> b.x])
=============================================================================
