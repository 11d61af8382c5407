--------------------------- MODULE MCModuleImports ---------------------------
(* Files for model checking: the built file, two it imports, and a fourth
   that these import, in every combination of a few contents each. *)
EXTENDS ModuleImports

CONSTANTS a, b, c, x, y, m  \* m is the qualified name of a method

Take(f, names) == [from |-> f, all |-> FALSE, names |-> names]
TakeAll(f)     == [from |-> f, all |-> TRUE, names |-> <<>>]
Item(n, kind, exported) == [name |-> n, kind |-> kind, exported |-> exported]
Text(imports, items, exports) ==
    [imports |-> imports, items |-> items, exports |-> exports, broken |-> FALSE]
Broken == [imports |-> <<>>, items |-> <<>>, exports |-> {}, broken |-> TRUE]

Mains ==
    {Text(imports, items, {}) :
        imports \in {<<TakeAll(a), TakeAll(b)>>, <<Take(a, <<x, y>>), Take(b, <<x>>)>>,
                     <<Take(b, <<y>>), Take(a, <<x>>)>>},
        items \in {<<Item(x, "device", FALSE), Item(x, "function", FALSE)>>,
                   <<Item(m, "impl", FALSE), Item(m, "impl", FALSE)>>, <<>>}}

As ==
    {Text(imports, items, exports) :
        imports \in {<<>>, <<TakeAll(b), Take(c, <<x>>)>>, <<TakeAll(Main)>>},
        items \in {<<Item(x, "function", TRUE), Item(y, "device", FALSE)>>, <<Item(m, "impl", TRUE)>>},
        exports \in {{}, {x, y}}}

Bs ==
    {Text(imports, items, exports) :
        imports \in {<<>>, <<Take(c, <<y>>)>>, <<TakeAll(a), TakeAll(NoFile)>>},
        items \in {<<Item(x, "function", TRUE), Item(y, "space", FALSE)>>},
        exports \in {{}, {x}}}
    \cup {Text(<<TakeAll(c)>>, <<Item(y, "function", TRUE)>>, {x})}

Cs ==
    {Text(imports, <<Item(x, "device", TRUE), Item(y, "function", TRUE)>>, {}) :
        imports \in {<<>>, <<TakeAll(b)>>}}
    \cup {Broken}

SomeDisks == {[f \in File |-> CASE f = Main -> p [] f = a -> q [] f = b -> r [] f = c -> t] :
              p \in Mains, q \in As, r \in Bs, t \in Cs}
=============================================================================
