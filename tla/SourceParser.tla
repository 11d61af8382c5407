---------------------------- MODULE SourceParser ----------------------------
(* The top level of the parser (hwc-parser/src/parser/mod.rs): items are parsed
   one after another into the program, and an item that fails is reported and
   skipped, by advancing one token and then up to one that may begin an item
   (panic mode).  The loop stops when the collector is at its limit.

   Tokens stand for classes: "import" and "space" for the keywords of items that
   recovery stops at, "const" for those it does not (const, impl), "let" for the
   keyword of a statement it stops at, "x" for a token that is an expression or
   the rest of an item, "semicolon" and "hash" for themselves, the second of which
   begins an attribute, and "brace" for a token that begins nothing.  An item is a
   keyword and its rest, a statement may be an expression alone; the end of the
   stream is Eof, which begins nothing either. *)
EXTENDS DiagnosticCollector

VARIABLES tokens,     \* the source
          current,      \* position, from 1
          parsing,    \* the loop runs
          items,      \* the program so far
          collector

parserVars == <<tokens, current, parsing, items, collector>>

Keywords == {"import", "space", "const", "let"}
Classes == Keywords \cup {"x", "brace", "semicolon", "hash"}
Token(at) == IF at <= Len(tokens) THEN tokens[at] ELSE "eof"

(* A parse function's result: the position it has come to, and whether it got
   its item.  It does not consume the token it trips over. *)
Got(at) == [at |-> at, ok |-> TRUE]
Tripped(at) == [at |-> at, ok |-> FALSE]
OptionalSemicolon(at) == IF Token(at) = "semicolon" THEN at + 1 ELSE at
ParseKeyword(at) ==
    IF Token(at + 1) = "x" THEN Got(OptionalSemicolon(at + 2)) ELSE Tripped(at + 1)
ParseItemAt(at) ==
    IF Token(at) \in Keywords THEN ParseKeyword(at)
    ELSE IF Token(at) = "x" THEN Got(at + 1) ELSE Tripped(at)
ParseAttribute(at) == IF Token(at + 1) = "x" THEN Got(at + 2) ELSE Tripped(at + 1)

\* Mutant: a failed item is reported and its tokens are left where they are.
SynchronizeNowhere(at) == at

(* One token on, then to the next at which recovery stops. *)
Synchronize(at) ==
    LET from == IF at <= Len(tokens) THEN at + 1 ELSE at
        stops == {i \in from..Len(tokens) : tokens[i] \in {"import", "space", "let", "semicolon"}}
    IN IF stops = {} THEN Len(tokens) + 1
       ELSE CHOOSE i \in stops : \A j \in stops : i <= j

PastSemicolons(at) ==
    CHOOSE i \in at..(Len(tokens) + 1) :
        /\ Token(i) # "semicolon"
        /\ \A j \in at..(i - 1) : Token(j) = "semicolon"

\* Mutant: a failed attribute is recovered from and not reported.
AttributesQuiet(at) ==
    LET run[i \in at..(Len(tokens) + 1)] ==
            IF Token(i) # "hash" THEN Got(i)
            ELSE IF ParseAttribute(i).ok THEN run[i + 2]
            ELSE Got(Synchronize(i + 1))
    IN run[at]

(* The attributes before an item: as many as parse; one that fails is reported
   and ends them, wherever recovery gets to. *)
Attributes(at) ==
    LET run[i \in at..(Len(tokens) + 1)] ==
            IF Token(i) # "hash" THEN Got(i)
            ELSE IF ParseAttribute(i).ok THEN run[i + 2]
            ELSE Tripped(Synchronize(i + 1))
    IN run[at]

(* The loop ends at the end of the tokens, or at the collector's limit. *)
EndParse ==
    /\ parsing
    /\ PastSemicolons(current) > Len(tokens) \/ ShouldStop(collector)
    /\ parsing' = FALSE
    /\ UNCHANGED <<tokens, current, items, collector>>

(* One turn: attributes, then an item.  After a failed attribute the token that
   recovery stopped at is parsed as an item, be it the end. *)
ParseItem ==
    /\ parsing
    /\ PastSemicolons(current) <= Len(tokens) /\ ~ShouldStop(collector)
    /\ LET attributes == Attributes(PastSemicolons(current))
           afterAttributes == IF attributes.ok THEN collector ELSE Report(collector, "error")
           item == ParseItemAt(attributes.at)
       IN /\ current' = IF item.ok THEN item.at ELSE Synchronize(item.at)
          /\ items' = IF item.ok THEN Append(items, Token(attributes.at)) ELSE items
          /\ collector' = IF item.ok THEN afterAttributes ELSE Report(afterAttributes, "error")
    /\ UNCHANGED <<tokens, parsing>>

Parse == ParseItem \/ EndParse

-----------------------------------------------------------------------------
(* The grammar the parser is for: what a well-formed source's items are, from a
   position on, or <<"broken">>. *)
Broken == <<"broken">>
Read(source) ==
    LET n == Len(source)
        At(i) == IF i <= n THEN source[i] ELSE "eof"
        Then(item, rest) == IF rest = Broken THEN Broken ELSE <<item>> \o rest
        \* items from position i on
        read[i \in 1..(n + 1)] ==
            IF At(i) = "eof" THEN <<>>
            ELSE IF At(i) = "semicolon" THEN read[i + 1]
            ELSE IF At(i) = "x" THEN Then("x", read[i + 1])
            ELSE IF At(i + 1) # "x" THEN Broken
            ELSE IF At(i) \in Keywords THEN Then(At(i), read[i + 2])
            ELSE IF At(i) = "hash" /\ At(i + 2) \notin {"eof", "semicolon"} THEN read[i + 2] ELSE Broken
    IN read
ItemsFrom(source) == Read(source)[1]
WellFormed(source) == ItemsFrom(source) # Broken
=============================================================================
