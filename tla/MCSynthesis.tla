---------------------------- MODULE MCSynthesis -----------------------------
(***************************************************************************)
(* Synthesis over a family of small logic blocks.                          *)
(***************************************************************************)
EXTENDS Synthesis, LogicMeaning

A == Var("a")
B == Var("b")
Q == Var("q")
Y == Var("y")

\* Conditions and values: constants, repeated and opposite subexpressions, the
\* same function in two forms, and a register.  None needs parentheses: a | b
\* binds closer than a and b, and a * b closer than both.
Conditions == {Neg(B), Bin("xor", A, Q), Lit(TRUE)}
Values == {Lit(FALSE), Bin("and", A, Neg(B)), Bin("or", Neg(A), B),
           Bin("xor", A, B), Bin("and", Bin("or", A, B), Bin("or", Neg(A), Neg(B))),
           Bin("eq", Q, B), Bin("or", Bin("product", Minus(A), Q), B)}

\* Assignments alone; a branch with one arm, with two, nested and followed by a
\* read of what it wrote.  Registers are written in branches or not at all.
Blocks ==
  {<<Set("y", v), Set("q", Bin("xor", Y, Q))>> : v \in Values} \cup
  {<<If(c, <<Set("q", v)>>, <<>>)>> : c \in Conditions, v \in Values} \cup
  {<<If(c, <<Set("y", v), Set("q", A)>>, <<Set("y", B)>>), Set("z", Bin("or", Y, B))>> :
     c \in Conditions, v \in Values} \cup
  {<<If(A, <<If(c, <<Set("y", B)>>, <<Set("q", Lit(TRUE))>>)>>, <<Set("y", Q)>>)>> :
     c \in Conditions}

\* What is lowered to something else than it says: a comparison, and whatever is
\* in parentheses.
Misread == {<<Set("y", Bin("less", A, B)), Set("q", Bin("xor", Q, Y))>>,
            <<Set("y", Bin("and", A, Group(Bin("or", Q, B)))), Set("q", Neg(Group(Y)))>>}

MCPrograms ==
  {[registers |-> <<"q">>, block |-> b, code |-> Code(b)] : b \in Blocks \cup Misread}

\* All words distinguish all valuations, or only two of them.
MCSamples(S) ==
  {[S -> BOOLEAN], {[s \in S |-> FALSE], [s \in S |-> TRUE]}}

Region(y, w, h) == [x |-> 0, y |-> y, w |-> w, h |-> h]
MCOptions ==
  {[region |-> Region(0, 5000000, 6000000), fraig |-> TRUE, cec |-> TRUE],
   [region |-> Region(3000000, 50000000, 30000000), fraig |-> FALSE, cec |-> TRUE],
   [region |-> Region(0, 2000000, 2720000), fraig |-> TRUE, cec |-> FALSE]}

-----------------------------------------------------------------------------
Lowered == phase \notin {"registers", "lower"}
Names == {"a", "b", "q"}

\* The graph lowered computes what the block means, for every input and state:
\* branches are merged, and only the names they write (lib.rs, lower_logic_stmt).
\* A comparison, or what is in parentheses, means something else.
LoweredMeansSource ==
  Lowered /\ program.block \notin Misread => \A named \in [Names -> BOOLEAN] :
    LET mem == Run(program.block, named, [n \in {} |-> FALSE])
        Got(n) == IF n \in DOMAIN mem THEN mem[n] ELSE n = "q" /\ named["q"]
        outs == Assigned(program.block) \ {"q"}
    IN  Results(golden, named) =
          [out |-> [n \in outs |-> Got(n)], next |-> [i \in {1} |-> Got("q")]]

\* The net of a node under the cells that drive the nets.
NetValues(sv) ==
  LET DrivenBy(n) == {i \in DOMAIN netlist : netlist[i].out = n /\ netlist[i].cell # "dff"}
      val[n \in NodeIds(opt)] ==
        IF n = 0 THEN FALSE
        ELSE IF DrivenBy(n) = {} THEN sv[n]
        ELSE LET ins == netlist[CHOOSE i \in DrivenBy(n) : TRUE].inputs
             IN  ~(val[ins[1]] /\ val[ins[2]])
  IN  val

\* In a verified result the cells compute the outputs of the block, one way up or
\* the other (lib.rs, "into a verified, row-legalized standard cell netlist").
VerifiedNetlistMeansSource ==
  verified = "yes" =>
    \A n \in DOMAIN golden.outputs : \E flip \in BOOLEAN :
      \A named \in [Names -> BOOLEAN] :
        /\ NetValues(ByName(opt, named))[opt.outputs[n].node]
             = (Results(golden, named).out[n] # flip)
=============================================================================
