----------------------------- MODULE Synthesis ------------------------------
(***************************************************************************)
(* NativeSynthesizer of hwc-synthesis: a logic block is lowered to an      *)
(* and-inverter graph, the graph is reduced, mapped to cells, the cells    *)
(* are placed and put on rows, and the reduced graph is checked against    *)
(* the one lowered.                                                        *)
(*                                                                         *)
(* The lowering recurses over the syntax tree; here the tree is given in   *)
(* the order in which the recursion comes to it ("code"): operands before  *)
(* their operator, "if" after its condition, "else" and "end" where the    *)
(* branches end.  The recursion's stack is "edges" for expressions and     *)
(* "forks" for the environments of open branches.                          *)
(***************************************************************************)
EXTENDS AigGraph, FiniteSets, CellRows

CONSTANTS
  Programs,   \* logic blocks: [registers |-> names, code |-> sequence of tokens]
  Samples(_), \* the sets of source valuations the simulation may have drawn
  Options     \* SynthesisOptions: region (region_boundary), fraig and cec (enable_)

ASSUME OptionsTyped ==
  \A o \in Options : o.region \in [x : Int, y : Int, w : Int, h : Int]

VARIABLES
  program, options,
  phase,      \* the stage of synthesize_aig that runs
  pos,        \* the token, node, register or instance the stage has come to
  edges, env, forks,                \* lowering
  golden, opt,                      \* the graphs: lowered, and reduced
  draw, leaders, repl, mapping,     \* reduction
  netlist, placed, legal,           \* mapping, placement
  verified                          \* "no", "yes", or "mismatch"

\* What a token takes from the stack of edges and what it leaves on it.
Taken(t) == CASE t.op \in {"not", "sign", "assign", "if"} -> 1 [] t.op = "bin" -> 2 [] OTHER -> 0
Left(t) == IF t.op \in {"var", "lit", "other", "not", "sign", "bin"} THEN 1 ELSE 0
Opens(t) == CASE t.op = "if" -> 1 [] t.op = "end" -> -1 [] OTHER -> 0

\* The edges on the stack, and the branches open, after i tokens.
Depth(code) ==
  LET d[i \in 0 .. Len(code)] == IF i = 0 THEN 0 ELSE d[i-1] + Left(code[i]) - Taken(code[i])
  IN  d
Opened(code) ==
  LET o[i \in 0 .. Len(code)] == IF i = 0 THEN 0 ELSE o[i-1] + Opens(code[i])
  IN  o

\* The operators: "or" stands for || and |, "xor" for ^ and !=; "product" and
\* "less" for those that have no arm of their own.
Operators == {"and", "or", "xor", "eq", "product", "less"}

TokenTyped(t) ==
  /\ t.op \in {"var", "lit", "other", "not", "sign", "bin", "assign", "if", "else", "end"}
  /\ t.op \in {"var", "assign"} => t.name \in STRING
  /\ t.op = "lit" => t.value \in BOOLEAN
  /\ t.op = "bin" => t.f \in Operators

\* The code is that of a tree: operands are there for their operator, and a
\* branch ends that began.
ASSUME ProgramsTyped ==
  \A p \in Programs :
    /\ p.registers \in Seq(STRING) /\ Len(p.code) \in Nat
    /\ \A i \in 1 .. Len(p.code) :
         /\ TokenTyped(p.code[i]) /\ Taken(p.code[i]) <= Depth(p.code)[i-1]
         /\ p.code[i].op \in {"else", "end"} => Opened(p.code)[i-1] > 0

vars == <<program, options, phase, pos, edges, env, forks, golden, opt, draw,
          leaders, repl, mapping, netlist, placed, legal, verified>>

lowering == <<edges, env, forks>>
reducing == <<draw, leaders, repl, mapping>>
placing == <<netlist, placed, legal>>

NoDraw == [vectors |-> {}, top |-> <<>>, ones |-> <<>>]

\* A function with one more entry, and a table's entry or a default.
Put(f, k, v) == [x \in DOMAIN f \cup {k} |-> IF x = k THEN v ELSE f[x]]
Lookup(f, k, d) == IF k \in DOMAIN f THEN f[k] ELSE d

NoEnv == [syms |-> [n \in {} |-> [role |-> "input", val |-> ZERO]], written |-> {}]

Init ==
  /\ program \in Programs
  /\ options \in Options
  /\ phase = "registers" /\ pos = 1
  /\ edges = <<>> /\ env = NoEnv /\ forks = <<>>
  /\ golden = EmptyGraph /\ opt = EmptyGraph
  /\ draw = NoDraw /\ leaders = [p \in {} |-> 0]
  /\ repl = [n \in {} |-> ZERO] /\ mapping = [n \in {} |-> ZERO]
  /\ netlist = <<>> /\ placed = <<>> /\ legal = <<>>
  /\ verified = "no"

GoTo(p) == phase' = p /\ pos' = 1
Stay == phase' = phase /\ pos' = pos + 1

-----------------------------------------------------------------------------
(* Lowering: lower_logic_block_to_aig and what it calls.                   *)

Declare(e, name, role, val) ==
  [e EXCEPT !.syms = Put(@, name, [role |-> role, val |-> val])]

\* write_signal: a name not yet known becomes an output.
Write(e, name, val) ==
  LET role == IF name \in DOMAIN e.syms THEN e.syms[name].role ELSE "output"
  IN  [Declare(e, name, role, val) EXCEPT !.written = @ \cup {name}]

ValueOf(e, name) == IF name \in DOMAIN e.syms THEN e.syms[name].val ELSE ZERO

DeclareRegister ==
  /\ phase = "registers" /\ pos <= Len(program.registers)
  /\ LET name == program.registers[pos]
         r == AddDff(golden, name, ZERO)
     IN  golden' = r.g /\ env' = Declare(env, name, "register", r.e)
  /\ Stay
  /\ UNCHANGED <<program, options, edges, forks, opt, reducing, placing, verified>>

EndRegisters ==
  /\ phase = "registers" /\ pos > Len(program.registers)
  /\ GoTo("lower")
  /\ UNCHANGED <<program, options, lowering, golden, opt, reducing, placing, verified>>

Token == program.code[pos]
Lowering(op) ==
  /\ phase = "lower" /\ pos <= Len(program.code) /\ Token.op = op
  /\ Stay
  /\ UNCHANGED <<program, options, opt, reducing, placing, verified>>

\* The last edges lowered, and the stack without them and with a result.
Top(k) == edges[Len(edges) - k]
Replace(k, e) == Append(SubSeq(edges, 1, Len(edges) - k), e)

\* get_or_declare_input: the declaration stays in the branch that reads.
LowerVariable ==
  /\ Lowering("var")
  /\ IF Token.name \in DOMAIN env.syms
     THEN /\ edges' = Replace(0, env.syms[Token.name].val)
          /\ UNCHANGED <<env, golden>>
     ELSE LET r == AddInput(golden, Token.name)
          IN  /\ golden' = r.g
              /\ edges' = Replace(0, r.e)
              /\ env' = Declare(env, Token.name, "input", r.e)
  /\ UNCHANGED forks

LowerLiteral ==
  /\ Lowering("lit")
  /\ edges' = Replace(0, IF Token.value THEN ONE ELSE ZERO)
  /\ UNCHANGED <<env, forks, golden>>

\* An expression of any other form, one in parentheses among them, is the
\* constant 0, its parts unread.
LowerOther ==
  /\ Lowering("other")
  /\ edges' = Replace(0, ZERO)
  /\ UNCHANGED <<env, forks, golden>>

LowerNot ==
  /\ Lowering("not")
  /\ edges' = Replace(1, Not(Top(0)))
  /\ UNCHANGED <<env, forks, golden>>

\* A sign leaves its operand as it is.
LowerSign ==
  /\ Lowering("sign")
  /\ UNCHANGED <<edges, env, forks, golden>>

\* An operator without an arm of its own is lowered as "and".
Gate(f, l, r) ==
  CASE f = "or" -> AddOr(golden, l, r)
    [] f = "xor" -> AddXor(golden, l, r)
    [] f = "eq" -> Inverted(AddXor(golden, l, r))
    [] OTHER -> AddAnd(golden, l, r)

LowerBinary ==
  /\ Lowering("bin")
  /\ LET r == Gate(Token.f, Top(1), Top(0))
     IN  golden' = r.g /\ edges' = Replace(2, r.e)
  /\ UNCHANGED <<env, forks>>

\* The token's name is the target's without its ".next"; read, x.next is a name
\* of its own.
Assign ==
  /\ Lowering("assign")
  /\ env' = Write(env, Token.name, Top(0))
  /\ edges' = SubSeq(edges, 1, Len(edges) - 1)
  /\ UNCHANGED <<forks, golden>>

\* The two branches start from copies of the environment, with no writes.
Fork(e) == [e EXCEPT !.written = {}]

BeginIf ==
  /\ Lowering("if")
  /\ forks' = Append(forks, [cond |-> Top(0), outer |-> env, then |-> NoEnv])
  /\ edges' = SubSeq(edges, 1, Len(edges) - 1)
  /\ env' = Fork(env)
  /\ UNCHANGED golden

Else ==
  /\ Lowering("else")
  /\ forks' = [forks EXCEPT ![Len(forks)].then = env]
  /\ env' = Fork(forks[Len(forks)].outer)
  /\ UNCHANGED <<edges, golden>>

\* A name's values where the branches end, through a multiplexer if they differ.
MergeOne(f, other, name, m) ==
  LET t == ValueOf(f.then, name)
      e == ValueOf(other, name)
      r == IF t = e THEN Same(m.g, t) ELSE AddMux(m.g, f.cond, t, e)
  IN  [g |-> r.g, env |-> Write(m.env, name, r.e)]

\* Merge the names written in a branch, in the order of a hash set.
Merge(f, other, names) ==
  LET m[i \in 0 .. Len(names)] ==
        IF i = 0 THEN [g |-> golden, env |-> f.outer]
        ELSE MergeOne(f, other, names[i], m[i-1])
  IN  m[Len(names)]

OrdersOf(S) ==
  {s \in [1 .. Cardinality(S) -> S] : \A i, j \in 1 .. Cardinality(S) :
                                         s[i] = s[j] => i = j}

EndIf ==
  /\ Lowering("end")
  /\ LET f == forks[Len(forks)]
     IN  \E names \in OrdersOf(f.then.written \cup env.written) :
           LET m == Merge(f, env, names)
           IN  golden' = m.g /\ env' = m.env
  /\ forks' = SubSeq(forks, 1, Len(forks) - 1)
  /\ UNCHANGED edges

\* Registers take their values, outputs are named; then the reduction starts,
\* or is skipped, or has nothing to do.
Finalize ==
  /\ phase = "lower" /\ pos > Len(program.code)
  /\ LET outs == {n \in DOMAIN env.syms : env.syms[n].role = "output"}
     IN  golden' = [golden EXCEPT
           !.registers = [i \in DOMAIN @ |-> [@[i] EXCEPT !.d = ValueOf(env, golden.registers[i].name)]],
           !.outputs = [n \in outs |-> env.syms[n].val]]
  /\ IF options.fraig /\ golden.nodes # <<>>
     THEN GoTo("simulate") /\ UNCHANGED opt
     ELSE GoTo("map") /\ opt' = golden'
  /\ UNCHANGED <<program, options, lowering, reducing, placing, verified>>

-----------------------------------------------------------------------------
(* Reduction: FraigOptimizer::optimize.                                    *)

\* The pseudo-random words of the sources are a set of valuations, the bit
\* that decides which of a word and its complement is smaller is "top".
Simulate ==
  /\ phase = "simulate"
  /\ \E V \in Samples(Sources(golden)) : \E t \in V :
       draw' = [vectors |-> V, top |-> t,
                ones |-> [n \in NodeIds(golden) |->
                            {v \in V : NodeValues(golden, v)[n]}]]
  /\ GoTo("classify")
  /\ UNCHANGED <<program, options, lowering, golden, opt, leaders, repl, mapping,
                 placing, verified>>

IsInverted(n) == draw.top \in draw.ones[n]
Signature(n) == IF IsInverted(n) THEN draw.vectors \ draw.ones[n] ELSE draw.ones[n]

\* Mutant: candidates are merged on their signature.
TakenAsEqual(n, leader, inverted) == TRUE

\* prove_equivalence: the miter of the two cones has no model.
ProvedEqual(n, leader, inverted) ==
  \A v \in [Sources(golden) -> BOOLEAN] :
     LET vals == NodeValues(golden, v)
     IN  vals[n] = (vals[leader] # inverted)

\* A node proved equal to the leader of its signature is replaced; any other
\* becomes the leader.
Classify ==
  /\ phase = "classify" /\ pos <= Len(golden.nodes)
  /\ LET s == Signature(pos)
     IN  IF s \in DOMAIN leaders /\ ProvedEqual(pos, leaders[s], IsInverted(pos))
         THEN /\ repl' = Put(repl, pos, Edge(leaders[s], IsInverted(pos)))
              /\ UNCHANGED leaders
         ELSE leaders' = Put(leaders, s, pos) /\ UNCHANGED repl
  /\ Stay
  /\ UNCHANGED <<program, options, lowering, golden, opt, draw, mapping, placing,
                 verified>>

Resolve(m, e) ==
  IF e.node = 0 THEN e ELSE Edge(m[e.node].node, m[e.node].inv # e.inv)

\* All inputs are copied, then all registers: the ids change where registers
\* or gates came between.
CopySources ==
  /\ phase = "classify" /\ pos > Len(golden.nodes)
  /\ LET ins == golden.inputs
         regs == golden.registers
         copied == [i \in DOMAIN ins |-> [ins[i] EXCEPT !.node = i]]
         kept == [i \in DOMAIN regs |->
                    [name |-> regs[i].name, q |-> Len(ins) + i, d |-> ZERO]]
     IN  /\ opt' = [EmptyGraph EXCEPT
                      !.nodes = [i \in 1 .. Len(ins) + Len(regs) |-> <<>>],
                      !.inputs = copied, !.registers = kept]
         /\ mapping' = [n \in NodeIds(golden) |->
              IF \E i \in DOMAIN ins : ins[i].node = n
              THEN Edge(CHOOSE i \in DOMAIN ins : ins[i].node = n, FALSE)
              ELSE IF \E i \in DOMAIN regs : regs[i].q = n
              THEN Edge(Len(ins) + CHOOSE i \in DOMAIN regs : regs[i].q = n, FALSE)
              ELSE ZERO]
  /\ GoTo("rebuild")
  /\ UNCHANGED <<program, options, lowering, golden, draw, leaders, repl, placing,
                 verified>>

RebuildNode ==
  /\ phase = "rebuild" /\ pos <= Len(golden.nodes)
  /\ IF ~IsAnd(golden, pos) THEN UNCHANGED <<opt, mapping>>
     ELSE IF pos \in DOMAIN repl
     THEN /\ mapping' = [mapping EXCEPT ![pos] = Resolve(mapping, repl[pos])]
          /\ UNCHANGED opt
     ELSE LET p == golden.nodes[pos]
              r == AddAnd(opt, Resolve(mapping, p[1]), Resolve(mapping, p[2]))
          IN  opt' = r.g /\ mapping' = [mapping EXCEPT ![pos] = r.e]
  /\ Stay
  /\ UNCHANGED <<program, options, lowering, golden, draw, leaders, repl, placing,
                 verified>>

RemapRoots ==
  /\ phase = "rebuild" /\ pos > Len(golden.nodes)
  /\ opt' = [opt EXCEPT
       !.registers = [i \in DOMAIN @ |->
                        [@[i] EXCEPT !.d = Resolve(mapping, golden.registers[i].d)]],
       !.outputs = [n \in DOMAIN golden.outputs |-> Resolve(mapping, golden.outputs[n])]]
  /\ GoTo("map")
  /\ UNCHANGED <<program, options, lowering, golden, reducing, placing, verified>>

-----------------------------------------------------------------------------
(* Mapping: PriorityCutMapper::map_to_liberty over the default catalog.    *)

\* The inputs of a node's best cut: of its cell, or the source itself.
CutOf(n) ==
  IF \E i \in DOMAIN netlist : netlist[i].out = n
  THEN netlist[CHOOSE i \in DOMAIN netlist : netlist[i].out = n].inputs
  ELSE <<n>>

\* The catalog is keyed by 64-bit tables and a cut of k inputs is looked up by
\* its 2^k-bit one, so that only the table given to merged cuts matches, at 6
\* inputs; a direct cut that matches nothing becomes a NAND2.
Candidates(n) ==
  LET ins == [i \in 1 .. 2 |-> opt.nodes[n][i].node]
      c1 == CutOf(ins[1])
      merged == c1 \o SelectSeq(CutOf(ins[2]), LAMBDA m : \A i \in DOMAIN c1 : c1[i] # m)
  IN  {[cell |-> "nand2", inputs |-> ins, delay |-> 25]} \cup
      {[cell |-> "aoi21", inputs |-> m, delay |-> 40] :
         m \in {c \in {merged} : Len(c) = 6}}

\* The fastest candidate wins, whatever the inversions on the fanins.
Instance(n) ==
  LET best == CHOOSE c \in Candidates(n) : \A d \in Candidates(n) : c.delay <= d.delay
  IN  [cell |-> best.cell, inputs |-> best.inputs, out |-> n]

MapNode ==
  /\ phase = "map" /\ pos <= Len(opt.nodes)
  /\ netlist' = IF IsAnd(opt, pos) THEN Append(netlist, Instance(pos)) ELSE netlist
  /\ Stay
  /\ UNCHANGED <<program, options, lowering, golden, opt, reducing, placed, legal,
                 verified>>

MapRegisters ==
  /\ phase = "map" /\ pos > Len(opt.nodes)
  /\ netlist' = netlist \o
       [i \in DOMAIN opt.registers |->
          [cell |-> "dff", inputs |-> <<opt.registers[i].d.node>>,
           out |-> opt.registers[i].q]]
  /\ GoTo("place")
  /\ UNCHANGED <<program, options, lowering, golden, opt, reducing, placed, legal,
                 verified>>

-----------------------------------------------------------------------------
(* Placement and legalization.                                             *)

\* The instances placed so far that drive a node, and the places of an
\* instance's inputs that have one.
Drivers(n) == {j \in DOMAIN placed : netlist[j].out = n}
PlacedInputs(inst) ==
  [k \in {i \in DOMAIN inst.inputs : Drivers(inst.inputs[i]) # {}} |->
     placed[CHOOSE j \in Drivers(inst.inputs[k]) : TRUE]]

PlaceCell ==
  /\ phase = "place" /\ pos <= Len(netlist)
  /\ Fits(netlist[pos].cell, options.region)
  /\ LET inst == netlist[pos]
         t == Target(GridPoint(pos, Len(netlist), options.region),
                     Len(inst.inputs), PlacedInputs(inst))
         p == ClampedTo(inst.cell, options.region, t)
     IN  placed' = Append(placed, [cell |-> inst.cell, x |-> p.x, y |-> p.y])
  /\ Stay
  /\ UNCHANGED <<program, options, lowering, golden, opt, reducing, netlist, legal,
                 verified>>

\* A region narrower or lower than the cell: clamp panics.
PlacePanics ==
  /\ phase = "place" /\ pos <= Len(netlist)
  /\ ~Fits(netlist[pos].cell, options.region)
  /\ GoTo("panicked")
  /\ UNCHANGED <<program, options, lowering, golden, opt, reducing, placing, verified>>

Legalize ==
  /\ phase = "place" /\ pos > Len(netlist)
  /\ legal' = LegalizeToRows(placed, options.region)
  /\ GoTo("verify")
  /\ UNCHANGED <<program, options, lowering, golden, opt, reducing, netlist, placed,
                 verified>>

-----------------------------------------------------------------------------
(* Verification: CombinationalEquivalenceChecker::verify_miter.            *)

\* Mutant: inputs are bound by position and registers are not bound.
SharedInputs(g, s) ==
  {<<g.inputs[i].node, s.inputs[i].node>> : i \in (DOMAIN g.inputs) \cap (DOMAIN s.inputs)}

\* The nodes of the checked graph bound to a variable of the golden one: the
\* first input of a name to the last of that name, a register to its namesake.
SharedNodes(g, s) ==
  {p \in Sources(g) \X Sources(s) :
     \/ \E i \in DOMAIN g.inputs, j \in DOMAIN s.inputs :
          /\ g.inputs[i].node = p[1] /\ s.inputs[j].node = p[2]
          /\ g.inputs[i].name = s.inputs[j].name
          /\ \A k \in DOMAIN g.inputs : g.inputs[k].name = g.inputs[i].name => k <= i
          /\ \A k \in DOMAIN s.inputs : s.inputs[k].name = s.inputs[j].name => j <= k
     \/ \E i \in DOMAIN g.registers, j \in DOMAIN s.registers :
          /\ g.registers[i].q = p[1] /\ s.registers[j].q = p[2]
          /\ g.registers[i].name = s.registers[j].name}

\* The edges compared: outputs and next states of one name.
ComparedRoots(g, s) ==
  {<<g.outputs[n], s.outputs[n]>> : n \in (DOMAIN g.outputs) \cap (DOMAIN s.outputs)} \cup
  {<<g.registers[p[1]].d, s.registers[p[2]].d>> :
     p \in {q \in (DOMAIN g.registers) \X (DOMAIN s.registers) :
              g.registers[q[1]].name = s.registers[q[2]].name}}

\* The miter has a model: two valuations that agree on the shared nodes under
\* which a pair of roots differs.  A constant has no variable, and its literal
\* 0 satisfies every clause of the exclusive or it is in.
MismatchFound(g, s) ==
  \E gv \in [Sources(g) -> BOOLEAN], sv \in [Sources(s) -> BOOLEAN] :
    /\ \A p \in SharedNodes(g, s) : gv[p[1]] = sv[p[2]]
    /\ LET gs == NodeValues(g, gv)
           ss == NodeValues(s, sv)
       IN  \E r \in ComparedRoots(g, s) :
             \/ 0 \in {r[1].node, r[2].node}
             \/ EdgeValue(gs, r[1]) # EdgeValue(ss, r[2])

\* A mismatch is an error and the result is lost.
Verify ==
  /\ phase = "verify"
  /\ verified' = IF ~options.cec THEN "no"
                 ELSE IF MismatchFound(golden, opt) THEN "mismatch" ELSE "yes"
  /\ GoTo("done")
  /\ UNCHANGED <<program, options, lowering, golden, opt, reducing, placing>>

Stopped ==
  /\ phase \in {"done", "panicked"}
  /\ UNCHANGED vars

Lower == DeclareRegister \/ EndRegisters \/ LowerVariable \/ LowerLiteral
         \/ LowerOther \/ LowerNot \/ LowerSign \/ LowerBinary \/ Assign \/ BeginIf \/ Else \/ EndIf \/ Finalize
Reduce == Simulate \/ Classify \/ CopySources \/ RebuildNode \/ RemapRoots
Place == MapNode \/ MapRegisters \/ PlaceCell \/ PlacePanics \/ Legalize

Next == Lower \/ Reduce \/ Place \/ Verify \/ Stopped

Spec == Init /\ [][Next]_vars

-----------------------------------------------------------------------------
(* What the stages promise.                                                *)

\* The roots, the edges on the stack and those of the mapping are edges of their
\* graphs.
TypeOK ==
  /\ program \in Programs /\ options \in Options
  /\ phase \in {"registers", "lower", "simulate", "classify", "rebuild", "map",
                "place", "verify", "done", "panicked"}
  /\ \A g \in {golden, opt} :
       /\ \A r \in Range(g.registers) : r.d \in EdgesOf(g)
       /\ \A n \in DOMAIN g.outputs : g.outputs[n] \in EdgesOf(g)
  /\ \A i \in DOMAIN edges : edges[i] \in EdgesOf(golden)
  /\ \A n \in DOMAIN mapping : mapping[n] \in EdgesOf(opt)
  /\ verified \in {"no", "yes", "mismatch"}

\* Both graphs stay in the form the walks over them rely on: fanins before their
\* node, no gate that folds, no two gates alike (arena.rs, add_and); and every
\* edge held outside them is an edge of theirs.
ArenasOK == TypeOK /\ ArenaOK(golden) /\ ArenaOK(opt)

Reduced == phase \in {"map", "place", "verify", "done", "panicked"}

\* A graph's valuation of its sources by the names they stand for.
ByName(g, named) ==
  [n \in Sources(g) |->
     IF \E i \in DOMAIN g.inputs : g.inputs[i].node = n
     THEN named[g.inputs[CHOOSE i \in DOMAIN g.inputs : g.inputs[i].node = n].name]
     ELSE named[g.registers[CHOOSE i \in DOMAIN g.registers : g.registers[i].q = n].name]]

\* The names of the lowered graph's sources, and their valuations.
SourceNames ==
  {golden.inputs[i].name : i \in DOMAIN golden.inputs} \cup
  {golden.registers[i].name : i \in DOMAIN golden.registers}
Valuations == [SourceNames -> BOOLEAN]

\* The values of a graph's outputs and of its registers' inputs, by name.
Results(g, named) ==
  LET vals == NodeValues(g, ByName(g, named))
  IN  [out |-> [n \in DOMAIN g.outputs |-> EdgeValue(vals, g.outputs[n])],
       next |-> [i \in DOMAIN g.registers |-> EdgeValue(vals, g.registers[i].d)]]

\* The reduced graph computes what the lowered one does, whatever the samples
\* that made the candidates were (fraig.rs, optimize).
ReductionKeepsFunctions ==
  Reduced => \A named \in Valuations :
               Results(opt, named) = Results(golden, named)

SameFunctions(g, s) ==
  \A named \in Valuations : Results(g, named) = Results(s, named)

\* The reduced graph with one output or next state taken from another edge.
Altered ==
  {[opt EXCEPT !.outputs[n] = e] : n \in DOMAIN opt.outputs, e \in EdgesOf(opt)} \cup
  {[opt EXCEPT !.registers[i].d = e] : i \in DOMAIN opt.registers, e \in EdgesOf(opt)}

\* A root of any wrong reduction passes only if its functions are those of the
\* lowered graph.
CheckerSound ==
  phase = "verify" =>
    \A s \in Altered : ~MismatchFound(golden, s) => SameFunctions(golden, s)

\* The checker objects to nothing but a difference, where no root is a constant
\* and no input was declared in both branches of an "if".
CheckerExact ==
  phase = "verify" =>
    \A s \in Altered :
      /\ \A r \in ComparedRoots(golden, s) : 0 \notin {r[1].node, r[2].node}
      /\ \A i, j \in DOMAIN golden.inputs :
           golden.inputs[i].name = golden.inputs[j].name => i = j
      => (MismatchFound(golden, s) <=> ~SameFunctions(golden, s))

\* Whatever a wrong reduction may have connected a root to, the checker tells
\* whether the functions are still those of the lowered graph (cec.rs, verify_miter).
CheckerRight == CheckerSound /\ CheckerExact

\* Every mapped cell is on a row and a site, the way up that the row's rails have,
\* and no two overlap (row_legalizer.rs: "zero overlapping", "power rail abutment").
PlacementLegal ==
  phase \in {"verify", "done"} =>
    /\ DOMAIN legal = DOMAIN netlist
    /\ \A i \in DOMAIN legal :
         /\ legal[i].cell = netlist[i].cell
         /\ legal[i].x % SiteWidth = 0 /\ legal[i].y % RowHeight = 0
         /\ legal[i].flipped = ((legal[i].y \div RowHeight) % 2 # 0)
    /\ \A i, j \in DOMAIN legal :
         i # j /\ legal[i].y = legal[j].y =>
           \/ legal[i].x + CellWidth[legal[i].cell] <= legal[j].x
           \/ legal[j].x + CellWidth[legal[j].cell] <= legal[i].x
=============================================================================
