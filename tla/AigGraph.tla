------------------------------ MODULE AigGraph ------------------------------
(***************************************************************************)
(* The and-inverter graph of hwc-synthesis (aig/arena.rs): the arena, its  *)
(* structural hashing and the gates built from AND and inversion.          *)
(*                                                                         *)
(* An edge is a node and an inversion; node 0 is the constant false and is *)
(* not stored, so that a node's id is its position in "nodes".  A source   *)
(* (an input, or the output of a register) has no fanins, an AND has two.  *)
(***************************************************************************)
EXTENDS Integers, Sequences

\* Edge::new, Edge::not and the two constants.
Edge(n, i) == [node |-> n, inv |-> i]
Not(e) == Edge(e.node, ~e.inv)
ZERO == Edge(0, FALSE)
ONE == Edge(0, TRUE)

\* The order of the packed 32-bit words, in which the inversion is bit 0.
Before(e, f) ==
  \/ e.node < f.node
  \/ e.node = f.node /\ ~e.inv /\ f.inv

\* PackedAigGraph::with_capacity.  Hash is the structural hash table, a
\* function from the pairs of fanins it has seen to nodes.
EmptyGraph ==
  [nodes |-> <<>>, inputs |-> <<>>, registers |-> <<>>,
   outputs |-> [n \in {} |-> ZERO], hash |-> [p \in {} |-> 0]]

NodeIds(g) == 0 .. Len(g.nodes)
IsAnd(g, n) == n > 0 /\ g.nodes[n] # <<>>
Sources(g) == {n \in 1 .. Len(g.nodes) : ~IsAnd(g, n)}

AddInput(g, name) ==
  LET n == Len(g.nodes) + 1
  IN  [g |-> [g EXCEPT !.nodes = Append(@, <<>>),
                       !.inputs = Append(@, [name |-> name, node |-> n])],
       e |-> Edge(n, FALSE)]

AddDff(g, name, d) ==
  LET n == Len(g.nodes) + 1
  IN  [g |-> [g EXCEPT !.nodes = Append(@, <<>>),
                       !.registers = Append(@, [name |-> name, q |-> n, d |-> d])],
       e |-> Edge(n, FALSE)]

\* A new AND of two ordered edges that the table does not hold.
NewAnd(g, p) ==
  LET n == Len(g.nodes) + 1
  IN  [g |-> [g EXCEPT !.nodes = Append(@, p),
                       !.hash = [q \in DOMAIN @ \cup {p} |->
                                   IF q = p THEN n ELSE @[q]]],
       e |-> Edge(n, FALSE)]

\* Mutant: the table is never looked up.
UnhashedAnd(g, p) == NewAnd(g, p)

\* An AND that no rule folds: the one the table has, or a new one.
HashedAnd(g, p) ==
  IF p \in DOMAIN g.hash
  THEN [g |-> g, e |-> Edge(g.hash[p], FALSE)]
  ELSE NewAnd(g, p)

\* A result that needs no new node.
Same(g, e) == [g |-> g, e |-> e]

\* Constants fold, x & x is x, x & ~x is false; the rest is ordered and hashed.
AddAnd(g, e0, e1) ==
  IF ZERO \in {e0, e1} \/ e0 = Not(e1) THEN Same(g, ZERO)
  ELSE IF e0 = ONE THEN Same(g, e1)
  ELSE IF e1 = ONE \/ e0 = e1 THEN Same(g, e0)
  ELSE HashedAnd(g, IF Before(e1, e0) THEN <<e1, e0>> ELSE <<e0, e1>>)

\* The edge of a result, inverted.
Inverted(r) == [r EXCEPT !.e = Not(@)]

AddOr(g, e0, e1) == Inverted(AddAnd(g, Not(e0), Not(e1)))

\* An exclusive or with a constant is the other edge, or its inverse.
AddXor(g, e0, e1) ==
  IF e0 = e1 THEN Same(g, ZERO)
  ELSE IF e0 = Not(e1) THEN Same(g, ONE)
  ELSE IF e0.node = 0 THEN Same(g, Edge(e1.node, e1.inv # e0.inv))
  ELSE IF e1.node = 0 THEN Same(g, Edge(e0.node, e0.inv # e1.inv))
  ELSE LET a == AddAnd(g, e0, Not(e1))
           b == AddAnd(a.g, Not(e0), e1)
       IN  AddOr(b.g, a.e, b.e)

\* Mutant: the condition is not inverted for the "else" edge.
AddMuxOneArm(g, c, t, e) ==
  IF c.node = 0 THEN Same(g, IF c.inv THEN t ELSE e)
  ELSE IF t = e THEN Same(g, t)
  ELSE LET a == AddAnd(g, c, t)
           b == AddAnd(a.g, c, e)
       IN  AddOr(b.g, a.e, b.e)

AddMux(g, c, t, e) ==
  IF c.node = 0 THEN Same(g, IF c.inv THEN t ELSE e)
  ELSE IF t = e THEN Same(g, t)
  ELSE LET a == AddAnd(g, c, t)
           b == AddAnd(a.g, Not(c), e)
       IN  AddOr(b.g, a.e, b.e)

SetOutput(g, name, e) ==
  [g EXCEPT !.outputs = [n \in DOMAIN @ \cup {name} |->
                           IF n = name THEN e ELSE @[n]]]

-----------------------------------------------------------------------------
(* What the graph means: the value of every node under a valuation of its  *)
(* sources.                                                                *)

EdgeValue(vals, e) == vals[e.node] # e.inv

NodeValues(g, sv) ==
  LET val[n \in NodeIds(g)] ==
        IF n = 0 THEN FALSE
        ELSE IF IsAnd(g, n)
             THEN /\ val[g.nodes[n][1].node] # g.nodes[n][1].inv
                  /\ val[g.nodes[n][2].node] # g.nodes[n][2].inv
             ELSE sv[n]
  IN  val

-----------------------------------------------------------------------------
(* What the arena promises.                                                *)

EdgesOf(g) == [node : NodeIds(g), inv : BOOLEAN]

\* Fanins are made before the node that uses them: the order of the arena is
\* a topological one, which the simulation, the rebuilding and the mapping
\* walk without looking.
Acyclic(g) ==
  \A n \in 1 .. Len(g.nodes) :
     IsAnd(g, n) => g.nodes[n][1].node < n /\ g.nodes[n][2].node < n

\* No AND that a rule would fold away is stored, in particular none whose
\* packed word is 0, which would make it a source.
Folded(g) ==
  \A n \in 1 .. Len(g.nodes) :
     IsAnd(g, n) => /\ 0 < g.nodes[n][1].node
                    /\ g.nodes[n][1].node < g.nodes[n][2].node

\* The table and the arena agree: so no two nodes have the same fanins.
HashAgrees(g) ==
  /\ \A p \in DOMAIN g.hash :
        g.hash[p] \in 1 .. Len(g.nodes) /\ g.nodes[g.hash[p]] = p
  /\ \A n \in 1 .. Len(g.nodes) :
        IsAnd(g, n) => g.nodes[n] \in DOMAIN g.hash /\ g.hash[g.nodes[n]] = n

ArenaOK(g) == Acyclic(g) /\ Folded(g) /\ HashAgrees(g)
=============================================================================
