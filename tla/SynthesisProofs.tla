--------------------------- MODULE SynthesisProofs ---------------------------
(***************************************************************************)
(* What is proved of the synthesis, for any logic blocks, samples and      *)
(* options: the arenas keep their form, the gates compute what they are    *)
(* named for, the reduction keeps every function, the checker is right     *)
(* about any alteration of a root, and the cells are placed legally.       *)
(***************************************************************************)
EXTENDS Synthesis, FiniteSetTheorems, SequenceTheorems, WellFoundedInduction, TLAPS

-----------------------------------------------------------------------------
(* Induction over positions, by the least one that fails.                  *)

LEMMA LeastIndex ==
  ASSUME NEW S \in SUBSET Nat, S # {}
  PROVE  \E x \in S : \A y \in S : x <= y
<1>1. PICK x \in S : \A y \in S : ~ (<<y, x>> \in OpToRel(<, Nat))
  BY NatLessThanWellFounded, WFMin
<1>2. ASSUME NEW y \in S, y < x
      PROVE  <<y, x>> \in OpToRel(<, Nat)
  BY <1>2, Zenon DEF OpToRel
<1>3. \A y \in S : ~ (y < x)
  BY <1>1, <1>2
<1> QED  BY <1>3

(* What holds of a position when it holds of all before it, holds of all.  *)
LEMMA Climb ==
  ASSUME NEW N \in Nat, NEW S,
         \A n \in 0 .. N : (\A m \in 0 .. n - 1 : m \in S) => n \in S
  PROVE  \A n \in 0 .. N : n \in S
<1> DEFINE T == {n \in Nat : n <= N /\ n \notin S}
<1>1. CASE T = {}
  BY <1>1
<1>2. CASE T # {}
  <2>1. T \in SUBSET Nat
    OBVIOUS
  <2>2. PICK x \in T : \A y \in T : x <= y
    <3> HIDE DEF T
    <3> QED  BY <1>2, <2>1, LeastIndex
  <2> QED  BY <2>2
<1> QED  BY <1>1, <1>2

-----------------------------------------------------------------------------
(* Graphs.                                                                 *)

EdgeSet == [node : Nat, inv : BOOLEAN]
NodeSet == {<<>>} \cup (EdgeSet \X EdgeSet)

GraphTyped(g) ==
  /\ g = [nodes |-> g.nodes, inputs |-> g.inputs, registers |-> g.registers,
          outputs |-> g.outputs, hash |-> g.hash]
  /\ g.nodes \in Seq(NodeSet)
  /\ g.inputs \in Seq([name : STRING, node : Nat])
  /\ g.registers \in Seq([name : STRING, q : Nat, d : EdgeSet])

(* Every source is one input or one register.                              *)
SourcesOK(g) ==
  /\ \A i \in DOMAIN g.inputs : g.inputs[i].node \in Sources(g)
  /\ \A i \in DOMAIN g.registers : g.registers[i].q \in Sources(g)
  /\ \A i, j \in DOMAIN g.inputs : g.inputs[i].node = g.inputs[j].node => i = j
  /\ \A i, j \in DOMAIN g.registers : g.registers[i].q = g.registers[j].q => i = j
  /\ \A i \in DOMAIN g.inputs, j \in DOMAIN g.registers :
        g.inputs[i].node # g.registers[j].q
  /\ \A n \in Sources(g) :
        \/ \E i \in DOMAIN g.inputs : g.inputs[i].node = n
        \/ \E i \in DOMAIN g.registers : g.registers[i].q = n

(* Roots are edges of the graph.                                           *)
RootsOK(g) ==
  /\ \A i \in DOMAIN g.registers : g.registers[i].d \in EdgesOf(g)
  /\ \A n \in DOMAIN g.outputs : g.outputs[n] \in EdgesOf(g)

GraphOK(g) == GraphTyped(g) /\ ArenaOK(g) /\ SourcesOK(g) /\ RootsOK(g)

(* h is g with more ANDs.                                                  *)
Extends(h, g) ==
  /\ Len(g.nodes) <= Len(h.nodes)
  /\ \A n \in 1 .. Len(g.nodes) : h.nodes[n] = g.nodes[n]
  /\ \A n \in Len(g.nodes) + 1 .. Len(h.nodes) : IsAnd(h, n)
  /\ h.inputs = g.inputs /\ h.registers = g.registers /\ h.outputs = g.outputs

LEMMA EmptyGraphOK == GraphOK(EmptyGraph)
  BY DEF EmptyGraph, GraphOK, GraphTyped, ArenaOK, Acyclic, Folded, HashAgrees, SourcesOK,
         RootsOK, Sources, IsAnd

LEMMA LenNodes == ASSUME NEW g, GraphTyped(g) PROVE Len(g.nodes) \in Nat
  BY DEF GraphTyped

LEMMA NodeShape ==
  ASSUME NEW g, GraphTyped(g), NEW n \in 1 .. Len(g.nodes), IsAnd(g, n)
  PROVE  /\ g.nodes[n] \in EdgeSet \X EdgeSet
         /\ g.nodes[n][1] \in EdgeSet /\ g.nodes[n][2] \in EdgeSet
         /\ g.nodes[n] = <<g.nodes[n][1], g.nodes[n][2]>>
<1>1. g.nodes[n] \in NodeSet /\ g.nodes[n] # <<>>
  BY DEF GraphTyped, IsAnd
<1>2. g.nodes[n] \in EdgeSet \X EdgeSet
  BY <1>1 DEF NodeSet
<1> QED  BY <1>2

LEMMA ExtendsItself == ASSUME NEW g, GraphTyped(g) PROVE Extends(g, g)
  BY LenNodes DEF Extends

LEMMA ExtendsMore ==
  ASSUME NEW f, NEW g, NEW h, GraphTyped(f), GraphTyped(g), GraphTyped(h),
         Extends(g, f), Extends(h, g)
  PROVE  Extends(h, f)
<1>1. Len(f.nodes) \in Nat /\ Len(g.nodes) \in Nat /\ Len(h.nodes) \in Nat
  BY LenNodes
<1>2. \A n \in Len(f.nodes) + 1 .. Len(h.nodes) : IsAnd(h, n)
  BY <1>1 DEF Extends, IsAnd
<1> QED  BY <1>1, <1>2 DEF Extends

LEMMA ExtendsEdges ==
  ASSUME NEW g, NEW h, GraphTyped(g), GraphTyped(h), Extends(h, g)
  PROVE  EdgesOf(g) \subseteq EdgesOf(h) /\ Sources(h) = Sources(g)
<1>1. Len(g.nodes) \in Nat /\ Len(h.nodes) \in Nat
  BY LenNodes
<1>2. EdgesOf(g) \subseteq EdgesOf(h)
  BY <1>1 DEF EdgesOf, NodeIds, Extends
<1>3. Sources(h) = Sources(g)
  BY <1>1 DEF Sources, IsAnd, Extends
<1> QED  BY <1>2, <1>3

-----------------------------------------------------------------------------
(* ANDs.                                                                   *)

LEMMA NewAndOK ==
  ASSUME NEW g, GraphOK(g), NEW p \in EdgesOf(g) \X EdgesOf(g), p \notin DOMAIN g.hash,
         0 < p[1].node, p[1].node < p[2].node
  PROVE  LET r == NewAnd(g, p)
         IN  GraphOK(r.g) /\ Extends(r.g, g) /\ r.e \in EdgesOf(r.g)
             /\ r.e = Edge(Len(g.nodes) + 1, FALSE)
             /\ r.g.nodes = Append(g.nodes, p)
<1> DEFINE r == NewAnd(g, p)
           n == Len(g.nodes) + 1
           h == r.g
<1>1. Len(g.nodes) \in Nat /\ g.nodes \in Seq(NodeSet)
  BY DEF GraphOK, GraphTyped
<1>2. p \in EdgeSet \X EdgeSet /\ p # <<>>
  <2>1. EdgesOf(g) \subseteq EdgeSet
    BY <1>1 DEF EdgesOf, EdgeSet, NodeIds
  <2> QED  BY <2>1
<1>3. /\ h.nodes = Append(g.nodes, p)
      /\ h.inputs = g.inputs /\ h.registers = g.registers /\ h.outputs = g.outputs
      /\ h.hash = [q \in DOMAIN g.hash \cup {p} |-> IF q = p THEN n ELSE g.hash[q]]
      /\ h = [nodes |-> h.nodes, inputs |-> h.inputs, registers |-> h.registers,
              outputs |-> h.outputs, hash |-> h.hash]
      /\ r.e = Edge(n, FALSE)
  BY DEF NewAnd, GraphOK, GraphTyped
<1> HIDE DEF r
<1>4. p \in NodeSet /\ h.nodes \in Seq(NodeSet) /\ Len(h.nodes) = n
  BY <1>1, <1>2, <1>3 DEF NodeSet
<1>5. \A k \in 1 .. Len(g.nodes) : h.nodes[k] = g.nodes[k]
  BY <1>1, <1>3
<1>6. h.nodes[n] = p
  BY <1>1, <1>3
<1>7. GraphTyped(h)
  BY <1>3, <1>4 DEF GraphTyped, GraphOK
<1>8. Extends(h, g)
  BY <1>1, <1>2, <1>3, <1>4, <1>5, <1>6 DEF Extends, IsAnd
<1>9. EdgesOf(g) \subseteq EdgesOf(h) /\ Sources(h) = Sources(g)
  BY <1>7, <1>8, ExtendsEdges DEF GraphOK
<1>10. p[1].node < n /\ p[2].node < n
  BY <1>1 DEF EdgesOf, NodeIds
<1>11. Acyclic(h) /\ Folded(h)
  <2>1. ASSUME NEW k \in 1 .. Len(h.nodes), IsAnd(h, k)
        PROVE  /\ h.nodes[k][1].node < k /\ h.nodes[k][2].node < k
               /\ 0 < h.nodes[k][1].node /\ h.nodes[k][1].node < h.nodes[k][2].node
    <3>1. CASE k = n
      BY <3>1, <1>6, <1>10
    <3>2. CASE k # n
      <4>1. k \in 1 .. Len(g.nodes)
        BY <3>2, <1>1, <1>4
      <4>2. IsAnd(g, k) /\ h.nodes[k] = g.nodes[k]
        BY <4>1, <2>1, <1>5 DEF IsAnd
      <4> QED  BY <4>1, <4>2 DEF Acyclic, Folded, GraphOK, ArenaOK
    <3> QED  BY <3>1, <3>2
  <2> QED  BY <2>1 DEF Acyclic, Folded
<1>12. HashAgrees(h)
  <2>1. \A q \in DOMAIN h.hash : h.hash[q] \in 1 .. Len(h.nodes) /\ h.nodes[h.hash[q]] = q
    BY <1>1, <1>3, <1>4, <1>5, <1>6 DEF GraphOK, ArenaOK, HashAgrees
  <2>2. \A k \in 1 .. Len(h.nodes) :
           IsAnd(h, k) => h.nodes[k] \in DOMAIN h.hash /\ h.hash[h.nodes[k]] = k
    BY <1>1, <1>3, <1>4, <1>5, <1>6 DEF GraphOK, ArenaOK, HashAgrees, IsAnd
  <2> QED  BY <2>1, <2>2 DEF HashAgrees
<1>13. SourcesOK(h) /\ RootsOK(h)
  BY <1>3, <1>9 DEF SourcesOK, RootsOK, GraphOK
<1>14. r.e \in EdgesOf(h)
  BY <1>1, <1>3, <1>4 DEF Edge, EdgesOf, NodeIds
<1> QED  BY <1>3, <1>7, <1>8, <1>11, <1>12, <1>13, <1>14 DEF GraphOK, ArenaOK, r

(* What every gate does to the graph it is added to.                       *)
Adds(r, g) == GraphOK(r.g) /\ Extends(r.g, g) /\ r.e \in EdgesOf(r.g)

LEMMA SameAdds ==
  ASSUME NEW g, GraphOK(g), NEW e \in EdgesOf(g)
  PROVE  Adds(Same(g, e), g)
  BY ExtendsItself DEF Adds, Same, GraphOK

LEMMA HashedAndOK ==
  ASSUME NEW g, GraphOK(g), NEW p \in EdgesOf(g) \X EdgesOf(g),
         0 < p[1].node, p[1].node < p[2].node
  PROVE  LET r == HashedAnd(g, p)
         IN  /\ Adds(r, g)
             /\ r.e.node \in 1 .. Len(r.g.nodes) /\ r.e = Edge(r.e.node, FALSE)
             /\ r.g.nodes[r.e.node] = p /\ IsAnd(r.g, r.e.node)
<1> DEFINE r == HashedAnd(g, p)
<1>0. Len(g.nodes) \in Nat /\ p # <<>>
  <2>1. p # <<>>
    OBVIOUS
  <2> QED  BY <2>1, LenNodes DEF GraphOK
<1>1. CASE p \in DOMAIN g.hash
  <2> DEFINE n == g.hash[p]
  <2>1. n \in 1 .. Len(g.nodes) /\ g.nodes[n] = p
    BY <1>1 DEF GraphOK, ArenaOK, HashAgrees
  <2>2. r.g = g /\ r.e = Edge(n, FALSE) /\ r = Same(g, Edge(n, FALSE))
    BY <1>1 DEF HashedAnd, Same
  <2>3. Edge(n, FALSE) \in EdgesOf(g) /\ Edge(n, FALSE).node = n
    BY <1>0, <2>1 DEF Edge, EdgesOf, NodeIds
  <2>4. Adds(r, g)
    BY <2>2, <2>3, SameAdds
  <2> HIDE DEF r, n
  <2> QED  BY <1>0, <2>1, <2>2, <2>3, <2>4 DEF IsAnd, Edge, r
<1>2. CASE p \notin DOMAIN g.hash
  <2> DEFINE n == Len(g.nodes) + 1
  <2>1. r = NewAnd(g, p)
    BY <1>2 DEF HashedAnd
  <2>2. Adds(r, g) /\ r.e = Edge(n, FALSE) /\ r.g.nodes = Append(g.nodes, p)
    BY <1>2, <2>1, NewAndOK DEF Adds
  <2> HIDE DEF r
  <2>3. Len(r.g.nodes) = n /\ r.g.nodes[n] = p
    <3>1. r.g.nodes \in Seq(NodeSet) /\ g.nodes \in Seq(NodeSet)
      BY <2>2 DEF Adds, GraphOK, GraphTyped
    <3> QED  BY <3>1, <2>2
  <2> QED  BY <1>0, <2>2, <2>3 DEF IsAnd, Edge, r
<1> QED  BY <1>1, <1>2

LEMMA NotEdge ==
  ASSUME NEW g, NEW e \in EdgesOf(g)
  PROVE  /\ Not(e) \in EdgesOf(g) /\ Not(e).node = e.node /\ Not(e).inv = ~e.inv
         /\ e = Edge(e.node, e.inv) /\ e.inv \in BOOLEAN /\ e.node \in NodeIds(g)
  BY DEF Not, Edge, EdgesOf

LEMMA Constants == ASSUME NEW g, GraphTyped(g) PROVE ZERO \in EdgesOf(g) /\ ONE \in EdgesOf(g)
  BY LenNodes DEF ZERO, ONE, Edge, EdgesOf, NodeIds

(* The pair of fanins of an AND that no rule folds.                        *)
Ordered(e0, e1) == IF Before(e1, e0) THEN <<e1, e0>> ELSE <<e0, e1>>

LEMMA OrderedPair ==
  ASSUME NEW g, GraphTyped(g), NEW e0 \in EdgesOf(g), NEW e1 \in EdgesOf(g),
         ~(ZERO \in {e0, e1} \/ e0 = Not(e1)), e0 # ONE, e1 # ONE, e0 # e1
  PROVE  LET p == Ordered(e0, e1)
         IN  /\ p \in EdgesOf(g) \X EdgesOf(g)
             /\ 0 < p[1].node /\ p[1].node < p[2].node
             /\ p = <<e0, e1>> \/ p = <<e1, e0>>
<1>1. Len(g.nodes) \in Nat
  BY LenNodes
<1>2. /\ e0.node \in Nat /\ e1.node \in Nat /\ e0.inv \in BOOLEAN /\ e1.inv \in BOOLEAN
      /\ e0 = [node |-> e0.node, inv |-> e0.inv] /\ e1 = [node |-> e1.node, inv |-> e1.inv]
  BY <1>1 DEF EdgesOf, NodeIds
<1>3. e0.node # 0 /\ e1.node # 0
  BY <1>2 DEF ZERO, ONE, Edge
<1>4. e0.node # e1.node
  BY <1>2 DEF Not, Edge
<1>5. Before(e1, e0) <=> e1.node < e0.node
  BY <1>2, <1>4 DEF Before
<1>6. CASE Before(e1, e0)
  BY <1>2, <1>3, <1>5, <1>6 DEF Ordered
<1>7. CASE ~Before(e1, e0)
  BY <1>2, <1>3, <1>4, <1>5, <1>7 DEF Ordered
<1> QED  BY <1>6, <1>7

-----------------------------------------------------------------------------
(* The values of a graph's nodes.                                          *)

(* The value of a node, from those of the nodes before it.                 *)
ValueAt(g, sv, val, n) ==
  IF n = 0 THEN FALSE
  ELSE IF IsAnd(g, n)
       THEN /\ val[g.nodes[n][1].node] # g.nodes[n][1].inv
            /\ val[g.nodes[n][2].node] # g.nodes[n][2].inv
       ELSE sv[n]

(* The values of the nodes up to k.                                        *)
IsValues(g, sv, val, k) ==
  val \in [0 .. k -> BOOLEAN] /\ \A n \in 0 .. k : val[n] = ValueAt(g, sv, val, n)

LEMMA ValueAtTyped ==
  ASSUME NEW g, GraphOK(g), NEW sv \in [Sources(g) -> BOOLEAN], NEW val,
         NEW n \in NodeIds(g)
  PROVE  ValueAt(g, sv, val, n) \in BOOLEAN
<1>1. Len(g.nodes) \in Nat
  BY LenNodes DEF GraphOK
<1>2. n # 0 /\ ~IsAnd(g, n) => sv[n] \in BOOLEAN
  BY <1>1 DEF NodeIds, Sources
<1> QED  BY <1>2 DEF ValueAt

LEMMA ValueAtAgrees ==
  ASSUME NEW g, GraphOK(g), NEW sv, NEW val, NEW more,
         NEW n \in NodeIds(g), \A m \in 0 .. n - 1 : val[m] = more[m]
  PROVE  ValueAt(g, sv, val, n) = ValueAt(g, sv, more, n)
<1>1. Len(g.nodes) \in Nat
  BY LenNodes DEF GraphOK
<1>2. CASE n = 0
  BY <1>2 DEF ValueAt
<1>3. CASE n # 0 /\ IsAnd(g, n)
  <2>1. n \in 1 .. Len(g.nodes)
    BY <1>1, <1>3 DEF NodeIds
  <2>2. g.nodes[n][1].node \in 0 .. n - 1 /\ g.nodes[n][2].node \in 0 .. n - 1
    BY <1>3, <2>1, NodeShape DEF GraphOK, ArenaOK, Acyclic, EdgeSet
  <2>3. /\ val[g.nodes[n][1].node] = more[g.nodes[n][1].node]
        /\ val[g.nodes[n][2].node] = more[g.nodes[n][2].node]
    BY <2>2
  <2> QED  BY <1>3, <2>3 DEF ValueAt
<1>4. CASE n # 0 /\ ~IsAnd(g, n)
  BY <1>4 DEF ValueAt
<1> QED  BY <1>2, <1>3, <1>4

LEMMA ValuesExist ==
  ASSUME NEW g, GraphOK(g), NEW sv \in [Sources(g) -> BOOLEAN]
  PROVE  \E val : IsValues(g, sv, val, Len(g.nodes))
<1>0. Len(g.nodes) \in Nat
  BY LenNodes DEF GraphOK
<1> DEFINE N == Len(g.nodes)
           S == {k \in 0 .. N : \E val : IsValues(g, sv, val, k)}
<1>1. ASSUME NEW k \in 0 .. N, \A m \in 0 .. k - 1 : m \in S
      PROVE  k \in S
  <2>1. CASE k = 0
    <3> DEFINE val == [n \in 0 .. 0 |-> FALSE]
    <3>1. IsValues(g, sv, val, 0)
      BY DEF IsValues, ValueAt
    <3> QED  BY <2>1, <3>1
  <2>2. CASE k # 0
    <3>1. k - 1 \in S
      BY <2>2, <1>1, <1>0
    <3>2. PICK val : IsValues(g, sv, val, k - 1)
      BY <3>1
    <3> DEFINE more == [n \in 0 .. k |-> IF n = k THEN ValueAt(g, sv, val, k) ELSE val[n]]
    <3>3. k \in NodeIds(g)
      BY DEF NodeIds
    <3>4. ValueAt(g, sv, val, k) \in BOOLEAN
      BY <3>3, ValueAtTyped
    <3>5. more \in [0 .. k -> BOOLEAN]
      BY <3>2, <3>4, <1>0 DEF IsValues
    <3>6. \A n \in 0 .. k - 1 : more[n] = val[n] /\ n \in 0 .. k
      BY <1>0
    <3>7. ASSUME NEW n \in 0 .. k
          PROVE  more[n] = ValueAt(g, sv, more, n)
      <4>1. \A m \in 0 .. n - 1 : val[m] = more[m]
        BY <3>6, <1>0
      <4>2. ValueAt(g, sv, val, n) = ValueAt(g, sv, more, n)
        <5>1. n \in NodeIds(g)
          BY <1>0 DEF NodeIds
        <5> HIDE DEF more
        <5> QED  BY <4>1, <5>1, ValueAtAgrees
      <4>3. CASE n = k
        BY <4>2, <4>3
      <4>4. CASE n # k
        BY <4>2, <4>4, <3>2, <3>6, <1>0 DEF IsValues
      <4> QED  BY <4>3, <4>4
    <3>8. IsValues(g, sv, more, k)
      BY <3>5, <3>7 DEF IsValues
    <3> QED  BY <3>8
  <2> QED  BY <2>1, <2>2
<1> HIDE DEF S
<1>2. \A k \in 0 .. N : k \in S
  BY <1>0, <1>1, Climb
<1>3. N \in S
  BY <1>0, <1>2
<1> QED  BY <1>3 DEF S

(* The values are those the definition describes.                          *)
LEMMA NodeValuesAre ==
  ASSUME NEW g, GraphOK(g), NEW sv \in [Sources(g) -> BOOLEAN]
  PROVE  IsValues(g, sv, NodeValues(g, sv), Len(g.nodes))
<1> DEFINE W(val) == val = [n \in NodeIds(g) |-> ValueAt(g, sv, val, n)]
<1>1. PICK val : IsValues(g, sv, val, Len(g.nodes))
  BY ValuesExist
<1>2. W(val)
  BY <1>1 DEF IsValues, NodeIds
<1>3. NodeValues(g, sv) = CHOOSE v : W(v)
  BY DEF NodeValues, ValueAt
<1>4. W(NodeValues(g, sv))
  BY <1>2, <1>3
<1>5. \A n \in NodeIds(g) : ValueAt(g, sv, NodeValues(g, sv), n) \in BOOLEAN
  BY ValueAtTyped
<1> QED  BY <1>4, <1>5 DEF IsValues, NodeIds

(* New nodes leave the values of the old ones alone.                       *)
LEMMA ValuesKept ==
  ASSUME NEW g, GraphOK(g), NEW h, GraphOK(h), Extends(h, g),
         NEW sv \in [Sources(g) -> BOOLEAN]
  PROVE  \A n \in NodeIds(g) : NodeValues(h, sv)[n] = NodeValues(g, sv)[n]
<1> DEFINE N == Len(g.nodes)
           S == {n \in 0 .. N : NodeValues(h, sv)[n] = NodeValues(g, sv)[n]}
<1>0. N \in Nat /\ Len(h.nodes) \in Nat /\ N <= Len(h.nodes)
  BY LenNodes DEF GraphOK, Extends
<1>1. sv \in [Sources(h) -> BOOLEAN]
  BY ExtendsEdges DEF GraphOK
<1>2. ASSUME NEW n \in 0 .. N, \A m \in 0 .. n - 1 : m \in S
      PROVE  n \in S
  <2>1. n \in NodeIds(g) /\ n \in 0 .. Len(h.nodes)
    BY <1>0 DEF NodeIds
  <2>2. \A m \in 0 .. n - 1 : NodeValues(h, sv)[m] = NodeValues(g, sv)[m]
    BY <1>2
  <2>3. ValueAt(g, sv, NodeValues(h, sv), n) = ValueAt(g, sv, NodeValues(g, sv), n)
    BY <2>1, <2>2, ValueAtAgrees
  <2>4. n # 0 => h.nodes[n] = g.nodes[n]
    BY <1>0 DEF Extends
  <2>5. ValueAt(h, sv, NodeValues(h, sv), n) = ValueAt(g, sv, NodeValues(h, sv), n)
    BY <2>4 DEF ValueAt, IsAnd
  <2>6. NodeValues(h, sv)[n] = ValueAt(h, sv, NodeValues(h, sv), n)
    BY <1>1, <2>1, NodeValuesAre DEF IsValues
  <2>7. NodeValues(g, sv)[n] = ValueAt(g, sv, NodeValues(g, sv), n)
    BY <2>1, NodeValuesAre DEF IsValues
  <2> QED  BY <2>3, <2>5, <2>6, <2>7
<1> HIDE DEF S
<1>3. \A n \in 0 .. N : n \in S
  BY <1>0, <1>2, Climb
<1> QED  BY <1>3 DEF S, NodeIds

-----------------------------------------------------------------------------
(* The gates.                                                              *)

Val(g, sv, e) == EdgeValue(NodeValues(g, sv), e)

LEMMA ValBoolean ==
  ASSUME NEW g, GraphOK(g), NEW sv \in [Sources(g) -> BOOLEAN], NEW e \in EdgesOf(g)
  PROVE  /\ Val(g, sv, e) \in BOOLEAN /\ Val(g, sv, Not(e)) = ~Val(g, sv, e)
         /\ Val(g, sv, ZERO) = FALSE /\ Val(g, sv, ONE) = TRUE
         /\ NodeValues(g, sv)[e.node] \in BOOLEAN
<1>1. Len(g.nodes) \in Nat
  BY LenNodes DEF GraphOK
<1>2. e.node \in 0 .. Len(g.nodes) /\ e.inv \in BOOLEAN
  BY NotEdge DEF NodeIds
<1>3. NodeValues(g, sv)[e.node] \in BOOLEAN
  BY <1>1, <1>2, NodeValuesAre DEF IsValues
<1>4. Not(e).node = e.node /\ Not(e).inv = ~e.inv
  BY NotEdge
<1>5. NodeValues(g, sv)[0] = FALSE
  <2>1. 0 \in 0 .. Len(g.nodes)
    BY <1>1
  <2>2. NodeValues(g, sv)[0] = ValueAt(g, sv, NodeValues(g, sv), 0)
    BY <2>1, NodeValuesAre DEF IsValues
  <2> QED  BY <2>2 DEF ValueAt
<1>6. Val(g, sv, ZERO) = FALSE /\ Val(g, sv, ONE) = TRUE
  BY <1>5 DEF Val, EdgeValue, ZERO, ONE, Edge
<1>7. Val(g, sv, e) \in BOOLEAN
  BY DEF Val, EdgeValue
<1>8. Val(g, sv, Not(e)) = ~Val(g, sv, e)
  BY <1>2, <1>3, <1>4 DEF Val, EdgeValue
<1> QED  BY <1>3, <1>6, <1>7, <1>8

LEMMA ValKept ==
  ASSUME NEW g, GraphOK(g), NEW h, GraphOK(h), Extends(h, g),
         NEW sv \in [Sources(g) -> BOOLEAN], NEW e \in EdgesOf(g)
  PROVE  Val(h, sv, e) = Val(g, sv, e)
  BY ValuesKept, NotEdge DEF Val, EdgeValue

(* The AND of a node is that of its fanins.                                *)
LEMMA AndValue ==
  ASSUME NEW g, GraphOK(g), NEW sv \in [Sources(g) -> BOOLEAN],
         NEW n \in 1 .. Len(g.nodes), IsAnd(g, n)
  PROVE  /\ NodeValues(g, sv)[n]
              = (Val(g, sv, g.nodes[n][1]) /\ Val(g, sv, g.nodes[n][2]))
         /\ g.nodes[n][1] \in EdgesOf(g) /\ g.nodes[n][2] \in EdgesOf(g)
<1>1. Len(g.nodes) \in Nat
  BY LenNodes DEF GraphOK
<1>2. NodeValues(g, sv)[n] = ValueAt(g, sv, NodeValues(g, sv), n)
  BY <1>1, NodeValuesAre DEF IsValues
<1>3. n # 0
  BY <1>1
<1>4. /\ g.nodes[n][1] \in EdgeSet /\ g.nodes[n][2] \in EdgeSet
      /\ g.nodes[n][1].node < n /\ g.nodes[n][2].node < n
  BY NodeShape DEF GraphOK, ArenaOK, Acyclic
<1>5. g.nodes[n][1] \in EdgesOf(g) /\ g.nodes[n][2] \in EdgesOf(g)
  BY <1>1, <1>4 DEF EdgesOf, NodeIds, EdgeSet
<1>6. ValueAt(g, sv, NodeValues(g, sv), n)
        = (Val(g, sv, g.nodes[n][1]) /\ Val(g, sv, g.nodes[n][2]))
  BY <1>3 DEF ValueAt, Val, EdgeValue
<1> QED  BY <1>2, <1>5, <1>6


LEMMA AddAndOK ==
  ASSUME NEW g, GraphOK(g), NEW e0 \in EdgesOf(g), NEW e1 \in EdgesOf(g)
  PROVE  LET r == AddAnd(g, e0, e1)
         IN  /\ Adds(r, g)
             /\ \A sv \in [Sources(g) -> BOOLEAN] :
                   Val(r.g, sv, r.e) = (Val(g, sv, e0) /\ Val(g, sv, e1))
<1> DEFINE r == AddAnd(g, e0, e1)
<1>0. GraphTyped(g) /\ ZERO \in EdgesOf(g)
  BY Constants DEF GraphOK
<1>1. \A sv \in [Sources(g) -> BOOLEAN] :
         /\ Val(g, sv, e0) \in BOOLEAN /\ Val(g, sv, e1) \in BOOLEAN
         /\ Val(g, sv, Not(e1)) = ~Val(g, sv, e1)
         /\ Val(g, sv, ZERO) = FALSE /\ Val(g, sv, ONE) = TRUE
  BY ValBoolean
<1>2. CASE ZERO \in {e0, e1} \/ e0 = Not(e1)
  <2>1. r = Same(g, ZERO) /\ r.g = g /\ r.e = ZERO
    BY <1>2 DEF AddAnd, Same
  <2>2. Adds(r, g)
    BY <1>0, <2>1, SameAdds
  <2> HIDE DEF r
  <2>3. \A sv \in [Sources(g) -> BOOLEAN] :
           Val(r.g, sv, r.e) = (Val(g, sv, e0) /\ Val(g, sv, e1))
    BY <1>1, <1>2, <2>1
  <2> QED  BY <2>2, <2>3 DEF r
<1>3. CASE ~(ZERO \in {e0, e1} \/ e0 = Not(e1)) /\ e0 = ONE
  <2>1. r = Same(g, e1) /\ r.g = g /\ r.e = e1
    BY <1>3 DEF AddAnd, Same
  <2>2. Adds(r, g)
    BY <2>1, SameAdds
  <2> HIDE DEF r
  <2>3. \A sv \in [Sources(g) -> BOOLEAN] :
           Val(r.g, sv, r.e) = (Val(g, sv, e0) /\ Val(g, sv, e1))
    BY <1>1, <1>3, <2>1
  <2> QED  BY <2>2, <2>3 DEF r
<1>4. CASE ~(ZERO \in {e0, e1} \/ e0 = Not(e1)) /\ e0 # ONE /\ (e1 = ONE \/ e0 = e1)
  <2>1. r = Same(g, e0) /\ r.g = g /\ r.e = e0
    BY <1>4 DEF AddAnd, Same
  <2>2. Adds(r, g)
    BY <2>1, SameAdds
  <2> HIDE DEF r
  <2>3. \A sv \in [Sources(g) -> BOOLEAN] :
           Val(r.g, sv, r.e) = (Val(g, sv, e0) /\ Val(g, sv, e1))
    BY <1>1, <1>4, <2>1
  <2> QED  BY <2>2, <2>3 DEF r
<1>5. CASE ~(ZERO \in {e0, e1} \/ e0 = Not(e1)) /\ e0 # ONE /\ e1 # ONE /\ e0 # e1
  <2> DEFINE p == Ordered(e0, e1)
  <2>1. r = HashedAnd(g, p)
    BY <1>5 DEF AddAnd, Ordered
  <2>2. /\ p \in EdgesOf(g) \X EdgesOf(g)
        /\ 0 < p[1].node /\ p[1].node < p[2].node
        /\ p = <<e0, e1>> \/ p = <<e1, e0>>
    BY <1>0, <1>5, OrderedPair
  <2> HIDE DEF r, p
  <2>3. /\ Adds(r, g)
        /\ r.e.node \in 1 .. Len(r.g.nodes) /\ r.e = Edge(r.e.node, FALSE)
        /\ r.g.nodes[r.e.node] = p /\ IsAnd(r.g, r.e.node)
    BY <2>1, <2>2, HashedAndOK
  <2>4. ASSUME NEW sv \in [Sources(g) -> BOOLEAN]
        PROVE  Val(r.g, sv, r.e) = (Val(g, sv, e0) /\ Val(g, sv, e1))
    <3>1. sv \in [Sources(r.g) -> BOOLEAN] /\ GraphOK(r.g) /\ Extends(r.g, g)
      BY <1>0, <2>3, ExtendsEdges DEF Adds, GraphOK
    <3>2. NodeValues(r.g, sv)[r.e.node] = (Val(r.g, sv, p[1]) /\ Val(r.g, sv, p[2]))
      BY <2>3, <3>1, AndValue
    <3>3. Val(r.g, sv, e0) = Val(g, sv, e0) /\ Val(r.g, sv, e1) = Val(g, sv, e1)
      BY <3>1, ValKept
    <3>4. Val(r.g, sv, r.e) = NodeValues(r.g, sv)[r.e.node]
      <4>1. r.e.inv = FALSE /\ r.e \in EdgesOf(r.g)
        BY <2>3 DEF Edge, Adds
      <4>2. NodeValues(r.g, sv)[r.e.node] \in BOOLEAN
        BY <4>1, <3>1, ValBoolean
      <4> QED  BY <4>1, <4>2 DEF Val, EdgeValue
    <3>5. CASE p = <<e0, e1>>
      BY <3>2, <3>3, <3>4, <3>5
    <3>6. CASE p = <<e1, e0>>
      BY <1>1, <3>2, <3>3, <3>4, <3>6
    <3> QED  BY <2>2, <3>5, <3>6
  <2> QED  BY <2>3, <2>4 DEF r
<1> QED  BY <1>2, <1>3, <1>4, <1>5

LEMMA AddsThen ==
  ASSUME NEW g, GraphOK(g), NEW r, Adds(r, g), NEW s, Adds(s, r.g)
  PROVE  Adds(s, g)
  BY ExtendsMore DEF Adds, GraphOK

LEMMA AddsMore ==
  ASSUME NEW g, GraphOK(g), NEW r, Adds(r, g)
  PROVE  /\ GraphOK(r.g) /\ r.e \in EdgesOf(r.g) /\ EdgesOf(g) \subseteq EdgesOf(r.g)
         /\ Sources(r.g) = Sources(g)
         /\ \A sv \in [Sources(g) -> BOOLEAN], e \in EdgesOf(g) :
               Val(r.g, sv, e) = Val(g, sv, e)
<1>1. EdgesOf(g) \subseteq EdgesOf(r.g) /\ Sources(r.g) = Sources(g)
  BY ExtendsEdges DEF Adds, GraphOK
<1> QED  BY <1>1, ValKept DEF Adds

LEMMA InvertedOK ==
  ASSUME NEW g, NEW r, GraphOK(g), Adds(r, g), r = [g |-> r.g, e |-> r.e]
  PROVE  /\ Adds(Inverted(r), g) /\ Inverted(r).g = r.g /\ Inverted(r).e = Not(r.e)
         /\ \A sv \in [Sources(g) -> BOOLEAN] :
               Val(Inverted(r).g, sv, Inverted(r).e) = ~Val(r.g, sv, r.e)
<1>1. Inverted(r).g = r.g /\ Inverted(r).e = Not(r.e)
  BY DEF Inverted
<1>2. Not(r.e) \in EdgesOf(r.g)
  BY NotEdge DEF Adds
<1>3. \A sv \in [Sources(g) -> BOOLEAN] : Val(r.g, sv, Not(r.e)) = ~Val(r.g, sv, r.e)
  BY AddsMore, ValBoolean
<1> QED  BY <1>1, <1>2, <1>3 DEF Adds

LEMMA AddAndPair ==
  ASSUME NEW g, NEW e0, NEW e1
  PROVE  AddAnd(g, e0, e1) = [g |-> AddAnd(g, e0, e1).g, e |-> AddAnd(g, e0, e1).e]
  BY DEF AddAnd, Same, HashedAnd, NewAnd

LEMMA AddOrOK ==
  ASSUME NEW g, GraphOK(g), NEW e0 \in EdgesOf(g), NEW e1 \in EdgesOf(g)
  PROVE  LET r == AddOr(g, e0, e1)
         IN  /\ Adds(r, g)
             /\ \A sv \in [Sources(g) -> BOOLEAN] :
                   Val(r.g, sv, r.e) = (Val(g, sv, e0) \/ Val(g, sv, e1))
<1> DEFINE a == AddAnd(g, Not(e0), Not(e1))
<1>1. Not(e0) \in EdgesOf(g) /\ Not(e1) \in EdgesOf(g)
  BY NotEdge
<1>2. /\ Adds(a, g)
      /\ \A sv \in [Sources(g) -> BOOLEAN] :
            Val(a.g, sv, a.e) = (Val(g, sv, Not(e0)) /\ Val(g, sv, Not(e1)))
  BY <1>1, AddAndOK
<1>3. a = [g |-> a.g, e |-> a.e]
  BY AddAndPair
<1>4. AddOr(g, e0, e1) = Inverted(a)
  BY DEF AddOr
<1> HIDE DEF a
<1>5. /\ Adds(Inverted(a), g)
      /\ \A sv \in [Sources(g) -> BOOLEAN] :
            Val(Inverted(a).g, sv, Inverted(a).e) = ~Val(a.g, sv, a.e)
  BY <1>2, <1>3, InvertedOK
<1>6. \A sv \in [Sources(g) -> BOOLEAN] :
         /\ Val(g, sv, Not(e0)) = ~Val(g, sv, e0) /\ Val(g, sv, Not(e1)) = ~Val(g, sv, e1)
         /\ Val(g, sv, e0) \in BOOLEAN /\ Val(g, sv, e1) \in BOOLEAN
  BY ValBoolean
<1> QED  BY <1>2, <1>4, <1>5, <1>6

LEMMA EdgeInverted ==
  ASSUME NEW g, GraphOK(g), NEW e \in EdgesOf(g), NEW c \in EdgesOf(g), c.node = 0,
         NEW sv \in [Sources(g) -> BOOLEAN]
  PROVE  /\ Edge(e.node, e.inv # c.inv) \in EdgesOf(g)
         /\ Val(g, sv, Edge(e.node, e.inv # c.inv)) = (Val(g, sv, e) # Val(g, sv, c))
         /\ Val(g, sv, c) = c.inv
<1>1. e.inv \in BOOLEAN /\ c.inv \in BOOLEAN /\ c = Edge(0, c.inv)
  BY NotEdge
<1>2. CASE c.inv = FALSE
  <2>1. c = ZERO /\ (e.inv # c.inv) = e.inv
    BY <1>1, <1>2 DEF ZERO
  <2>2. Edge(e.node, e.inv # c.inv) = e
    BY <2>1, NotEdge
  <2>3. Val(g, sv, c) = FALSE /\ Val(g, sv, e) \in BOOLEAN
    BY <2>1, ValBoolean
  <2> QED  BY <1>2, <2>2, <2>3
<1>3. CASE c.inv = TRUE
  <2>1. c = ONE /\ (e.inv # c.inv) = ~e.inv
    BY <1>1, <1>3 DEF ONE
  <2>2. Edge(e.node, e.inv # c.inv) = Not(e)
    BY <2>1 DEF Not
  <2>3. /\ Val(g, sv, c) = TRUE /\ Val(g, sv, e) \in BOOLEAN
        /\ Val(g, sv, Not(e)) = ~Val(g, sv, e) /\ Not(e) \in EdgesOf(g)
    BY <2>1, ValBoolean, NotEdge
  <2> QED  BY <1>3, <2>2, <2>3
<1> QED  BY <1>1, <1>2, <1>3

(* (c AND t) OR (d AND e), the form exclusive ors and multiplexers take.   *)
Arms(g, c, t, d, e) ==
  LET a == AddAnd(g, c, t)
      b == AddAnd(a.g, d, e)
  IN  AddOr(b.g, a.e, b.e)

ArmsGive(r, g, c, t, d, e) ==
  \A sv \in [Sources(g) -> BOOLEAN] :
     Val(r.g, sv, r.e) = \/ Val(g, sv, c) /\ Val(g, sv, t)
                         \/ Val(g, sv, d) /\ Val(g, sv, e)

LEMMA TwoArms ==
  ASSUME NEW g, GraphOK(g), NEW c \in EdgesOf(g), NEW t \in EdgesOf(g),
         NEW d \in EdgesOf(g), NEW e \in EdgesOf(g)
  PROVE  LET r == Arms(g, c, t, d, e)
         IN  Adds(r, g) /\ ArmsGive(r, g, c, t, d, e)
<1> DEFINE a == AddAnd(g, c, t)
           b == AddAnd(a.g, d, e)
           r == AddOr(b.g, a.e, b.e)
<1>1. /\ Adds(a, g)
      /\ \A sv \in [Sources(g) -> BOOLEAN] :
            Val(a.g, sv, a.e) = (Val(g, sv, c) /\ Val(g, sv, t))
  BY AddAndOK
<1> HIDE DEF a
<1>2. /\ GraphOK(a.g) /\ a.e \in EdgesOf(a.g) /\ d \in EdgesOf(a.g) /\ e \in EdgesOf(a.g)
      /\ Sources(a.g) = Sources(g)
      /\ \A sv \in [Sources(g) -> BOOLEAN] :
            Val(a.g, sv, d) = Val(g, sv, d) /\ Val(a.g, sv, e) = Val(g, sv, e)
  BY <1>1, AddsMore
<1>3. /\ Adds(b, a.g)
      /\ \A sv \in [Sources(a.g) -> BOOLEAN] :
            Val(b.g, sv, b.e) = (Val(a.g, sv, d) /\ Val(a.g, sv, e))
  BY <1>2, AddAndOK
<1> HIDE DEF b
<1>4. /\ GraphOK(b.g) /\ b.e \in EdgesOf(b.g) /\ a.e \in EdgesOf(b.g)
      /\ Sources(b.g) = Sources(g)
      /\ \A sv \in [Sources(g) -> BOOLEAN] : Val(b.g, sv, a.e) = Val(a.g, sv, a.e)
  BY <1>2, <1>3, AddsMore
<1>5. /\ Adds(r, b.g)
      /\ \A sv \in [Sources(b.g) -> BOOLEAN] :
            Val(r.g, sv, r.e) = (Val(b.g, sv, a.e) \/ Val(b.g, sv, b.e))
  BY <1>4, AddOrOK
<1> HIDE DEF r
<1>6. Adds(r, g)
  <2>1. Adds(b, g)
    BY <1>1, <1>3, AddsThen
  <2> QED  BY <2>1, <1>5, AddsThen
<1>7. ArmsGive(r, g, c, t, d, e)
  BY <1>1, <1>2, <1>3, <1>4, <1>5 DEF ArmsGive
<1> QED  BY <1>6, <1>7 DEF r, b, a, Arms

LEMMA AddXorOK ==
  ASSUME NEW g, GraphOK(g), NEW e0 \in EdgesOf(g), NEW e1 \in EdgesOf(g)
  PROVE  LET r == AddXor(g, e0, e1)
         IN  /\ Adds(r, g)
             /\ \A sv \in [Sources(g) -> BOOLEAN] :
                   Val(r.g, sv, r.e) = (Val(g, sv, e0) # Val(g, sv, e1))
<1> DEFINE r == AddXor(g, e0, e1)
<1>0. GraphTyped(g) /\ ZERO \in EdgesOf(g) /\ ONE \in EdgesOf(g)
  BY Constants DEF GraphOK
<1>1. \A sv \in [Sources(g) -> BOOLEAN] :
         /\ Val(g, sv, e0) \in BOOLEAN /\ Val(g, sv, e1) \in BOOLEAN
         /\ Val(g, sv, Not(e0)) = ~Val(g, sv, e0) /\ Val(g, sv, Not(e1)) = ~Val(g, sv, e1)
         /\ Val(g, sv, ZERO) = FALSE /\ Val(g, sv, ONE) = TRUE
  BY ValBoolean
<1>2. ASSUME NEW e \in EdgesOf(g), r = Same(g, e),
             \A sv \in [Sources(g) -> BOOLEAN] :
                Val(g, sv, e) = (Val(g, sv, e0) # Val(g, sv, e1))
      PROVE  /\ Adds(r, g)
             /\ \A sv \in [Sources(g) -> BOOLEAN] :
                   Val(r.g, sv, r.e) = (Val(g, sv, e0) # Val(g, sv, e1))
  <2> HIDE DEF r
  <2>1. r.g = g /\ r.e = e
    BY <1>2 DEF Same
  <2> QED  BY <1>2, <2>1, SameAdds
<1>3. CASE e0 = e1
  <2>1. r = Same(g, ZERO)
    BY <1>3 DEF AddXor
  <2> QED  BY <1>0, <1>1, <1>2, <1>3, <2>1
<1>4. CASE e0 # e1 /\ e0 = Not(e1)
  <2>1. r = Same(g, ONE)
    BY <1>4 DEF AddXor
  <2>2. \A sv \in [Sources(g) -> BOOLEAN] : Val(g, sv, e0) # Val(g, sv, e1)
    BY <1>1, <1>4
  <2> HIDE DEF r
  <2>3. \A sv \in [Sources(g) -> BOOLEAN] :
           Val(g, sv, ONE) = (Val(g, sv, e0) # Val(g, sv, e1))
    BY <1>1, <2>2
  <2> QED  BY <1>0, <1>2, <2>1, <2>3 DEF r
<1>5. CASE e0 # e1 /\ e0 # Not(e1) /\ e0.node = 0
  <2>1. r = Same(g, Edge(e1.node, e1.inv # e0.inv))
    BY <1>5 DEF AddXor
  <2>2. \A sv \in [Sources(g) -> BOOLEAN] :
           /\ Edge(e1.node, e1.inv # e0.inv) \in EdgesOf(g)
           /\ Val(g, sv, Edge(e1.node, e1.inv # e0.inv)) = (Val(g, sv, e0) # Val(g, sv, e1))
    BY <1>1, <1>5, EdgeInverted
  <2>3. Edge(e1.node, e1.inv # e0.inv) \in EdgesOf(g)
    BY NotEdge DEF Edge, EdgesOf
  <2> QED  BY <1>2, <2>1, <2>2, <2>3
<1>6. CASE e0 # e1 /\ e0 # Not(e1) /\ e0.node # 0 /\ e1.node = 0
  <2>1. r = Same(g, Edge(e0.node, e0.inv # e1.inv))
    BY <1>6 DEF AddXor
  <2>2. \A sv \in [Sources(g) -> BOOLEAN] :
           Val(g, sv, Edge(e0.node, e0.inv # e1.inv)) = (Val(g, sv, e0) # Val(g, sv, e1))
    BY <1>6, EdgeInverted
  <2>3. Edge(e0.node, e0.inv # e1.inv) \in EdgesOf(g)
    BY NotEdge DEF Edge, EdgesOf
  <2> QED  BY <1>2, <2>1, <2>2, <2>3
<1>7. CASE e0 # e1 /\ e0 # Not(e1) /\ e0.node # 0 /\ e1.node # 0
  <2> DEFINE s == Arms(g, e0, Not(e1), Not(e0), e1)
  <2>1. r = s
    BY <1>7 DEF AddXor, Arms
  <2>2. Not(e0) \in EdgesOf(g) /\ Not(e1) \in EdgesOf(g)
    BY NotEdge
  <2>3. Adds(s, g) /\ ArmsGive(s, g, e0, Not(e1), Not(e0), e1)
    BY <2>2, TwoArms
  <2> HIDE DEF s, r
  <2>4. \A sv \in [Sources(g) -> BOOLEAN] :
           Val(s.g, sv, s.e) = (Val(g, sv, e0) # Val(g, sv, e1))
    BY <1>1, <2>3 DEF ArmsGive
  <2> QED  BY <2>1, <2>3, <2>4 DEF r
<1> QED  BY <1>3, <1>4, <1>5, <1>6, <1>7

LEMMA AddMuxOK ==
  ASSUME NEW g, GraphOK(g), NEW c \in EdgesOf(g), NEW t \in EdgesOf(g),
         NEW e \in EdgesOf(g)
  PROVE  LET r == AddMux(g, c, t, e)
         IN  /\ Adds(r, g)
             /\ \A sv \in [Sources(g) -> BOOLEAN] :
                   Val(r.g, sv, r.e) = IF Val(g, sv, c) THEN Val(g, sv, t) ELSE Val(g, sv, e)
<1> DEFINE r == AddMux(g, c, t, e)
<1>1. \A sv \in [Sources(g) -> BOOLEAN] :
         /\ Val(g, sv, c) \in BOOLEAN /\ Val(g, sv, Not(c)) = ~Val(g, sv, c)
         /\ Val(g, sv, t) \in BOOLEAN /\ Val(g, sv, e) \in BOOLEAN
  BY ValBoolean
<1>2. CASE c.node = 0
  <2>1. r = Same(g, IF c.inv THEN t ELSE e) /\ r.g = g /\ r.e = IF c.inv THEN t ELSE e
    BY <1>2 DEF AddMux, Same
  <2>2. c.inv \in BOOLEAN /\ \A sv \in [Sources(g) -> BOOLEAN] : Val(g, sv, c) = c.inv
    BY <1>2, EdgeInverted, NotEdge
  <2>3. Adds(r, g)
    BY <2>1, SameAdds
  <2> HIDE DEF r
  <2>4. \A sv \in [Sources(g) -> BOOLEAN] :
           Val(r.g, sv, r.e) = IF Val(g, sv, c) THEN Val(g, sv, t) ELSE Val(g, sv, e)
    BY <2>1, <2>2
  <2> QED  BY <2>3, <2>4 DEF r
<1>3. CASE c.node # 0 /\ t = e
  <2>1. r = Same(g, t) /\ r.g = g /\ r.e = t
    BY <1>3 DEF AddMux, Same
  <2>2. Adds(r, g)
    BY <2>1, SameAdds
  <2> HIDE DEF r
  <2>3. \A sv \in [Sources(g) -> BOOLEAN] :
           Val(r.g, sv, r.e) = IF Val(g, sv, c) THEN Val(g, sv, t) ELSE Val(g, sv, e)
    BY <1>3, <2>1
  <2> QED  BY <2>2, <2>3 DEF r
<1>4. CASE c.node # 0 /\ t # e
  <2> DEFINE s == Arms(g, c, t, Not(c), e)
  <2>1. r = s
    BY <1>4 DEF AddMux, Arms
  <2>2. Not(c) \in EdgesOf(g)
    BY NotEdge
  <2>3. Adds(s, g) /\ ArmsGive(s, g, c, t, Not(c), e)
    BY <2>2, TwoArms
  <2> HIDE DEF s, r
  <2>4. \A sv \in [Sources(g) -> BOOLEAN] :
           Val(s.g, sv, s.e) = IF Val(g, sv, c) THEN Val(g, sv, t) ELSE Val(g, sv, e)
    BY <1>1, <2>3 DEF ArmsGive
  <2> QED  BY <2>1, <2>3, <2>4 DEF r
<1> QED  BY <1>2, <1>3, <1>4

-----------------------------------------------------------------------------
(* Sources.                                                                *)

(* What a new source does: no table entry, no edge of another node.        *)
LEMMA SourceAdded ==
  ASSUME NEW g, GraphOK(g), NEW h,
         h.nodes = Append(g.nodes, <<>>), h.hash = g.hash, h.outputs = g.outputs
  PROVE  /\ h.nodes \in Seq(NodeSet) /\ ArenaOK(h) /\ Len(h.nodes) = Len(g.nodes) + 1
         /\ EdgesOf(g) \subseteq EdgesOf(h) /\ Edge(Len(g.nodes) + 1, FALSE) \in EdgesOf(h)
         /\ Sources(h) = Sources(g) \cup {Len(g.nodes) + 1}
         /\ Sources(g) \subseteq 1 .. Len(g.nodes)
<1> DEFINE n == Len(g.nodes) + 1
<1>1. Len(g.nodes) \in Nat /\ g.nodes \in Seq(NodeSet) /\ <<>> \in NodeSet
  BY DEF GraphOK, GraphTyped, NodeSet
<1>2. h.nodes \in Seq(NodeSet) /\ Len(h.nodes) = n
  BY <1>1
<1>3. \A k \in 1 .. Len(g.nodes) : h.nodes[k] = g.nodes[k]
  BY <1>1
<1>4. h.nodes[n] = <<>>
  BY <1>1
<1>5. \A k \in 1 .. n : IsAnd(h, k) => k \in 1 .. Len(g.nodes) /\ IsAnd(g, k)
  BY <1>1, <1>3, <1>4 DEF IsAnd
<1>6. Acyclic(h) /\ Folded(h)
  BY <1>2, <1>3, <1>5 DEF Acyclic, Folded, GraphOK, ArenaOK
<1>7. HashAgrees(h)
  <2>1. \A q \in DOMAIN h.hash : h.hash[q] \in 1 .. Len(h.nodes) /\ h.nodes[h.hash[q]] = q
    BY <1>1, <1>2, <1>3 DEF GraphOK, ArenaOK, HashAgrees
  <2>2. \A k \in 1 .. Len(h.nodes) :
           IsAnd(h, k) => h.nodes[k] \in DOMAIN h.hash /\ h.hash[h.nodes[k]] = k
    BY <1>2, <1>3, <1>5 DEF GraphOK, ArenaOK, HashAgrees
  <2> QED  BY <2>1, <2>2 DEF HashAgrees
<1>8. EdgesOf(g) \subseteq EdgesOf(h) /\ Edge(n, FALSE) \in EdgesOf(h)
  BY <1>1, <1>2 DEF EdgesOf, NodeIds, Edge
<1>9. Sources(h) = Sources(g) \cup {n}
  BY <1>1, <1>2, <1>3, <1>4 DEF Sources, IsAnd
<1>10. Sources(g) \subseteq 1 .. Len(g.nodes)
  BY DEF Sources
<1> QED  BY <1>2, <1>6, <1>7, <1>8, <1>9, <1>10 DEF ArenaOK

LEMMA AddInputOK ==
  ASSUME NEW g, GraphOK(g), NEW name \in STRING
  PROVE  LET r == AddInput(g, name)
         IN  /\ GraphOK(r.g) /\ EdgesOf(g) \subseteq EdgesOf(r.g) /\ r.e \in EdgesOf(r.g)
             /\ r.g.inputs = Append(g.inputs, [name |-> name, node |-> r.e.node])
             /\ r.g.registers = g.registers /\ r.g.outputs = g.outputs
<1> DEFINE r == AddInput(g, name)
           h == r.g
           n == Len(g.nodes) + 1
           new == [name |-> name, node |-> n]
<1>1. /\ h.nodes = Append(g.nodes, <<>>) /\ h.hash = g.hash /\ h.outputs = g.outputs
      /\ h.inputs = Append(g.inputs, new) /\ h.registers = g.registers
      /\ h = [nodes |-> h.nodes, inputs |-> h.inputs, registers |-> h.registers,
              outputs |-> h.outputs, hash |-> h.hash]
      /\ r.e = Edge(n, FALSE) /\ r.e.node = n
  BY DEF AddInput, GraphOK, GraphTyped, Edge
<1> HIDE DEF r
<1>2. /\ h.nodes \in Seq(NodeSet) /\ ArenaOK(h) /\ Len(h.nodes) = n
      /\ EdgesOf(g) \subseteq EdgesOf(h) /\ Edge(n, FALSE) \in EdgesOf(h)
      /\ Sources(h) = Sources(g) \cup {n} /\ Sources(g) \subseteq 1 .. Len(g.nodes)
  BY <1>1, SourceAdded
<1>3. Len(g.nodes) \in Nat /\ g.inputs \in Seq([name : STRING, node : Nat])
  BY LenNodes DEF GraphOK, GraphTyped
<1>4. GraphTyped(h)
  <2>1. new \in [name : STRING, node : Nat]
    BY <1>3
  <2>2. h.inputs \in Seq([name : STRING, node : Nat])
    BY <1>1, <1>3, <2>1
  <2> QED  BY <1>1, <1>2, <2>2 DEF GraphTyped, GraphOK
<1>5. SourcesOK(h)
  <2> DEFINE N == Len(g.inputs)
  <2>1. /\ N \in Nat /\ DOMAIN g.inputs = 1 .. N /\ DOMAIN h.inputs = 1 .. N + 1
        /\ \A i \in 1 .. N : h.inputs[i] = g.inputs[i]
        /\ h.inputs[N + 1] = new
    BY <1>1, <1>3
  <2>2. \A i \in 1 .. N : h.inputs[i].node = g.inputs[i].node /\ g.inputs[i].node \in Sources(g)
    BY <2>1 DEF GraphOK, SourcesOK
  <2>3. h.inputs[N + 1].node = n /\ n \notin Sources(g)
    BY <1>2, <1>3, <2>1
  <2>10. \A i \in DOMAIN h.inputs : i \in 1 .. N \/ i = N + 1
    BY <2>1
  <2>4. \A i \in DOMAIN h.inputs : h.inputs[i].node \in Sources(h)
    BY <1>2, <2>10, <2>2, <2>3
  <2>5. \A i \in DOMAIN h.registers :
           h.registers[i].q \in Sources(h) /\ h.registers[i].q # n
    BY <1>1, <1>2, <2>3 DEF GraphOK, SourcesOK
  <2>6. \A i, j \in DOMAIN h.inputs : h.inputs[i].node = h.inputs[j].node => i = j
    <3> SUFFICES ASSUME NEW i \in DOMAIN h.inputs, NEW j \in DOMAIN h.inputs,
                        h.inputs[i].node = h.inputs[j].node
                 PROVE  i = j
      OBVIOUS
    <3>0. \A k \in 1 .. N : h.inputs[k].node # n
      BY <2>2, <2>3
    <3>1. CASE i \in 1 .. N /\ j \in 1 .. N
      BY <3>1, <2>1, <2>2 DEF GraphOK, SourcesOK
    <3>2. CASE i \notin 1 .. N \/ j \notin 1 .. N
      <4>1. i = N + 1 \/ j = N + 1
        BY <3>2, <2>10
      <4>2. h.inputs[i].node = n /\ h.inputs[j].node = n
        BY <4>1, <2>3
      <4> QED  BY <4>2, <3>0, <2>10
    <3> QED  BY <3>1, <3>2
  <2>7. \A i, j \in DOMAIN h.registers : h.registers[i].q = h.registers[j].q => i = j
    BY <1>1 DEF GraphOK, SourcesOK
  <2>8. \A i \in DOMAIN h.inputs, j \in DOMAIN h.registers :
           h.inputs[i].node # h.registers[j].q
    <3> SUFFICES ASSUME NEW i \in DOMAIN h.inputs, NEW j \in DOMAIN h.registers
                 PROVE  h.inputs[i].node # h.registers[j].q
      OBVIOUS
    <3>1. CASE i \in 1 .. N
      BY <3>1, <1>1, <2>1, <2>2 DEF GraphOK, SourcesOK
    <3>2. CASE i \notin 1 .. N
      BY <3>2, <2>1, <2>3, <2>5
    <3> QED  BY <3>1, <3>2
  <2>9. ASSUME NEW m \in Sources(h)
        PROVE  \/ \E i \in DOMAIN h.inputs : h.inputs[i].node = m
               \/ \E i \in DOMAIN h.registers : h.registers[i].q = m
    <3>1. CASE m = n
      BY <3>1, <2>1, <2>3
    <3>2. CASE m # n
      <4>1. m \in Sources(g)
        BY <3>2, <1>2
      <4>2. \/ \E i \in DOMAIN g.inputs : g.inputs[i].node = m
            \/ \E i \in DOMAIN g.registers : g.registers[i].q = m
        BY <4>1 DEF GraphOK, SourcesOK
      <4> QED  BY <4>2, <1>1, <2>1, <2>2
    <3> QED  BY <3>1, <3>2
  <2> QED  BY <2>4, <2>5, <2>6, <2>7, <2>8, <2>9 DEF SourcesOK
<1>6. RootsOK(h)
  BY <1>1, <1>2 DEF RootsOK, GraphOK
<1> QED  BY <1>1, <1>2, <1>4, <1>5, <1>6 DEF GraphOK, r

LEMMA AddDffOK ==
  ASSUME NEW g, GraphOK(g), NEW name \in STRING, NEW d \in EdgesOf(g)
  PROVE  LET r == AddDff(g, name, d)
         IN  /\ GraphOK(r.g) /\ EdgesOf(g) \subseteq EdgesOf(r.g) /\ r.e \in EdgesOf(r.g)
             /\ r.g.registers = Append(g.registers, [name |-> name, q |-> r.e.node, d |-> d])
             /\ r.g.inputs = g.inputs /\ r.g.outputs = g.outputs
<1> DEFINE r == AddDff(g, name, d)
           h == r.g
           n == Len(g.nodes) + 1
           new == [name |-> name, q |-> n, d |-> d]
<1>1. /\ h.nodes = Append(g.nodes, <<>>) /\ h.hash = g.hash /\ h.outputs = g.outputs
      /\ h.registers = Append(g.registers, new) /\ h.inputs = g.inputs
      /\ h = [nodes |-> h.nodes, inputs |-> h.inputs, registers |-> h.registers,
              outputs |-> h.outputs, hash |-> h.hash]
      /\ r.e = Edge(n, FALSE) /\ r.e.node = n
  BY DEF AddDff, GraphOK, GraphTyped, Edge
<1> HIDE DEF r
<1>2. /\ h.nodes \in Seq(NodeSet) /\ ArenaOK(h) /\ Len(h.nodes) = n
      /\ EdgesOf(g) \subseteq EdgesOf(h) /\ Edge(n, FALSE) \in EdgesOf(h)
      /\ Sources(h) = Sources(g) \cup {n} /\ Sources(g) \subseteq 1 .. Len(g.nodes)
  BY <1>1, SourceAdded
<1> DEFINE Regs == [name : STRING, q : Nat, d : EdgeSet]
           N == Len(g.registers)
<1>3. Len(g.nodes) \in Nat /\ g.registers \in Seq(Regs)
  BY LenNodes DEF GraphOK, GraphTyped
<1>4. GraphTyped(h)
  <2>1. new \in Regs
    BY <1>3 DEF EdgesOf, EdgeSet, NodeIds
  <2>2. h.registers \in Seq(Regs)
    <3> HIDE DEF Regs, new
    <3> QED  BY <1>1, <1>3, <2>1
  <2> QED  BY <1>1, <1>2, <2>2 DEF GraphTyped, GraphOK
<1>7. /\ N \in Nat /\ DOMAIN g.registers = 1 .. N /\ DOMAIN h.registers = 1 .. N + 1
      /\ \A i \in 1 .. N : h.registers[i] = g.registers[i]
      /\ h.registers[N + 1] = new
  <2> HIDE DEF Regs, new
  <2> QED  BY <1>1, <1>3
<1>5. SourcesOK(h)
  <2>2. \A i \in 1 .. N : h.registers[i].q = g.registers[i].q /\ g.registers[i].q \in Sources(g)
    BY <1>7 DEF GraphOK, SourcesOK
  <2>3. h.registers[N + 1].q = n /\ n \notin Sources(g)
    BY <1>2, <1>3, <1>7
  <2>10. \A i \in DOMAIN h.registers : i \in 1 .. N \/ i = N + 1
    BY <1>7
  <2>4. \A i \in DOMAIN h.registers : h.registers[i].q \in Sources(h)
    BY <1>2, <1>7, <2>2, <2>3
  <2>5. \A i \in DOMAIN h.inputs : h.inputs[i].node \in Sources(h) /\ h.inputs[i].node # n
    BY <1>1, <1>2, <2>3 DEF GraphOK, SourcesOK
  <2>6. \A i, j \in DOMAIN h.registers : h.registers[i].q = h.registers[j].q => i = j
    <3> SUFFICES ASSUME NEW i \in DOMAIN h.registers, NEW j \in DOMAIN h.registers,
                        h.registers[i].q = h.registers[j].q
                 PROVE  i = j
      OBVIOUS
    <3>0. \A k \in 1 .. N : h.registers[k].q # n
      BY <2>2, <2>3
    <3>1. CASE i \in 1 .. N /\ j \in 1 .. N
      BY <3>1, <1>7, <2>2 DEF GraphOK, SourcesOK
    <3>2. CASE i \notin 1 .. N \/ j \notin 1 .. N
      <4>1. i = N + 1 \/ j = N + 1
        BY <3>2, <2>10
      <4>2. h.registers[i].q = n /\ h.registers[j].q = n
        BY <4>1, <2>3
      <4> QED  BY <4>2, <3>0, <2>10
    <3> QED  BY <3>1, <3>2
  <2>7. \A i, j \in DOMAIN h.inputs : h.inputs[i].node = h.inputs[j].node => i = j
    BY <1>1 DEF GraphOK, SourcesOK
  <2>8. \A i \in DOMAIN h.inputs, j \in DOMAIN h.registers :
           h.inputs[i].node # h.registers[j].q
    <3> SUFFICES ASSUME NEW i \in DOMAIN h.inputs, NEW j \in DOMAIN h.registers
                 PROVE  h.inputs[i].node # h.registers[j].q
      OBVIOUS
    <3>1. CASE j \in 1 .. N
      BY <3>1, <1>1, <1>7, <2>2 DEF GraphOK, SourcesOK
    <3>2. CASE j \notin 1 .. N
      BY <3>2, <1>7, <2>3, <2>5
    <3> QED  BY <3>1, <3>2
  <2>9. ASSUME NEW m \in Sources(h)
        PROVE  \/ \E i \in DOMAIN h.inputs : h.inputs[i].node = m
               \/ \E i \in DOMAIN h.registers : h.registers[i].q = m
    <3>1. CASE m = n
      BY <3>1, <1>7, <2>3
    <3>2. CASE m # n
      <4>1. m \in Sources(g)
        BY <3>2, <1>2
      <4>2. \/ \E i \in DOMAIN g.inputs : g.inputs[i].node = m
            \/ \E i \in DOMAIN g.registers : g.registers[i].q = m
        BY <4>1 DEF GraphOK, SourcesOK
      <4> QED  BY <4>2, <1>1, <1>7, <2>2
    <3> QED  BY <3>1, <3>2
  <2> QED  BY <2>4, <2>5, <2>6, <2>7, <2>8, <2>9 DEF SourcesOK
<1>6. RootsOK(h)
  <2>1. \A i \in DOMAIN h.registers : h.registers[i].d \in EdgesOf(h)
    <3> SUFFICES ASSUME NEW i \in DOMAIN h.registers PROVE h.registers[i].d \in EdgesOf(h)
      OBVIOUS
    <3>1. CASE i = N + 1
      BY <3>1, <1>2, <1>7
    <3>2. CASE i # N + 1
      BY <3>2, <1>2, <1>7 DEF RootsOK, GraphOK
    <3> QED  BY <3>1, <3>2
  <2> QED  BY <1>1, <1>2, <2>1 DEF RootsOK, GraphOK
<1> QED  BY <1>1, <1>2, <1>4, <1>5, <1>6 DEF GraphOK, r

-----------------------------------------------------------------------------
(* The invariant.                                                          *)

EnvOK(e, E) ==
  /\ e = [syms |-> e.syms, written |-> e.written]
  /\ \A n \in DOMAIN e.syms : e.syms[n].val \in E
  /\ IsFiniteSet(e.written)

ForkOK(f, E) ==
  /\ f = [cond |-> f.cond, outer |-> f.outer, then |-> f.then]
  /\ f.cond \in E /\ EnvOK(f.outer, E) /\ EnvOK(f.then, E)

RegNames(g) == {g.registers[i].name : i \in DOMAIN g.registers}

(* A read of a register finds it declared, in every branch: so no input has
   a register's name.                                                      *)
NamesApart(g) ==
  \A i \in DOMAIN g.inputs, j \in DOMAIN g.registers :
     g.inputs[i].name # g.registers[j].name

Phases == {"registers", "lower", "simulate", "classify", "rebuild", "map",
           "place", "verify", "done", "panicked"}

(* Lowering: the stacks are as deep as the code read so far makes them.    *)
StacksOK ==
  /\ edges \in Seq(EdgesOf(golden))
  /\ forks \in Seq({forks[i] : i \in DOMAIN forks})
  /\ EnvOK(env, EdgesOf(golden))
  /\ \A i \in DOMAIN forks : ForkOK(forks[i], EdgesOf(golden))
  /\ phase = "registers" => edges = <<>> /\ forks = <<>> /\ golden.inputs = <<>>
  /\ phase = "lower" => /\ pos <= Len(program.code) + 1
                        /\ Len(edges) = Depth(program.code)[pos - 1]
                        /\ Len(forks) = Opened(program.code)[pos - 1]

ScopesOK ==
  /\ NamesApart(golden)
  /\ RegNames(golden) \subseteq DOMAIN env.syms
  /\ \A i \in DOMAIN forks : RegNames(golden) \subseteq DOMAIN forks[i].outer.syms

(* Registers of one name have one next state.                              *)
NextsOK ==
  phase \notin {"registers", "lower"} =>
    \A i, j \in DOMAIN golden.registers :
       golden.registers[i].name = golden.registers[j].name
         => golden.registers[i].d = golden.registers[j].d

(* What a node is replaced by has its value; nothing is before Classify.    *)
ReplOK ==
  /\ phase \in {"registers", "lower", "simulate"} => DOMAIN leaders = {} /\ DOMAIN repl = {}
  /\ phase \in {"registers", "lower", "simulate", "classify"} => DOMAIN mapping = {}
  /\ \A s \in DOMAIN leaders : leaders[s] \in Nat /\ 0 < leaders[s]
                               /\ (phase = "classify" => leaders[s] < pos)
  /\ \A n \in DOMAIN repl :
        /\ repl[n] \in EdgeSet /\ repl[n].node < n
        /\ \A v \in [Sources(golden) -> BOOLEAN] :
              NodeValues(golden, v)[n] = Val(golden, v, repl[n])

(* The new graph's sources are the old one's, in their order.              *)
Mirror(s, g) ==
  /\ DOMAIN s.inputs = DOMAIN g.inputs /\ DOMAIN s.registers = DOMAIN g.registers
  /\ \A i \in DOMAIN g.inputs : s.inputs[i].name = g.inputs[i].name
  /\ \A i \in DOMAIN g.registers : s.registers[i].name = g.registers[i].name

MappedTo(n, named) ==
  Val(opt, ByName(opt, named), mapping[n]) = NodeValues(golden, ByName(golden, named))[n]

RebuildOK ==
  phase = "rebuild" =>
    /\ Mirror(opt, golden) /\ opt.outputs = EmptyGraph.outputs
    /\ DOMAIN mapping = NodeIds(golden)
    /\ \A n \in NodeIds(golden) : mapping[n] \in EdgesOf(opt)
    /\ \A n \in NodeIds(golden) :
          n < pos \/ n \in Sources(golden) => \A named \in Valuations : MappedTo(n, named)

ReducedOK ==
  Reduced => /\ Mirror(opt, golden) /\ DOMAIN opt.outputs = DOMAIN golden.outputs
             /\ ReductionKeepsFunctions

IInv ==
  /\ program \in Programs /\ options \in Options /\ phase \in Phases
  /\ pos \in Nat /\ 0 < pos /\ verified \in {"no", "yes", "mismatch"}
  /\ GraphOK(golden) /\ GraphOK(opt)
  /\ \A n \in DOMAIN mapping : mapping[n] \in EdgesOf(opt)
  /\ StacksOK /\ ScopesOK /\ NextsOK /\ ReplOK /\ RebuildOK /\ ReducedOK

-----------------------------------------------------------------------------
(* Environments, branches, and how deep the code stacks them.              *)

LEMMA EnvMore ==
  ASSUME NEW e, NEW E, NEW F, E \subseteq F, EnvOK(e, E)
  PROVE  EnvOK(e, F)
  BY DEF EnvOK

LEMMA DeclareOK ==
  ASSUME NEW E, NEW e, EnvOK(e, E), NEW name, NEW role, NEW v \in E
  PROVE  /\ EnvOK(Declare(e, name, role, v), E)
         /\ DOMAIN Declare(e, name, role, v).syms = DOMAIN e.syms \cup {name}
<1> DEFINE d == Declare(e, name, role, v)
<1>1. /\ d.syms = Put(e.syms, name, [role |-> role, val |-> v])
      /\ d.written = e.written /\ d = [syms |-> d.syms, written |-> d.written]
  BY DEF Declare, EnvOK
<1> HIDE DEF d
<1>2. DOMAIN d.syms = DOMAIN e.syms \cup {name}
  BY <1>1 DEF Put
<1>3. \A n \in DOMAIN d.syms : d.syms[n].val \in E
  BY <1>1 DEF Put, EnvOK
<1> QED  BY <1>1, <1>2, <1>3 DEF EnvOK, d

LEMMA WriteOK ==
  ASSUME NEW E, NEW e, EnvOK(e, E), NEW name, NEW v \in E
  PROVE  /\ EnvOK(Write(e, name, v), E)
         /\ DOMAIN Write(e, name, v).syms = DOMAIN e.syms \cup {name}
<1> DEFINE role == IF name \in DOMAIN e.syms THEN e.syms[name].role ELSE "output"
           d == Declare(e, name, role, v)
           w == Write(e, name, v)
<1>1. EnvOK(d, E) /\ DOMAIN d.syms = DOMAIN e.syms \cup {name}
  BY DeclareOK
<1>2. w = [d EXCEPT !.written = @ \cup {name}]
  BY DEF Write
<1> HIDE DEF d, w
<1>3. /\ w.syms = d.syms /\ w.written = d.written \cup {name}
      /\ w = [syms |-> w.syms, written |-> w.written]
  BY <1>1, <1>2 DEF EnvOK
<1>4. IsFiniteSet(w.written)
  BY <1>1, <1>3, FS_AddElement DEF EnvOK
<1> QED  BY <1>1, <1>3, <1>4 DEF EnvOK, w

LEMMA ForkedOK ==
  ASSUME NEW E, NEW e, EnvOK(e, E)
  PROVE  EnvOK(Fork(e), E) /\ Fork(e).syms = e.syms
<1> DEFINE f == Fork(e)
<1>1. f.syms = e.syms /\ f.written = {} /\ f = [syms |-> f.syms, written |-> f.written]
  BY DEF Fork, EnvOK
<1> HIDE DEF f
<1> QED  BY <1>1, FS_EmptySet DEF EnvOK, f

LEMMA NoEnvOK == ASSUME NEW E PROVE EnvOK(NoEnv, E)
  BY FS_EmptySet DEF EnvOK, NoEnv

LEMMA ValueOfOK ==
  ASSUME NEW g, GraphOK(g), NEW e, EnvOK(e, EdgesOf(g)), NEW name
  PROVE  ValueOf(e, name) \in EdgesOf(g)
  BY Constants DEF ValueOf, EnvOK, GraphOK

LEMMA SeqOfElements ==
  ASSUME NEW S, NEW s \in Seq(S)
  PROVE  s \in Seq({s[i] : i \in DOMAIN s})
<1>1. Len(s) \in Nat /\ DOMAIN s = 1 .. Len(s) /\ s = [i \in 1 .. Len(s) |-> s[i]]
  OBVIOUS
<1>2. \A i \in 1 .. Len(s) : s[i] \in {s[j] : j \in DOMAIN s}
  BY <1>1
<1> QED  BY <1>1, <1>2

(* A branch of the syntax tree ends: what holds of the graph and the scope
   after any number of names merged.                                       *)
MergedOK(f, m) ==
  /\ GraphOK(m.g) /\ Extends(m.g, golden) /\ EnvOK(m.env, EdgesOf(m.g))
  /\ DOMAIN f.outer.syms \subseteq DOMAIN m.env.syms

LEMMA MergeOneOK ==
  ASSUME GraphOK(golden), NEW f, ForkOK(f, EdgesOf(golden)),
         NEW other, EnvOK(other, EdgesOf(golden)), NEW name, NEW m, MergedOK(f, m)
  PROVE  MergedOK(f, MergeOne(f, other, name, m))
<1> DEFINE t == ValueOf(f.then, name)
           e == ValueOf(other, name)
           r == IF t = e THEN Same(m.g, t) ELSE AddMux(m.g, f.cond, t, e)
<1>0. GraphTyped(golden) /\ GraphTyped(m.g) /\ EdgesOf(golden) \subseteq EdgesOf(m.g)
  BY ExtendsEdges DEF MergedOK, GraphOK
<1>1. t \in EdgesOf(golden) /\ e \in EdgesOf(golden) /\ f.cond \in EdgesOf(golden)
  BY ValueOfOK DEF ForkOK
<1>2. Adds(r, m.g)
  <2>1. CASE t = e
    <3>1. r = Same(m.g, t)
      BY <2>1
    <3> QED  BY <3>1, <1>0, <1>1, SameAdds DEF MergedOK
  <2>2. CASE t # e
    <3>1. r = AddMux(m.g, f.cond, t, e)
      BY <2>2
    <3> HIDE DEF t, e, r
    <3>2. Adds(AddMux(m.g, f.cond, t, e), m.g)
      BY <1>0, <1>1, AddMuxOK DEF MergedOK
    <3> QED  BY <3>1, <3>2
  <2> QED  BY <2>1, <2>2
<1>3. /\ MergeOne(f, other, name, m).g = r.g
      /\ MergeOne(f, other, name, m).env = Write(m.env, name, r.e)
  BY DEF MergeOne
<1> HIDE DEF r
<1>4. GraphOK(r.g) /\ Extends(r.g, golden) /\ EdgesOf(m.g) \subseteq EdgesOf(r.g)
  <2>1. GraphOK(r.g) /\ Extends(r.g, m.g)
    BY <1>2 DEF Adds
  <2>2. Extends(r.g, golden)
    BY <1>0, <2>1, ExtendsMore DEF MergedOK, GraphOK
  <2> QED  BY <1>0, <2>1, <2>2, ExtendsEdges DEF GraphOK
<1>5. r.e \in EdgesOf(r.g) /\ EnvOK(m.env, EdgesOf(r.g))
  BY <1>2, <1>4, EnvMore DEF Adds, MergedOK
<1>6. /\ EnvOK(Write(m.env, name, r.e), EdgesOf(r.g))
      /\ DOMAIN Write(m.env, name, r.e).syms = DOMAIN m.env.syms \cup {name}
  BY <1>5, WriteOK
<1> QED  BY <1>3, <1>4, <1>6 DEF MergedOK

LEMMA MergeOK ==
  ASSUME GraphOK(golden), NEW f, ForkOK(f, EdgesOf(golden)),
         NEW other, EnvOK(other, EdgesOf(golden)), NEW names, Len(names) \in Nat
  PROVE  MergedOK(f, Merge(f, other, names))
<1> DEFINE N == Len(names)
           first == [g |-> golden, env |-> f.outer]
           At(m, i) == IF i = 0 THEN first ELSE MergeOne(f, other, names[i], m[i-1])
           Upto(m, k) == m = [i \in 0 .. k |-> At(m, i)]
           S == {k \in 0 .. N : \E m : Upto(m, k)}
<1>1. ASSUME NEW k \in 0 .. N, \A j \in 0 .. k - 1 : j \in S
      PROVE  k \in S
  <2>1. CASE k = 0
    <3> DEFINE m == [i \in 0 .. 0 |-> first]
    <3>1. Upto(m, 0)
      OBVIOUS
    <3> QED  BY <2>1, <3>1
  <2>2. CASE k # 0
    <3>1. k - 1 \in S
      <4>1. k - 1 \in 0 .. k - 1
        BY <2>2
      <4> HIDE DEF S
      <4> QED  BY <4>1, <1>1
    <3>2. PICK m : Upto(m, k - 1)
      BY <3>1
    <3> DEFINE more == [i \in 0 .. k |-> At(m, i)]
    <3>3. \A i \in 0 .. k - 1 : m[i] = At(m, i)
      BY <3>2
    <3>4. \A i \in 0 .. k - 1 : more[i] = m[i]
      BY <3>3
    <3>5. \A i \in 0 .. k : At(more, i) = At(m, i)
      <4>1. \A i \in 0 .. k : i = 0 \/ more[i-1] = m[i-1]
        <5> HIDE DEF more
        <5> QED  BY <3>4
      <4> HIDE DEF more
      <4> QED  BY <4>1
    <3>6. Upto(more, k)
      BY <3>5
    <3> QED  BY <3>6
  <2> QED  BY <2>1, <2>2
<1> HIDE DEF S
<1>2. N \in S
  <2>1. \A k \in 0 .. N : k \in S
    BY <1>1, Climb
  <2> QED  BY <2>1
<1> USE DEF S
<1>3. PICK m : Upto(m, N)
  BY <1>2
<1> HIDE DEF S
<1> DEFINE M == CHOOSE f0 : Upto(f0, N)
<1>4. Upto(M, N)
  BY <1>3
<1>5. Merge(f, other, names) = M[N]
  BY DEF Merge
<1> HIDE DEF M
<1> DEFINE T == {k \in 0 .. N : MergedOK(f, M[k])}
<1>6. ASSUME NEW k \in 0 .. N, \A j \in 0 .. k - 1 : j \in T
      PROVE  k \in T
  <2>1. M[k] = At(M, k)
    BY <1>4
  <2>2. CASE k = 0
    <3>1. M[k].g = golden /\ M[k].env = f.outer
      BY <2>1, <2>2
    <3> QED  BY <3>1, ExtendsItself DEF MergedOK, ForkOK, GraphOK
  <2>3. CASE k # 0
    <3>1. MergedOK(f, M[k-1]) /\ M[k] = MergeOne(f, other, names[k], M[k-1])
      BY <1>6, <2>1, <2>3
    <3> QED  BY <3>1, MergeOneOK
  <2> QED  BY <2>2, <2>3
<1> HIDE DEF T
<1>7. N \in T
  <2>1. \A k \in 0 .. N : k \in T
    BY <1>6, Climb
  <2> QED  BY <2>1
<1> QED  BY <1>5, <1>7 DEF T

(* The two depths, token by token.                                         *)
LEMMA Depths ==
  ASSUME NEW code, Len(code) \in Nat
  PROVE  /\ Depth(code)[0] = 0
         /\ \A i \in 1 .. Len(code) :
               Depth(code)[i] = Depth(code)[i-1] + Left(code[i]) - Taken(code[i])
<1> DEFINE N == Len(code)
           At(d, i) == IF i = 0 THEN 0 ELSE d[i-1] + Left(code[i]) - Taken(code[i])
           Upto(d, k) == d = [i \in 0 .. k |-> At(d, i)]
           S == {k \in 0 .. N : \E d : Upto(d, k)}
<1>1. ASSUME NEW k \in 0 .. N, \A j \in 0 .. k - 1 : j \in S
      PROVE  k \in S
  <2>1. CASE k = 0
    <3> DEFINE d == [i \in 0 .. 0 |-> 0]
    <3>1. Upto(d, 0)
      OBVIOUS
    <3> QED  BY <2>1, <3>1
  <2>2. CASE k # 0
    <3>1. k - 1 \in S
      <4>1. k - 1 \in 0 .. k - 1
        BY <2>2
      <4> HIDE DEF S
      <4> QED  BY <4>1, <1>1
    <3>2. PICK d : Upto(d, k - 1)
      BY <3>1
    <3> DEFINE more == [i \in 0 .. k |-> At(d, i)]
    <3>3. \A i \in 0 .. k - 1 : d[i] = At(d, i)
      BY <3>2
    <3>4. \A i \in 0 .. k - 1 : more[i] = d[i]
      BY <3>3
    <3>5. \A i \in 0 .. k : At(more, i) = At(d, i)
      <4>1. \A i \in 0 .. k : i = 0 \/ more[i-1] = d[i-1]
        <5> HIDE DEF more
        <5> QED  BY <3>4
      <4> HIDE DEF more
      <4> QED  BY <4>1
    <3>6. Upto(more, k)
      BY <3>5
    <3> QED  BY <3>6
  <2> QED  BY <2>1, <2>2
<1> HIDE DEF S
<1>2. N \in S
  <2>1. \A k \in 0 .. N : k \in S
    BY <1>1, Climb
  <2> QED  BY <2>1
<1>3. PICK d : Upto(d, N)
  BY <1>2 DEF S
<1> DEFINE D == CHOOSE f0 : Upto(f0, N)
<1>4. Upto(D, N)
  BY <1>3
<1>5. Depth(code) = D
  BY DEF Depth
<1> HIDE DEF D
<1>6. \A i \in 0 .. N : D[i] = At(D, i)
  BY <1>4
<1> QED  BY <1>5, <1>6

LEMMA Openings ==
  ASSUME NEW code, Len(code) \in Nat
  PROVE  /\ Opened(code)[0] = 0
         /\ \A i \in 1 .. Len(code) : Opened(code)[i] = Opened(code)[i-1] + Opens(code[i])
<1> DEFINE N == Len(code)
           At(d, i) == IF i = 0 THEN 0 ELSE d[i-1] + Opens(code[i])
           Upto(d, k) == d = [i \in 0 .. k |-> At(d, i)]
           S == {k \in 0 .. N : \E d : Upto(d, k)}
<1>1. ASSUME NEW k \in 0 .. N, \A j \in 0 .. k - 1 : j \in S
      PROVE  k \in S
  <2>1. CASE k = 0
    <3> DEFINE d == [i \in 0 .. 0 |-> 0]
    <3>1. Upto(d, 0)
      OBVIOUS
    <3> QED  BY <2>1, <3>1
  <2>2. CASE k # 0
    <3>1. k - 1 \in S
      <4>1. k - 1 \in 0 .. k - 1
        BY <2>2
      <4> HIDE DEF S
      <4> QED  BY <4>1, <1>1
    <3>2. PICK d : Upto(d, k - 1)
      BY <3>1
    <3> DEFINE more == [i \in 0 .. k |-> At(d, i)]
    <3>3. \A i \in 0 .. k - 1 : d[i] = At(d, i)
      BY <3>2
    <3>4. \A i \in 0 .. k - 1 : more[i] = d[i]
      BY <3>3
    <3>5. \A i \in 0 .. k : At(more, i) = At(d, i)
      <4>1. \A i \in 0 .. k : i = 0 \/ more[i-1] = d[i-1]
        <5> HIDE DEF more
        <5> QED  BY <3>4
      <4> HIDE DEF more
      <4> QED  BY <4>1
    <3>6. Upto(more, k)
      BY <3>5
    <3> QED  BY <3>6
  <2> QED  BY <2>1, <2>2
<1> HIDE DEF S
<1>2. N \in S
  <2>1. \A k \in 0 .. N : k \in S
    BY <1>1, Climb
  <2> QED  BY <2>1
<1>3. PICK d : Upto(d, N)
  BY <1>2 DEF S
<1> DEFINE D == CHOOSE f0 : Upto(f0, N)
<1>4. Upto(D, N)
  BY <1>3
<1>5. Opened(code) = D
  BY DEF Opened
<1> HIDE DEF D
<1>6. \A i \in 0 .. N : D[i] = At(D, i)
  BY <1>4
<1> QED  BY <1>5, <1>6

-----------------------------------------------------------------------------
(* Lowering keeps the invariant.                                           *)

LEMMA InitInv == Init => IInv
<1> SUFFICES ASSUME Init PROVE IInv
  OBVIOUS
<1> USE DEF Init
<1>1. program \in Programs /\ options \in Options /\ phase \in Phases
  BY DEF Phases
<1>2. pos \in Nat /\ 0 < pos /\ verified \in {"no", "yes", "mismatch"}
  OBVIOUS
<1>3. GraphOK(golden) /\ GraphOK(opt) /\ \A n \in DOMAIN mapping : mapping[n] \in EdgesOf(opt)
  BY EmptyGraphOK
<1>4. StacksOK
  BY NoEnvOK DEF StacksOK, EmptyGraph
<1>5. ScopesOK
  BY DEF ScopesOK, EmptyGraph, NamesApart, RegNames
<1>6. NextsOK /\ ReplOK /\ RebuildOK /\ ReducedOK
  BY DEF NextsOK, ReplOK, RebuildOK, ReducedOK, Reduced
<1> QED  BY <1>1, <1>2, <1>3, <1>4, <1>5, <1>6 DEF IInv

(* What every step of the lowering has to show.                            *)
Lowers ==
  /\ phase \in {"registers", "lower"} /\ phase' \in {"registers", "lower"}
  /\ pos' \in Nat /\ 0 < pos'
  /\ UNCHANGED <<program, options, opt, reducing, placing, verified>>
  /\ GraphOK(golden') /\ StacksOK' /\ ScopesOK'

LEMMA LowersInv ==
  ASSUME IInv, Lowers
  PROVE  IInv'
<1>1. program' \in Programs /\ options' \in Options /\ phase' \in Phases
  BY DEF IInv, Lowers, Phases
<1>2. pos' \in Nat /\ 0 < pos' /\ verified' \in {"no", "yes", "mismatch"}
  BY DEF IInv, Lowers
<1>3. GraphOK(golden') /\ GraphOK(opt') /\ \A n \in DOMAIN mapping' : mapping'[n] \in EdgesOf(opt')
  BY DEF IInv, Lowers, reducing
<1>4. NextsOK' /\ RebuildOK' /\ ReducedOK'
  BY DEF Lowers, NextsOK, RebuildOK, ReducedOK, Reduced
<1>5. ReplOK'
  BY DEF IInv, Lowers, ReplOK, reducing
<1> QED  BY <1>1, <1>2, <1>3, <1>4, <1>5 DEF IInv, Lowers

LEMMA DeclareRegisterInv == ASSUME IInv, DeclareRegister PROVE IInv'
<1> DEFINE name == program.registers[pos]
           r == AddDff(golden, name, ZERO)
<1>1. /\ phase = "registers" /\ phase' = "registers" /\ pos' = pos + 1
      /\ pos <= Len(program.registers)
      /\ golden' = r.g /\ env' = Declare(env, name, "register", r.e)
      /\ UNCHANGED <<program, options, edges, forks, opt, reducing, placing, verified>>
  BY DEF DeclareRegister, Stay
<1>2. name \in STRING
  BY <1>1, ProgramsTyped DEF IInv
<1>3. /\ GraphOK(golden') /\ EdgesOf(golden) \subseteq EdgesOf(golden')
      /\ r.e \in EdgesOf(golden')
      /\ golden'.registers = Append(golden.registers, [name |-> name, q |-> r.e.node, d |-> ZERO])
      /\ golden'.inputs = golden.inputs
  BY <1>1, <1>2, AddDffOK, Constants DEF IInv, GraphOK
<1> HIDE DEF r
<1>4. /\ edges = <<>> /\ forks = <<>> /\ golden.inputs = <<>>
      /\ EnvOK(env, EdgesOf(golden)) /\ RegNames(golden) \subseteq DOMAIN env.syms
  BY <1>1 DEF IInv, StacksOK, ScopesOK
<1>5. EnvOK(env', EdgesOf(golden')) /\ DOMAIN env'.syms = DOMAIN env.syms \cup {name}
  <2>1. EnvOK(env, EdgesOf(golden'))
    BY <1>3, <1>4, EnvMore
  <2>2. r.e \in EdgesOf(golden')
    BY <1>3
  <2> QED  BY <1>1, <2>1, <2>2, DeclareOK
<1>6. StacksOK'
  BY <1>1, <1>3, <1>4, <1>5 DEF StacksOK
<1>7. RegNames(golden') \subseteq RegNames(golden) \cup {name}
  <2>1. golden.registers \in Seq([name : STRING, q : Nat, d : EdgeSet])
    BY DEF IInv, GraphOK, GraphTyped
  <2>2. \A i \in DOMAIN golden'.registers :
           \/ i \in DOMAIN golden.registers /\ golden'.registers[i] = golden.registers[i]
           \/ golden'.registers[i] = [name |-> name, q |-> r.e.node, d |-> ZERO]
    BY <1>3, <2>1
  <2> QED  BY <2>2 DEF RegNames
<1>8. ScopesOK'
  BY <1>1, <1>3, <1>4, <1>5, <1>7 DEF ScopesOK, NamesApart
<1> QED  BY <1>1, <1>3, <1>6, <1>8, LowersInv DEF Lowers, IInv

LEMMA EndRegistersInv == ASSUME IInv, EndRegisters PROVE IInv'
<1>1. /\ phase = "registers" /\ phase' = "lower" /\ pos' = 1
      /\ UNCHANGED <<program, options, edges, env, forks, golden, opt, reducing, placing, verified>>
  BY DEF EndRegisters, GoTo, lowering
<1>2. Len(program.code) \in Nat
  BY ProgramsTyped DEF IInv
<1>3. Depth(program.code)[0] = 0 /\ Opened(program.code)[0] = 0
  BY <1>2, Depths, Openings
<1>4. StacksOK'
  <2>1. edges = <<>> /\ forks = <<>>
    BY <1>1 DEF IInv, StacksOK
  <2> QED  BY <1>1, <1>2, <1>3, <2>1 DEF IInv, StacksOK
<1>5. ScopesOK'
  BY <1>1 DEF IInv, ScopesOK
<1> QED  BY <1>1, <1>4, <1>5, LowersInv DEF Lowers, IInv

(* The token read is one of a tree: its operands are on the stack.         *)
LEMMA TokenFacts ==
  ASSUME IInv, phase = "lower", pos <= Len(program.code)
  PROVE  /\ TokenTyped(Token) /\ Taken(Token) <= Len(edges) /\ Len(edges) \in Nat
         /\ Token.op \in {"else", "end"} => 0 < Len(forks)
         /\ Len(forks) \in Nat
<1>1. pos \in 1 .. Len(program.code) /\ Len(program.code) \in Nat
  BY ProgramsTyped DEF IInv
<1>2. /\ TokenTyped(program.code[pos]) /\ Taken(program.code[pos]) <= Depth(program.code)[pos-1]
      /\ program.code[pos].op \in {"else", "end"} => Opened(program.code)[pos-1] > 0
  BY <1>1, ProgramsTyped DEF IInv
<1>3. Len(edges) \in Nat /\ Len(forks) \in Nat
  BY DEF IInv, StacksOK
<1> QED  BY <1>2, <1>3 DEF IInv, StacksOK, Token

(* What is left to show of a token's step.                                 *)
Reads ==
  /\ phase = "lower" /\ pos <= Len(program.code) /\ Stay
  /\ UNCHANGED <<program, options, opt, reducing, placing, verified>>
  /\ GraphOK(golden') /\ EdgesOf(golden) \subseteq EdgesOf(golden')
  /\ edges' \in Seq(EdgesOf(golden'))
  /\ Len(edges') = Len(edges) + Left(Token) - Taken(Token)
  /\ EnvOK(env', EdgesOf(golden'))
  /\ forks' \in Seq({forks'[i] : i \in DOMAIN forks'})
  /\ \A i \in DOMAIN forks' : ForkOK(forks'[i], EdgesOf(golden'))
  /\ Len(forks') = Len(forks) + Opens(Token)
  /\ ScopesOK'

LEMMA ReadsInv == ASSUME IInv, Reads PROVE IInv'
<1>1. /\ phase = "lower" /\ phase' = "lower" /\ pos' = pos + 1 /\ pos <= Len(program.code)
      /\ UNCHANGED <<program, options, opt, reducing, placing, verified>>
  BY DEF Reads, Stay
<1>2. pos \in Nat /\ 0 < pos /\ Len(program.code) \in Nat /\ pos \in 1 .. Len(program.code)
  BY <1>1, ProgramsTyped DEF IInv
<1>3. /\ Depth(program.code)[pos] = Depth(program.code)[pos-1] + Left(Token) - Taken(Token)
      /\ Opened(program.code)[pos] = Opened(program.code)[pos-1] + Opens(Token)
  BY <1>2, Depths, Openings DEF Token
<1>4. Len(edges) = Depth(program.code)[pos-1] /\ Len(forks) = Opened(program.code)[pos-1]
  BY <1>1 DEF IInv, StacksOK
<1>5. pos' - 1 = pos /\ pos' <= Len(program'.code) + 1
  BY <1>1, <1>2
<1>6. Len(edges') = Depth(program'.code)[pos'-1] /\ Len(forks') = Opened(program'.code)[pos'-1]
  BY <1>1, <1>3, <1>4, <1>5 DEF Reads
<1>7. StacksOK'
  BY <1>1, <1>5, <1>6 DEF Reads, StacksOK
<1> QED  BY <1>1, <1>2, <1>7, LowersInv DEF Lowers, Reads

(* Branches and scopes stay as they are while the graph grows.             *)
LEMMA ForksMore ==
  ASSUME IInv, forks' = forks, EdgesOf(golden) \subseteq EdgesOf(golden')
  PROVE  /\ forks' \in Seq({forks'[i] : i \in DOMAIN forks'}) /\ Len(forks') = Len(forks)
         /\ \A i \in DOMAIN forks' : ForkOK(forks'[i], EdgesOf(golden'))
         /\ Len(forks) \in Nat
  BY EnvMore DEF IInv, StacksOK, ForkOK

LEMMA ScopesMore ==
  ASSUME IInv, forks' = forks, golden'.registers = golden.registers,
         golden'.inputs = golden.inputs, DOMAIN env.syms \subseteq DOMAIN env'.syms
  PROVE  ScopesOK'
  BY DEF IInv, ScopesOK, NamesApart, RegNames

LEMMA Replaced ==
  ASSUME NEW E, NEW F, E \subseteq F, edges \in Seq(E), NEW k \in Nat, k <= Len(edges)
  PROVE  /\ SubSeq(edges, 1, Len(edges) - k) \in Seq(F)
         /\ Len(SubSeq(edges, 1, Len(edges) - k)) = Len(edges) - k
         /\ \A e \in F : /\ Replace(k, e) \in Seq(F)
                         /\ Len(Replace(k, e)) = Len(edges) + 1 - k
         /\ \A j \in 0 .. Len(edges) - 1 : Top(j) \in E
<1>1. edges \in Seq(F) /\ Len(edges) \in Nat
  OBVIOUS
<1> DEFINE s == SubSeq(edges, 1, Len(edges) - k)
<1>2. s \in Seq(F) /\ Len(s) = Len(edges) - k
  BY <1>1
<1>3. \A e \in F : Replace(k, e) = Append(s, e)
  BY DEF Replace
<1> HIDE DEF s
<1>4. \A e \in F : Append(s, e) \in Seq(F) /\ Len(Append(s, e)) = Len(edges) + 1 - k
  BY <1>1, <1>2
<1>5. \A j \in 0 .. Len(edges) - 1 : Top(j) \in E
  BY DEF Top
<1> QED  BY <1>2, <1>3, <1>4, <1>5 DEF s

LEMMA StackMore ==
  ASSUME IInv, EdgesOf(golden) \subseteq EdgesOf(golden'), NEW k \in Nat, k <= Len(edges)
  PROVE  /\ SubSeq(edges, 1, Len(edges) - k) \in Seq(EdgesOf(golden'))
         /\ Len(SubSeq(edges, 1, Len(edges) - k)) = Len(edges) - k
         /\ \A e \in EdgesOf(golden') : /\ Replace(k, e) \in Seq(EdgesOf(golden'))
                                      /\ Len(Replace(k, e)) = Len(edges) + 1 - k
         /\ \A j \in 0 .. Len(edges) - 1 : Top(j) \in EdgesOf(golden)
<1> DEFINE E == EdgesOf(golden)
           F == EdgesOf(golden')
<1>1. E \subseteq F /\ edges \in Seq(E)
  BY DEF IInv, StacksOK
<1> HIDE DEF E, F
<1>2. /\ SubSeq(edges, 1, Len(edges) - k) \in Seq(F)
      /\ Len(SubSeq(edges, 1, Len(edges) - k)) = Len(edges) - k
      /\ \A e \in F : /\ Replace(k, e) \in Seq(F)
                      /\ Len(Replace(k, e)) = Len(edges) + 1 - k
      /\ \A j \in 0 .. Len(edges) - 1 : Top(j) \in E
  BY <1>1, Replaced
<1> QED  BY <1>2 DEF E, F

LEMMA LowerVariableInv == ASSUME IInv, LowerVariable PROVE IInv'
<1> DEFINE r == AddInput(golden, Token.name)
<1>1. /\ phase = "lower" /\ pos <= Len(program.code) /\ Stay /\ Token.op = "var"
      /\ UNCHANGED <<program, options, opt, reducing, placing, verified>>
      /\ forks' = forks
      /\ \/ /\ Token.name \in DOMAIN env.syms /\ edges' = Replace(0, env.syms[Token.name].val)
            /\ env' = env /\ golden' = golden
         \/ /\ Token.name \notin DOMAIN env.syms /\ golden' = r.g /\ edges' = Replace(0, r.e)
            /\ env' = Declare(env, Token.name, "input", r.e)
  BY DEF LowerVariable, Lowering
<1>2. /\ Token.name \in STRING /\ Left(Token) = 1 /\ Taken(Token) = 0 /\ Opens(Token) = 0
      /\ Len(edges) \in Nat
  BY <1>1, TokenFacts DEF TokenTyped, Left, Taken, Opens
<1>3. /\ GraphOK(golden) /\ EnvOK(env, EdgesOf(golden)) /\ edges \in Seq(EdgesOf(golden))
      /\ RegNames(golden) \subseteq DOMAIN env.syms
  BY DEF IInv, StacksOK, ScopesOK
<1>4. CASE /\ Token.name \in DOMAIN env.syms /\ edges' = Replace(0, env.syms[Token.name].val)
           /\ env' = env /\ golden' = golden
  <2>1. env.syms[Token.name].val \in EdgesOf(golden)
    BY <1>3, <1>4 DEF EnvOK
  <2>2. edges' \in Seq(EdgesOf(golden')) /\ Len(edges') = Len(edges) + 1
    BY <1>2, <1>4, <2>1, StackMore
  <2>3. ScopesOK'
    BY <1>1, <1>4, ScopesMore
  <2>4. /\ forks' \in Seq({forks'[i] : i \in DOMAIN forks'}) /\ Len(forks') = Len(forks)
        /\ \A i \in DOMAIN forks' : ForkOK(forks'[i], EdgesOf(golden'))
        /\ Len(forks) \in Nat
    BY <1>1, <1>4, ForksMore
  <2>5. Reads
    BY <1>1, <1>2, <1>3, <1>4, <2>2, <2>3, <2>4 DEF Reads
  <2> QED  BY <2>5, ReadsInv
<1>5. CASE /\ Token.name \notin DOMAIN env.syms /\ golden' = r.g /\ edges' = Replace(0, r.e)
           /\ env' = Declare(env, Token.name, "input", r.e)
  <2>1. /\ GraphOK(golden') /\ EdgesOf(golden) \subseteq EdgesOf(golden')
        /\ r.e \in EdgesOf(golden')
        /\ golden'.inputs = Append(golden.inputs, [name |-> Token.name, node |-> r.e.node])
        /\ golden'.registers = golden.registers
    BY <1>2, <1>3, <1>5, AddInputOK
  <2> HIDE DEF r
  <2>2. edges' \in Seq(EdgesOf(golden')) /\ Len(edges') = Len(edges) + 1
    <3>1. \A e \in EdgesOf(golden') : /\ Replace(0, e) \in Seq(EdgesOf(golden'))
                                     /\ Len(Replace(0, e)) = Len(edges) + 1 - 0
      BY <1>2, <2>1, StackMore
    <3> QED  BY <1>2, <1>5, <2>1, <3>1
  <2>3. EnvOK(env', EdgesOf(golden')) /\ DOMAIN env'.syms = DOMAIN env.syms \cup {Token.name}
    <3>1. EnvOK(env, EdgesOf(golden')) /\ r.e \in EdgesOf(golden')
      BY <1>3, <2>1, EnvMore
    <3> QED  BY <1>5, <3>1, DeclareOK
  <2>4. NamesApart(golden')
    <3>1. golden.inputs \in Seq([name : STRING, node : Nat])
      BY <1>3 DEF GraphOK, GraphTyped
    <3>2. \A i \in DOMAIN golden'.inputs :
             \/ i \in DOMAIN golden.inputs /\ golden'.inputs[i] = golden.inputs[i]
             \/ golden'.inputs[i] = [name |-> Token.name, node |-> r.e.node]
      BY <2>1, <3>1
    <3>3. \A j \in DOMAIN golden.registers : golden.registers[j].name # Token.name
      BY <1>3, <1>5 DEF RegNames
    <3> QED  BY <2>1, <3>2, <3>3 DEF IInv, ScopesOK, NamesApart
  <2>5. ScopesOK'
    BY <1>1, <2>1, <2>3, <2>4 DEF IInv, ScopesOK, RegNames
  <2>6. /\ forks' \in Seq({forks'[i] : i \in DOMAIN forks'}) /\ Len(forks') = Len(forks)
        /\ \A i \in DOMAIN forks' : ForkOK(forks'[i], EdgesOf(golden'))
        /\ Len(forks) \in Nat
    BY <1>1, <2>1, ForksMore
  <2>7. Reads
    BY <1>1, <1>2, <2>1, <2>2, <2>3, <2>5, <2>6 DEF Reads
  <2> QED  BY <2>7, ReadsInv
<1> QED  BY <1>1, <1>4, <1>5

LEMMA LowerLiteralInv == ASSUME IInv, LowerLiteral PROVE IInv'
<1> DEFINE e == IF Token.value THEN ONE ELSE ZERO
<1>1. /\ phase = "lower" /\ pos <= Len(program.code) /\ Stay /\ Token.op = "lit"
      /\ UNCHANGED <<program, options, opt, reducing, placing, verified>>
      /\ edges' = Replace(0, e) /\ env' = env /\ forks' = forks /\ golden' = golden
  BY DEF LowerLiteral, Lowering
<1>2. Left(Token) = 1 /\ Taken(Token) = 0 /\ Opens(Token) = 0 /\ Len(edges) \in Nat
  BY <1>1, TokenFacts DEF Left, Taken, Opens
<1>3. GraphOK(golden) /\ EnvOK(env, EdgesOf(golden)) /\ e \in EdgesOf(golden)
  BY Constants DEF IInv, StacksOK, GraphOK
<1> HIDE DEF e
<1>4. edges' \in Seq(EdgesOf(golden')) /\ Len(edges') = Len(edges) + 1
  BY <1>1, <1>2, <1>3, StackMore
<1>5. ScopesOK'
  BY <1>1, ScopesMore
<1>6. /\ forks' \in Seq({forks'[i] : i \in DOMAIN forks'}) /\ Len(forks') = Len(forks)
      /\ \A i \in DOMAIN forks' : ForkOK(forks'[i], EdgesOf(golden'))
      /\ Len(forks) \in Nat
  BY <1>1, ForksMore
<1>7. Reads
  BY <1>1, <1>2, <1>3, <1>4, <1>5, <1>6 DEF Reads
<1> QED  BY <1>7, ReadsInv

LEMMA LowerOtherInv == ASSUME IInv, LowerOther PROVE IInv'
<1>1. /\ phase = "lower" /\ pos <= Len(program.code) /\ Stay /\ Token.op = "other"
      /\ UNCHANGED <<program, options, opt, reducing, placing, verified>>
      /\ edges' = Replace(0, ZERO) /\ env' = env /\ forks' = forks /\ golden' = golden
  BY DEF LowerOther, Lowering
<1>2. Left(Token) = 1 /\ Taken(Token) = 0 /\ Opens(Token) = 0 /\ Len(edges) \in Nat
  BY <1>1, TokenFacts DEF Left, Taken, Opens
<1>3. GraphOK(golden) /\ EnvOK(env, EdgesOf(golden)) /\ ZERO \in EdgesOf(golden)
  BY Constants DEF IInv, StacksOK, GraphOK
<1>4. edges' \in Seq(EdgesOf(golden')) /\ Len(edges') = Len(edges) + 1
  BY <1>1, <1>2, <1>3, StackMore
<1>5. ScopesOK'
  BY <1>1, ScopesMore
<1>6. /\ forks' \in Seq({forks'[i] : i \in DOMAIN forks'}) /\ Len(forks') = Len(forks)
      /\ \A i \in DOMAIN forks' : ForkOK(forks'[i], EdgesOf(golden'))
      /\ Len(forks) \in Nat
  BY <1>1, ForksMore
<1>7. Reads
  BY <1>1, <1>2, <1>3, <1>4, <1>5, <1>6 DEF Reads
<1> QED  BY <1>7, ReadsInv

LEMMA LowerSignInv == ASSUME IInv, LowerSign PROVE IInv'
<1>1. /\ phase = "lower" /\ pos <= Len(program.code) /\ Stay /\ Token.op = "sign"
      /\ UNCHANGED <<program, options, opt, reducing, placing, verified>>
      /\ edges' = edges /\ env' = env /\ forks' = forks /\ golden' = golden
  BY DEF LowerSign, Lowering
<1>2. /\ Left(Token) = 1 /\ Taken(Token) = 1 /\ Opens(Token) = 0
      /\ Len(edges) \in Nat
  BY <1>1, TokenFacts DEF Left, Taken, Opens
<1>3. GraphOK(golden) /\ EnvOK(env, EdgesOf(golden)) /\ edges \in Seq(EdgesOf(golden))
  BY DEF IInv, StacksOK
<1>4. edges' \in Seq(EdgesOf(golden')) /\ Len(edges') = Len(edges)
  BY <1>1, <1>3
<1>5. ScopesOK'
  BY <1>1, ScopesMore
<1>6. /\ forks' \in Seq({forks'[i] : i \in DOMAIN forks'}) /\ Len(forks') = Len(forks)
      /\ \A i \in DOMAIN forks' : ForkOK(forks'[i], EdgesOf(golden'))
      /\ Len(forks) \in Nat
  BY <1>1, ForksMore
<1>7. Reads
  BY <1>1, <1>2, <1>3, <1>4, <1>5, <1>6 DEF Reads
<1> QED  BY <1>7, ReadsInv

LEMMA LowerNotInv == ASSUME IInv, LowerNot PROVE IInv'
<1> DEFINE e == Not(Top(0))
<1>1. /\ phase = "lower" /\ pos <= Len(program.code) /\ Stay /\ Token.op = "not"
      /\ UNCHANGED <<program, options, opt, reducing, placing, verified>>
      /\ edges' = Replace(1, e) /\ env' = env /\ forks' = forks /\ golden' = golden
  BY DEF LowerNot, Lowering
<1>2. /\ Left(Token) = 1 /\ Taken(Token) = 1 /\ Opens(Token) = 0
      /\ Len(edges) \in Nat /\ 1 <= Len(edges)
  BY <1>1, TokenFacts DEF Left, Taken, Opens
<1>3. GraphOK(golden) /\ EnvOK(env, EdgesOf(golden))
  BY DEF IInv, StacksOK
<1>4. e \in EdgesOf(golden)
  <2>1. Top(0) \in EdgesOf(golden)
    BY <1>1, <1>2, StackMore
  <2> QED  BY <2>1, NotEdge
<1> HIDE DEF e
<1>5. edges' \in Seq(EdgesOf(golden')) /\ Len(edges') = Len(edges)
  BY <1>1, <1>2, <1>4, StackMore
<1>6. ScopesOK'
  BY <1>1, ScopesMore
<1>7. /\ forks' \in Seq({forks'[i] : i \in DOMAIN forks'}) /\ Len(forks') = Len(forks)
      /\ \A i \in DOMAIN forks' : ForkOK(forks'[i], EdgesOf(golden'))
      /\ Len(forks) \in Nat
  BY <1>1, ForksMore
<1>8. Reads
  BY <1>1, <1>2, <1>3, <1>5, <1>6, <1>7 DEF Reads
<1> QED  BY <1>8, ReadsInv

LEMMA GateOK ==
  ASSUME GraphOK(golden), NEW f \in Operators,
         NEW l \in EdgesOf(golden), NEW r \in EdgesOf(golden)
  PROVE  Adds(Gate(f, l, r), golden)
<1>1. CASE f \in {"and", "product", "less"}
  <2>1. Gate(f, l, r) = AddAnd(golden, l, r)
    BY <1>1 DEF Gate
  <2> QED  BY <2>1, AddAndOK
<1>2. CASE f = "or"
  BY <1>2, AddOrOK DEF Gate
<1>3. CASE f = "xor"
  BY <1>3, AddXorOK DEF Gate
<1>4. CASE f = "eq"
  <2> DEFINE x == AddXor(golden, l, r)
  <2>1. Adds(x, golden)
    BY AddXorOK
  <2>2. x = [g |-> x.g, e |-> x.e]
    BY AddAndPair DEF AddXor, AddOr, Inverted, Same
  <2>3. Gate(f, l, r) = Inverted(x)
    BY <1>4 DEF Gate
  <2> HIDE DEF x
  <2> QED  BY <2>1, <2>2, <2>3, InvertedOK
<1> QED  BY <1>1, <1>2, <1>3, <1>4 DEF Operators

LEMMA LowerBinaryInv == ASSUME IInv, LowerBinary PROVE IInv'
<1> DEFINE r == Gate(Token.f, Top(1), Top(0))
<1>1. /\ phase = "lower" /\ pos <= Len(program.code) /\ Stay /\ Token.op = "bin"
      /\ UNCHANGED <<program, options, opt, reducing, placing, verified>>
      /\ golden' = r.g /\ edges' = Replace(2, r.e) /\ env' = env /\ forks' = forks
  BY DEF LowerBinary, Lowering
<1>2. /\ Left(Token) = 1 /\ Taken(Token) = 2 /\ Opens(Token) = 0
      /\ Len(edges) \in Nat /\ 2 <= Len(edges) /\ Token.f \in Operators
  BY <1>1, TokenFacts DEF Left, Taken, Opens, TokenTyped
<1>3. GraphOK(golden) /\ EnvOK(env, EdgesOf(golden)) /\ edges \in Seq(EdgesOf(golden))
  BY DEF IInv, StacksOK
<1>4. Adds(r, golden)
  <2>1. Top(0) \in EdgesOf(golden) /\ Top(1) \in EdgesOf(golden)
    BY <1>2, <1>3 DEF Top
  <2> QED  BY <1>2, <1>3, <2>1, GateOK
<1> HIDE DEF r
<1>5. /\ GraphOK(golden') /\ EdgesOf(golden) \subseteq EdgesOf(golden')
      /\ r.e \in EdgesOf(golden')
      /\ golden'.registers = golden.registers /\ golden'.inputs = golden.inputs
  BY <1>1, <1>3, <1>4, AddsMore DEF Adds, Extends
<1>6. edges' \in Seq(EdgesOf(golden')) /\ Len(edges') = Len(edges) - 1
  <2>1. \A e \in EdgesOf(golden') : /\ Replace(2, e) \in Seq(EdgesOf(golden'))
                                   /\ Len(Replace(2, e)) = Len(edges) + 1 - 2
    BY <1>2, <1>5, StackMore
  <2> QED  BY <1>1, <1>2, <1>5, <2>1
<1>7. ScopesOK'
  BY <1>1, <1>5, ScopesMore
<1>8. /\ forks' \in Seq({forks'[i] : i \in DOMAIN forks'}) /\ Len(forks') = Len(forks)
      /\ \A i \in DOMAIN forks' : ForkOK(forks'[i], EdgesOf(golden'))
      /\ Len(forks) \in Nat
  BY <1>1, <1>5, ForksMore
<1>9. EnvOK(env', EdgesOf(golden'))
  BY <1>1, <1>3, <1>5, EnvMore
<1>10. Reads
  BY <1>1, <1>2, <1>5, <1>6, <1>7, <1>8, <1>9 DEF Reads
<1> QED  BY <1>10, ReadsInv

LEMMA AssignInv == ASSUME IInv, Assign PROVE IInv'
<1>1. /\ phase = "lower" /\ pos <= Len(program.code) /\ Stay /\ Token.op = "assign"
      /\ UNCHANGED <<program, options, opt, reducing, placing, verified>>
      /\ edges' = SubSeq(edges, 1, Len(edges) - 1) /\ env' = Write(env, Token.name, Top(0))
      /\ forks' = forks /\ golden' = golden
  BY DEF Assign, Lowering
<1>2. /\ Left(Token) = 0 /\ Taken(Token) = 1 /\ Opens(Token) = 0
      /\ Len(edges) \in Nat /\ 1 <= Len(edges)
  BY <1>1, TokenFacts DEF Left, Taken, Opens
<1>3. GraphOK(golden) /\ EnvOK(env, EdgesOf(golden))
  BY DEF IInv, StacksOK
<1>4. /\ Top(0) \in EdgesOf(golden)
      /\ edges' \in Seq(EdgesOf(golden')) /\ Len(edges') = Len(edges) - 1
  <2>1. EdgesOf(golden) \subseteq EdgesOf(golden')
    BY <1>1
  <2>2. /\ SubSeq(edges, 1, Len(edges) - 1) \in Seq(EdgesOf(golden'))
        /\ Len(SubSeq(edges, 1, Len(edges) - 1)) = Len(edges) - 1
        /\ \A j \in 0 .. Len(edges) - 1 : Top(j) \in EdgesOf(golden)
    BY <1>2, <2>1, StackMore
  <2> QED  BY <1>1, <1>2, <2>2
<1>5. /\ EnvOK(env', EdgesOf(golden')) /\ DOMAIN env'.syms = DOMAIN env.syms \cup {Token.name}
  BY <1>1, <1>3, <1>4, WriteOK
<1>6. ScopesOK'
  BY <1>1, <1>5, ScopesMore
<1>7. /\ forks' \in Seq({forks'[i] : i \in DOMAIN forks'}) /\ Len(forks') = Len(forks)
      /\ \A i \in DOMAIN forks' : ForkOK(forks'[i], EdgesOf(golden'))
      /\ Len(forks) \in Nat
  BY <1>1, ForksMore
<1>8. Reads
  BY <1>1, <1>2, <1>3, <1>4, <1>5, <1>6, <1>7 DEF Reads
<1> QED  BY <1>8, ReadsInv

LEMMA BeginIfInv == ASSUME IInv, BeginIf PROVE IInv'
<1> DEFINE f == [cond |-> Top(0), outer |-> env, then |-> NoEnv]
<1>1. /\ phase = "lower" /\ pos <= Len(program.code) /\ Stay /\ Token.op = "if"
      /\ UNCHANGED <<program, options, opt, reducing, placing, verified>>
      /\ forks' = Append(forks, f) /\ edges' = SubSeq(edges, 1, Len(edges) - 1)
      /\ env' = Fork(env) /\ golden' = golden
  BY DEF BeginIf, Lowering
<1>2. /\ Left(Token) = 0 /\ Taken(Token) = 1 /\ Opens(Token) = 1
      /\ Len(edges) \in Nat /\ 1 <= Len(edges)
  BY <1>1, TokenFacts DEF Left, Taken, Opens
<1>3. GraphOK(golden) /\ EnvOK(env, EdgesOf(golden))
  BY DEF IInv, StacksOK
<1>4. /\ Top(0) \in EdgesOf(golden)
      /\ edges' \in Seq(EdgesOf(golden')) /\ Len(edges') = Len(edges) - 1
  <2>1. EdgesOf(golden) \subseteq EdgesOf(golden')
    BY <1>1
  <2>2. /\ SubSeq(edges, 1, Len(edges) - 1) \in Seq(EdgesOf(golden'))
        /\ Len(SubSeq(edges, 1, Len(edges) - 1)) = Len(edges) - 1
        /\ \A j \in 0 .. Len(edges) - 1 : Top(j) \in EdgesOf(golden)
    BY <1>2, <2>1, StackMore
  <2> QED  BY <1>1, <1>2, <2>2
<1>5. ForkOK(f, EdgesOf(golden)) /\ f.outer = env
  BY <1>3, <1>4, NoEnvOK DEF ForkOK
<1>6. EnvOK(env', EdgesOf(golden')) /\ env'.syms = env.syms
  BY <1>1, <1>3, ForkedOK
<1> HIDE DEF f
<1>7. /\ forks' \in Seq({forks'[i] : i \in DOMAIN forks'}) /\ Len(forks') = Len(forks) + 1
      /\ \A i \in DOMAIN forks' : (i \in DOMAIN forks /\ forks'[i] = forks[i]) \/ forks'[i] = f
  <2> DEFINE S == {forks[i] : i \in DOMAIN forks} \cup {f}
  <2>1. forks \in Seq(S) /\ f \in S
    <3>1. {forks[i] : i \in DOMAIN forks} \subseteq S /\ f \in S
      OBVIOUS
    <3>2. forks \in Seq({forks[i] : i \in DOMAIN forks})
      BY DEF IInv, StacksOK
    <3> HIDE DEF S
    <3> QED  BY <3>1, <3>2
  <2> HIDE DEF S
  <2>2. forks' \in Seq(S)
    BY <1>1, <2>1
  <2>3. forks' \in Seq({forks'[i] : i \in DOMAIN forks'})
    BY <2>2, SeqOfElements
  <2> QED  BY <1>1, <2>1, <2>3
<1>8. \A i \in DOMAIN forks' : ForkOK(forks'[i], EdgesOf(golden'))
  BY <1>1, <1>5, <1>7 DEF IInv, StacksOK
<1>9. ScopesOK'
  BY <1>1, <1>5, <1>6, <1>7 DEF IInv, ScopesOK
<1>10. Reads
  BY <1>1, <1>2, <1>3, <1>4, <1>6, <1>7, <1>8, <1>9 DEF Reads
<1> QED  BY <1>10, ReadsInv

LEMMA ElseInv == ASSUME IInv, Else PROVE IInv'
<1> DEFINE k == Len(forks)
<1>1. /\ phase = "lower" /\ pos <= Len(program.code) /\ Stay /\ Token.op = "else"
      /\ UNCHANGED <<program, options, opt, reducing, placing, verified>>
      /\ forks' = [forks EXCEPT ![k].then = env]
      /\ env' = Fork(forks[k].outer) /\ edges' = edges /\ golden' = golden
  BY DEF Else, Lowering
<1>2. /\ Left(Token) = 0 /\ Taken(Token) = 0 /\ Opens(Token) = 0
      /\ Len(edges) \in Nat /\ Len(forks) \in Nat /\ 0 < Len(forks)
  BY <1>1, TokenFacts DEF Left, Taken, Opens
<1>3. /\ GraphOK(golden) /\ EnvOK(env, EdgesOf(golden)) /\ edges \in Seq(EdgesOf(golden))
      /\ forks \in Seq({forks[i] : i \in DOMAIN forks})
      /\ \A i \in DOMAIN forks : ForkOK(forks[i], EdgesOf(golden))
  BY DEF IInv, StacksOK
<1>4. /\ k \in DOMAIN forks /\ DOMAIN forks = 1 .. Len(forks)
      /\ forks = [i \in 1 .. Len(forks) |-> forks[i]]
  BY <1>2, <1>3
<1>5. /\ forks' = [i \in 1 .. Len(forks) |-> IF i = k THEN [forks[k] EXCEPT !.then = env]
                                             ELSE forks[i]]
  BY <1>1, <1>4
<1>6. ForkOK(forks[k], EdgesOf(golden))
  BY <1>3, <1>4
<1> DEFINE f == [forks[k] EXCEPT !.then = env]
<1>7. ForkOK(f, EdgesOf(golden)) /\ f.outer = forks[k].outer
  <2>1. /\ f.cond = forks[k].cond /\ f.outer = forks[k].outer /\ f.then = env
        /\ f = [cond |-> f.cond, outer |-> f.outer, then |-> f.then]
    BY <1>6 DEF ForkOK
  <2> HIDE DEF f
  <2> QED  BY <1>3, <1>6, <2>1 DEF ForkOK
<1> HIDE DEF f
<1>8. /\ DOMAIN forks' = 1 .. Len(forks) /\ forks'[k] = f
      /\ \A i \in 1 .. Len(forks) : i # k => forks'[i] = forks[i]
  BY <1>4, <1>5 DEF f
<1>9. /\ forks' \in Seq({forks'[i] : i \in DOMAIN forks'}) /\ Len(forks') = Len(forks)
  <2>1. forks' \in [1 .. Len(forks) -> {forks'[i] : i \in DOMAIN forks'}]
    BY <1>5, <1>8
  <2> QED  BY <1>2, <2>1
<1>10. \A i \in DOMAIN forks' : ForkOK(forks'[i], EdgesOf(golden'))
  BY <1>1, <1>3, <1>4, <1>7, <1>8
<1>11. EnvOK(env', EdgesOf(golden')) /\ env'.syms = forks[k].outer.syms
  BY <1>1, <1>6, ForkedOK DEF ForkOK
<1>12. ScopesOK'
  BY <1>1, <1>4, <1>7, <1>8, <1>11 DEF IInv, ScopesOK
<1>13. Reads
  <2>1. Len(forks') = Len(forks) + Opens(Token) /\ Len(edges') = Len(edges) + Left(Token) - Taken(Token)
    BY <1>1, <1>2, <1>9
  <2>2. edges' \in Seq(EdgesOf(golden')) /\ EdgesOf(golden) \subseteq EdgesOf(golden') /\ GraphOK(golden')
    BY <1>1, <1>3
  <2> HIDE DEF k
  <2> QED  BY <1>1, <1>9, <1>10, <1>11, <1>12, <2>1, <2>2 DEF Reads
<1> QED  BY <1>13, ReadsInv

LEMMA FrontOf ==
  ASSUME NEW S, NEW s \in Seq(S), 0 < Len(s)
  PROVE  LET front == SubSeq(s, 1, Len(s) - 1)
         IN  /\ front \in Seq(S) /\ Len(front) = Len(s) - 1
             /\ \A i \in 1 .. Len(s) - 1 : front[i] = s[i]
<1> DEFINE n == Len(s) - 1
           front == SubSeq(s, 1, n)
<1>1. n \in Int /\ 0 <= n /\ \A i \in 1 .. n : s[i] \in S
  OBVIOUS
<1> HIDE DEF n
<1>2. /\ front \in Seq(S) /\ Len(front) = IF 1 <= n THEN n - 1 + 1 ELSE 0
      /\ \A i \in 1 .. n - 1 + 1 : front[i] = s[1 + i - 1]
  BY <1>1, SubSeqProperties
<1>3. \A i \in 1 .. n : 1 + i - 1 = i /\ i \in 1 .. n - 1 + 1
  BY <1>1
<1> HIDE DEF front
<1>4. front \in Seq(S) /\ Len(front) = n /\ \A i \in 1 .. n : front[i] = s[i]
  BY <1>1, <1>2, <1>3
<1> QED  BY <1>4 DEF n, front

LEMMA EndIfInv == ASSUME IInv, EndIf PROVE IInv'
<1> DEFINE k == Len(forks)
           f == forks[k]
           S == f.then.written \cup env.written
<1>1. PICK names \in OrdersOf(S) :
        /\ golden' = Merge(f, env, names).g /\ env' = Merge(f, env, names).env
  BY DEF EndIf
<1>2. /\ phase = "lower" /\ pos <= Len(program.code) /\ Stay /\ Token.op = "end"
      /\ UNCHANGED <<program, options, opt, reducing, placing, verified>>
      /\ forks' = SubSeq(forks, 1, Len(forks) - 1) /\ edges' = edges
  BY DEF EndIf, Lowering
<1>3. /\ Left(Token) = 0 /\ Taken(Token) = 0 /\ Opens(Token) = -1
      /\ Len(edges) \in Nat /\ Len(forks) \in Nat /\ 0 < Len(forks)
  BY <1>2, TokenFacts DEF Left, Taken, Opens
<1>4. /\ GraphOK(golden) /\ EnvOK(env, EdgesOf(golden)) /\ edges \in Seq(EdgesOf(golden))
      /\ forks \in Seq({forks[i] : i \in DOMAIN forks})
      /\ \A i \in DOMAIN forks : ForkOK(forks[i], EdgesOf(golden))
      /\ k \in DOMAIN forks
  BY <1>3 DEF IInv, StacksOK
<1>5. ForkOK(f, EdgesOf(golden))
  BY <1>4
<1>6. IsFiniteSet(S)
  BY <1>4, <1>5, FS_Union DEF EnvOK, ForkOK
<1>7. Len(names) \in Nat
  <2>1. Cardinality(S) \in Nat
    BY <1>6, FS_CardinalityType
  <2> HIDE DEF S
  <2>2. names \in [1 .. Cardinality(S) -> S]
    BY DEF OrdersOf
  <2>3. names \in Seq(S)
    BY <2>1, <2>2
  <2> QED  BY <2>3
<1> DEFINE m == Merge(f, env, names)
<1>8. MergedOK(f, m)
  BY <1>4, <1>5, <1>7, MergeOK
<1> HIDE DEF m, f
<1>9. /\ GraphOK(golden') /\ EnvOK(env', EdgesOf(golden')) /\ Extends(golden', golden)
      /\ DOMAIN f.outer.syms \subseteq DOMAIN env'.syms
  BY <1>1, <1>8 DEF MergedOK, m
<1>10. /\ EdgesOf(golden) \subseteq EdgesOf(golden')
       /\ golden'.inputs = golden.inputs /\ golden'.registers = golden.registers
  BY <1>4, <1>9, ExtendsEdges DEF GraphOK, Extends
<1>11. edges' \in Seq(EdgesOf(golden')) /\ Len(edges') = Len(edges)
  <2> DEFINE E == EdgesOf(golden)
             F == EdgesOf(golden')
  <2>1. E \subseteq F /\ edges \in Seq(E)
    BY <1>4, <1>10
  <2> HIDE DEF E, F
  <2>2. edges' \in Seq(F) /\ Len(edges') = Len(edges)
    BY <1>2, <2>1
  <2> QED  BY <2>2 DEF F
<1>12. /\ forks' \in Seq({forks[i] : i \in DOMAIN forks}) /\ Len(forks') = Len(forks) - 1
       /\ \A i \in DOMAIN forks' : i \in DOMAIN forks /\ forks'[i] = forks[i]
  <2> DEFINE T == {forks[i] : i \in DOMAIN forks}
  <2>1. forks \in Seq(T)
    BY <1>4
  <2> HIDE DEF T
  <2>2. /\ forks' \in Seq(T) /\ Len(forks') = Len(forks) - 1
        /\ \A i \in DOMAIN forks' : i \in DOMAIN forks /\ forks'[i] = forks[i]
    <3> DEFINE front == SubSeq(forks, 1, Len(forks) - 1)
    <3>1. front \in Seq(T) /\ Len(front) = Len(forks) - 1
      BY <1>3, <2>1, FrontOf
    <3>2. \A i \in 1 .. Len(forks) - 1 : front[i] = forks[i]
      BY <1>3, <2>1, FrontOf
    <3>3. \A i \in 1 .. Len(forks) - 1 : i \in DOMAIN forks
      BY <1>3, <2>1
    <3>4. DOMAIN front = 1 .. Len(forks) - 1
      BY <3>1
    <3>5. forks' = front
      BY <1>2
    <3> HIDE DEF front
    <3> QED  BY <3>1, <3>2, <3>3, <3>4, <3>5
  <2> QED  BY <2>2 DEF T
<1>13. forks' \in Seq({forks'[i] : i \in DOMAIN forks'})
  BY <1>12, SeqOfElements
<1>14. \A i \in DOMAIN forks' : ForkOK(forks'[i], EdgesOf(golden'))
  BY <1>4, <1>10, <1>12, EnvMore DEF ForkOK
<1>15. ScopesOK'
  <2>1. RegNames(golden) \subseteq DOMAIN f.outer.syms
    BY <1>4 DEF IInv, ScopesOK, f
  <2> QED  BY <1>9, <1>10, <1>12, <2>1 DEF IInv, ScopesOK, NamesApart, RegNames
<1>16. Reads
  BY <1>2, <1>3, <1>9, <1>10, <1>11, <1>12, <1>13, <1>14, <1>15 DEF Reads
<1> QED  BY <1>16, ReadsInv

-----------------------------------------------------------------------------
(* Sources by name, and graphs that differ in their roots.                 *)

LEMMA ByNameIs ==
  ASSUME NEW g, GraphOK(g), NEW named
  PROVE  /\ \A i \in DOMAIN g.inputs :
               ByName(g, named)[g.inputs[i].node] = named[g.inputs[i].name]
         /\ \A i \in DOMAIN g.registers :
               ByName(g, named)[g.registers[i].q] = named[g.registers[i].name]
         /\ ByName(g, named) = [n \in Sources(g) |-> ByName(g, named)[n]]
<1> DEFINE in(n) == CHOOSE i \in DOMAIN g.inputs : g.inputs[i].node = n
           reg(n) == CHOOSE i \in DOMAIN g.registers : g.registers[i].q = n
           b == ByName(g, named)
<1>1. b = [n \in Sources(g) |->
             IF \E i \in DOMAIN g.inputs : g.inputs[i].node = n
             THEN named[g.inputs[in(n)].name] ELSE named[g.registers[reg(n)].name]]
  BY DEF ByName
<1>2. ASSUME NEW i \in DOMAIN g.inputs
      PROVE  g.inputs[i].node \in Sources(g) /\ in(g.inputs[i].node) = i
  BY DEF GraphOK, SourcesOK
<1>3. ASSUME NEW i \in DOMAIN g.registers
      PROVE  /\ g.registers[i].q \in Sources(g) /\ reg(g.registers[i].q) = i
             /\ ~ \E j \in DOMAIN g.inputs : g.inputs[j].node = g.registers[i].q
  BY DEF GraphOK, SourcesOK
<1> HIDE DEF b, in, reg
<1>4. \A i \in DOMAIN g.inputs : b[g.inputs[i].node] = named[g.inputs[i].name]
  BY <1>1, <1>2
<1>5. \A i \in DOMAIN g.registers : b[g.registers[i].q] = named[g.registers[i].name]
  BY <1>1, <1>3
<1>6. b = [n \in Sources(g) |-> b[n]]
  BY <1>1
<1> QED  BY <1>4, <1>5, <1>6 DEF b

LEMMA ByNameTyped ==
  ASSUME NEW g, GraphOK(g), NEW N, NEW named \in [N -> BOOLEAN],
         \A i \in DOMAIN g.inputs : g.inputs[i].name \in N,
         \A i \in DOMAIN g.registers : g.registers[i].name \in N
  PROVE  ByName(g, named) \in [Sources(g) -> BOOLEAN]
<1>1. ASSUME NEW n \in Sources(g) PROVE ByName(g, named)[n] \in BOOLEAN
  <2>1. CASE \E i \in DOMAIN g.inputs : g.inputs[i].node = n
    BY <2>1, ByNameIs
  <2>2. CASE \E i \in DOMAIN g.registers : g.registers[i].q = n
    BY <2>2, ByNameIs
  <2> QED  BY <2>1, <2>2 DEF GraphOK, SourcesOK
<1> QED  BY <1>1, ByNameIs

LEMMA SourceValue ==
  ASSUME NEW g, GraphOK(g), NEW sv \in [Sources(g) -> BOOLEAN], NEW n \in Sources(g)
  PROVE  NodeValues(g, sv)[n] = sv[n]
<1>1. Len(g.nodes) \in Nat
  BY LenNodes DEF GraphOK
<1>2. n \in 0 .. Len(g.nodes) /\ n # 0 /\ ~IsAnd(g, n)
  BY <1>1 DEF Sources
<1>3. NodeValues(g, sv)[n] = ValueAt(g, sv, NodeValues(g, sv), n)
  BY <1>2, NodeValuesAre DEF IsValues
<1> QED  BY <1>2, <1>3 DEF ValueAt

(* h is g with other roots.                                                *)
SameButRoots(h, g) ==
  /\ h = [nodes |-> g.nodes, inputs |-> g.inputs, registers |-> h.registers,
          outputs |-> h.outputs, hash |-> g.hash]
  /\ h.registers = [i \in DOMAIN g.registers |->
                      [name |-> g.registers[i].name, q |-> g.registers[i].q,
                       d |-> h.registers[i].d]]
  /\ \A i \in DOMAIN g.registers : h.registers[i].d \in EdgesOf(g)
  /\ \A n \in DOMAIN h.outputs : h.outputs[n] \in EdgesOf(g)

LEMMA ReRooted ==
  ASSUME NEW g, GraphOK(g), NEW h, SameButRoots(h, g)
  PROVE  /\ GraphOK(h) /\ EdgesOf(h) = EdgesOf(g) /\ Sources(h) = Sources(g)
         /\ DOMAIN h.registers = DOMAIN g.registers
         /\ \A i \in DOMAIN g.registers : /\ h.registers[i].name = g.registers[i].name
                                          /\ h.registers[i].q = g.registers[i].q
         /\ \A sv : NodeValues(h, sv) = NodeValues(g, sv)
         /\ \A named : ByName(h, named) = ByName(g, named)
<1> USE DEF SameButRoots
<1>1. /\ h.nodes = g.nodes /\ h.inputs = g.inputs /\ h.hash = g.hash
      /\ h = [nodes |-> h.nodes, inputs |-> h.inputs, registers |-> h.registers,
              outputs |-> h.outputs, hash |-> h.hash]
  OBVIOUS
<1>2. /\ DOMAIN h.registers = DOMAIN g.registers
      /\ \A i \in DOMAIN g.registers :
            h.registers[i] = [name |-> g.registers[i].name, q |-> g.registers[i].q,
                              d |-> h.registers[i].d]
  OBVIOUS
<1>3. \A i \in DOMAIN g.registers : /\ h.registers[i].name = g.registers[i].name
                                    /\ h.registers[i].q = g.registers[i].q
  BY <1>2
<1>4. EdgesOf(h) = EdgesOf(g) /\ Sources(h) = Sources(g)
  BY <1>1 DEF EdgesOf, NodeIds, Sources, IsAnd
<1>5. ArenaOK(h)
  BY <1>1 DEF GraphOK, ArenaOK, Acyclic, Folded, HashAgrees, IsAnd
<1>6. GraphTyped(h)
  <2> DEFINE Regs == [name : STRING, q : Nat, d : EdgeSet]
  <2>1. g.registers \in Seq(Regs)
    BY DEF GraphOK, GraphTyped
  <2>2. EdgesOf(g) \subseteq EdgeSet
    BY LenNodes DEF GraphOK, EdgesOf, NodeIds, EdgeSet
  <2>3. \A i \in DOMAIN g.registers :
           [name |-> g.registers[i].name, q |-> g.registers[i].q, d |-> h.registers[i].d] \in Regs
    <3>1. \A i \in DOMAIN g.registers : g.registers[i] \in Regs
      <4> HIDE DEF Regs
      <4> QED  BY <2>1
    <3>2. \A i \in DOMAIN g.registers : h.registers[i].d \in EdgeSet
      BY <2>2
    <3> QED  BY <3>1, <3>2
  <2>4. \A i \in DOMAIN g.registers : h.registers[i] \in Regs
    BY <1>2, <2>3
  <2>5. Len(g.registers) \in Nat /\ DOMAIN g.registers = 1 .. Len(g.registers)
    BY <2>1
  <2>6. h.registers \in Seq(Regs)
    <3> HIDE DEF Regs
    <3>1. h.registers = [i \in 1 .. Len(g.registers) |-> h.registers[i]]
      BY <2>5
    <3> QED  BY ONLY <2>4, <2>5, <3>1
  <2> QED  BY <1>1, <2>6 DEF GraphTyped, GraphOK
<1>7. SourcesOK(h) /\ RootsOK(h)
  <2>1. SourcesOK(h)
    <3> DEFINE D == DOMAIN g.registers
    <3>1. DOMAIN h.registers = D /\ \A i \in D : h.registers[i].q = g.registers[i].q
      BY <1>2, <1>3
    <3>2. SourcesOK(g)
      BY DEF GraphOK
    <3> HIDE DEF D
    <3>3. /\ \A i \in DOMAIN h.inputs : h.inputs[i].node \in Sources(h)
          /\ \A i, j \in DOMAIN h.inputs : h.inputs[i].node = h.inputs[j].node => i = j
      BY <1>1, <1>4, <3>2 DEF SourcesOK
    <3>4. /\ \A i \in D : h.registers[i].q \in Sources(h)
          /\ \A i, j \in D : h.registers[i].q = h.registers[j].q => i = j
      BY <1>4, <3>1, <3>2 DEF SourcesOK, D
    <3>5. \A i \in DOMAIN h.inputs, j \in D : h.inputs[i].node # h.registers[j].q
      BY <1>1, <3>1, <3>2 DEF SourcesOK, D
    <3>6. \A n \in Sources(h) :
            \/ \E i \in DOMAIN h.inputs : h.inputs[i].node = n
            \/ \E i \in D : h.registers[i].q = n
      BY <1>1, <1>4, <3>1, <3>2 DEF SourcesOK, D
    <3> QED  BY <3>1, <3>3, <3>4, <3>5, <3>6 DEF SourcesOK
  <2>2. RootsOK(h)
    BY <1>2, <1>4 DEF RootsOK
  <2> QED  BY <2>1, <2>2
<1>8. GraphOK(h)
  BY <1>5, <1>6, <1>7 DEF GraphOK
<1>9. \A sv : NodeValues(h, sv) = NodeValues(g, sv)
  BY <1>1 DEF NodeValues, NodeIds, IsAnd
<1>10. ASSUME NEW named PROVE ByName(h, named) = ByName(g, named)
  <2>1. ASSUME NEW n \in Sources(g) PROVE ByName(h, named)[n] = ByName(g, named)[n]
    <3>1. CASE \E i \in DOMAIN g.inputs : g.inputs[i].node = n
      BY <3>1, <1>1, <1>8, ByNameIs
    <3>2. CASE \E i \in DOMAIN g.registers : g.registers[i].q = n
      <4>1. PICK i \in DOMAIN g.registers : g.registers[i].q = n
        BY <3>2
      <4>2. ByName(g, named)[n] = named[g.registers[i].name]
        BY <4>1, ByNameIs
      <4>3. ByName(h, named)[h.registers[i].q] = named[h.registers[i].name]
        BY <4>1, <1>2, <1>8, ByNameIs
      <4> QED  BY <4>1, <4>2, <4>3, <1>3
    <3> QED  BY <3>1, <3>2 DEF GraphOK, SourcesOK
  <2>2. /\ ByName(g, named) = [n \in Sources(g) |-> ByName(g, named)[n]]
        /\ ByName(h, named) = [n \in Sources(g) |-> ByName(h, named)[n]]
    BY <1>4, <1>8, ByNameIs
  <2> QED  BY <2>1, <2>2
<1> QED  BY <1>2, <1>3, <1>4, <1>8, <1>9, <1>10

-----------------------------------------------------------------------------
(* The steps that finish the lowering and reduce the graph.                *)

LEMMA FinalizeInv == ASSUME IInv, Finalize PROVE IInv'
<1> DEFINE outs == {n \in DOMAIN env.syms : env.syms[n].role = "output"}
           NextEdge(i) == ValueOf(env, golden.registers[i].name)
<1>1. /\ phase = "lower" /\ pos' = 1
      /\ golden' = [golden EXCEPT
           !.registers = [i \in DOMAIN @ |-> [@[i] EXCEPT !.d = NextEdge(i)]],
           !.outputs = [n \in outs |-> env.syms[n].val]]
      /\ \/ phase' = "simulate" /\ opt' = opt
         \/ phase' = "map" /\ opt' = golden'
      /\ UNCHANGED <<program, options, edges, env, forks, reducing, placing, verified>>
  BY DEF Finalize, GoTo, lowering
<1>2. /\ GraphOK(golden) /\ EnvOK(env, EdgesOf(golden)) /\ edges \in Seq(EdgesOf(golden))
      /\ golden.registers \in Seq([name : STRING, q : Nat, d : EdgeSet])
  BY DEF IInv, StacksOK, GraphOK, GraphTyped
<1> DEFINE regs == [i \in DOMAIN golden.registers |-> [golden.registers[i] EXCEPT !.d = NextEdge(i)]]
<1>3. golden' = [nodes |-> golden.nodes, inputs |-> golden.inputs, registers |-> regs,
                 outputs |-> [n \in outs |-> env.syms[n].val], hash |-> golden.hash]
  BY <1>1, <1>2 DEF GraphOK, GraphTyped
<1>4. \A i \in DOMAIN golden.registers :
         /\ regs[i] = [name |-> golden.registers[i].name, q |-> golden.registers[i].q,
                       d |-> NextEdge(i)]
         /\ regs[i].d = NextEdge(i)
  <2>1. \A i \in DOMAIN golden.registers :
           golden.registers[i] \in [name : STRING, q : Nat, d : EdgeSet]
    <3> DEFINE Regs == [name : STRING, q : Nat, d : EdgeSet]
    <3>1. golden.registers \in Seq(Regs)
      BY <1>2
    <3> HIDE DEF Regs
    <3>2. \A i \in DOMAIN golden.registers : golden.registers[i] \in Regs
      BY <3>1
    <3> QED  BY <3>2 DEF Regs
  <2> QED  BY <2>1
<1>5. \A i \in DOMAIN golden.registers : NextEdge(i) \in EdgesOf(golden)
  BY <1>2, ValueOfOK
<1> HIDE DEF Next
<1>6. golden'.registers = [i \in DOMAIN golden.registers |->
                             [name |-> golden.registers[i].name, q |-> golden.registers[i].q,
                              d |-> golden'.registers[i].d]]
  BY <1>3, <1>4
<1>7. /\ \A i \in DOMAIN golden.registers : golden'.registers[i].d = NextEdge(i)
      /\ DOMAIN golden'.registers = DOMAIN golden.registers
  BY <1>3, <1>4
<1>8. \A n \in DOMAIN golden'.outputs : golden'.outputs[n] \in EdgesOf(golden)
  BY <1>2, <1>3 DEF EnvOK
<1>9. golden' = [nodes |-> golden.nodes, inputs |-> golden.inputs,
                 registers |-> golden'.registers, outputs |-> golden'.outputs,
                 hash |-> golden.hash]
  BY <1>3
<1>10. /\ GraphOK(golden') /\ EdgesOf(golden') = EdgesOf(golden)
       /\ \A i \in DOMAIN golden.registers :
             golden'.registers[i].name = golden.registers[i].name
  <2>1. SameButRoots(golden', golden)
    BY <1>5, <1>6, <1>7, <1>8, <1>9 DEF SameButRoots
  <2> QED  BY <1>2, <2>1, ReRooted
<1>11. program' \in Programs /\ options' \in Options /\ phase' \in Phases /\ pos' \in Nat
       /\ 0 < pos' /\ verified' \in {"no", "yes", "mismatch"} /\ GraphOK(opt')
  BY <1>1, <1>10 DEF IInv, Phases
<1>12. \A n \in DOMAIN mapping' : mapping'[n] \in EdgesOf(opt')
  BY <1>1 DEF IInv, ReplOK, reducing
<1>13. StacksOK'
  BY <1>1, <1>10 DEF IInv, StacksOK
<1>14. ScopesOK'
  <2>1. golden'.inputs = golden.inputs
    BY <1>9
  <2>2. NamesApart(golden')
    BY <1>7, <1>10, <2>1 DEF IInv, ScopesOK, NamesApart
  <2>3. RegNames(golden') = RegNames(golden)
    BY <1>7, <1>10 DEF RegNames
  <2> QED  BY <1>1, <2>2, <2>3 DEF IInv, ScopesOK
<1>15. NextsOK'
  BY <1>7, <1>10 DEF NextsOK, Next
<1>16. ReplOK' /\ RebuildOK'
  BY <1>1 DEF IInv, ReplOK, RebuildOK, reducing
<1>17. ReducedOK'
  BY <1>1 DEF ReducedOK, Reduced, Mirror, ReductionKeepsFunctions
<1> QED  BY <1>10, <1>11, <1>12, <1>13, <1>14, <1>15, <1>16, <1>17 DEF IInv


(* The steps after the lowering leave the lowered graph as it is.          *)
LEMMA LoweredKept ==
  ASSUME IInv, UNCHANGED <<program, options, lowering, golden>>,
         phase \notin {"registers", "lower"}, phase' \notin {"registers", "lower"}
  PROVE  /\ program' \in Programs /\ options' \in Options /\ GraphOK(golden')
         /\ StacksOK' /\ ScopesOK' /\ NextsOK'
<1>1. StacksOK'
  BY DEF IInv, StacksOK, lowering
<1>2. ScopesOK'
  BY DEF IInv, ScopesOK, lowering
<1>3. NextsOK'
  BY DEF IInv, NextsOK
<1> QED  BY <1>1, <1>2, <1>3 DEF IInv

LEMMA SimulateInv == ASSUME IInv, Simulate PROVE IInv'
<1>1. /\ phase = "simulate" /\ phase' = "classify" /\ pos' = 1
      /\ UNCHANGED <<program, options, lowering, golden, opt, leaders, repl, mapping, placing,
                     verified>>
  BY DEF Simulate, GoTo
<1>2. /\ program' \in Programs /\ options' \in Options /\ GraphOK(golden')
      /\ StacksOK' /\ ScopesOK' /\ NextsOK'
  BY <1>1, LoweredKept
<1>3. ReplOK' /\ RebuildOK' /\ ReducedOK'
  BY <1>1 DEF IInv, ReplOK, RebuildOK, ReducedOK, Reduced
<1>4. /\ phase' \in Phases /\ pos' \in Nat /\ 0 < pos' /\ verified' \in {"no", "yes", "mismatch"}
      /\ GraphOK(opt') /\ \A n \in DOMAIN mapping' : mapping'[n] \in EdgesOf(opt')
  BY <1>1 DEF IInv, Phases
<1> QED  BY <1>2, <1>3, <1>4 DEF IInv

LEMMA ClassifyInv == ASSUME IInv, Classify PROVE IInv'
<1> DEFINE s == Signature(pos)
           inv == IsInverted(pos)
<1>1. /\ phase = "classify" /\ phase' = "classify" /\ pos' = pos + 1
      /\ pos <= Len(golden.nodes)
      /\ UNCHANGED <<program, options, lowering, golden, opt, draw, mapping, placing, verified>>
      /\ \/ /\ s \in DOMAIN leaders /\ ProvedEqual(pos, leaders[s], inv)
            /\ repl' = Put(repl, pos, Edge(leaders[s], inv)) /\ leaders' = leaders
         \/ leaders' = Put(leaders, s, pos) /\ repl' = repl
  BY DEF Classify, Stay
<1> HIDE DEF s
<1>2. /\ program' \in Programs /\ options' \in Options /\ GraphOK(golden')
      /\ StacksOK' /\ ScopesOK' /\ NextsOK'
  BY <1>1, LoweredKept
<1>3. RebuildOK' /\ ReducedOK'
  BY <1>1 DEF RebuildOK, ReducedOK, Reduced
<1>4. /\ phase' \in Phases /\ pos' \in Nat /\ 0 < pos' /\ verified' \in {"no", "yes", "mismatch"}
      /\ GraphOK(opt') /\ \A n \in DOMAIN mapping' : mapping'[n] \in EdgesOf(opt')
      /\ pos \in Nat /\ 0 < pos
  BY <1>1 DEF IInv, Phases
<1>5. /\ \A t \in DOMAIN leaders : leaders[t] \in Nat /\ 0 < leaders[t] /\ leaders[t] < pos
      /\ \A n \in DOMAIN repl :
            /\ repl[n] \in EdgeSet /\ repl[n].node < n
            /\ \A v \in [Sources(golden) -> BOOLEAN] :
                  NodeValues(golden, v)[n] = Val(golden, v, repl[n])
      /\ DOMAIN mapping = {}
  BY <1>1 DEF IInv, ReplOK
<1>6. CASE /\ s \in DOMAIN leaders /\ ProvedEqual(pos, leaders[s], inv)
           /\ repl' = Put(repl, pos, Edge(leaders[s], inv)) /\ leaders' = leaders
  <2> DEFINE e == Edge(leaders[s], inv)
  <2>1. e \in EdgeSet /\ e.node < pos /\ e.node = leaders[s] /\ e.inv = inv
    BY <1>5, <1>6 DEF Edge, EdgeSet, IsInverted
  <2>2. \A v \in [Sources(golden) -> BOOLEAN] : NodeValues(golden, v)[pos] = Val(golden, v, e)
    BY <1>6, <2>1 DEF ProvedEqual, Val, EdgeValue
  <2>3. /\ DOMAIN repl' = DOMAIN repl \cup {pos}
        /\ \A n \in DOMAIN repl' : repl'[n] = IF n = pos THEN e ELSE repl[n]
    BY <1>6 DEF Put
  <2> HIDE DEF e
  <2>4. ASSUME NEW n \in DOMAIN repl'
        PROVE  /\ repl'[n] \in EdgeSet /\ repl'[n].node < n
               /\ \A v \in [Sources(golden) -> BOOLEAN] :
                     NodeValues(golden, v)[n] = Val(golden, v, repl'[n])
    <3>1. CASE n = pos
      BY <3>1, <2>1, <2>2, <2>3
    <3>2. CASE n # pos
      BY <3>2, <1>5, <2>3
    <3> QED  BY <3>1, <3>2
  <2>5. \A t \in DOMAIN leaders' : leaders'[t] \in Nat /\ 0 < leaders'[t] /\ leaders'[t] < pos'
    BY <1>1, <1>4, <1>5, <1>6
  <2>6. ReplOK'
    BY <1>1, <1>5, <2>4, <2>5 DEF ReplOK
  <2> QED  BY <1>2, <1>3, <1>4, <2>6 DEF IInv
<1>7. CASE leaders' = Put(leaders, s, pos) /\ repl' = repl
  <2>1. /\ DOMAIN leaders' = DOMAIN leaders \cup {s}
        /\ \A t \in DOMAIN leaders' : leaders'[t] = IF t = s THEN pos ELSE leaders[t]
    BY <1>7 DEF Put
  <2>2. \A t \in DOMAIN leaders' : leaders'[t] \in Nat /\ 0 < leaders'[t] /\ leaders'[t] < pos'
    BY <1>1, <1>4, <1>5, <2>1
  <2>3. ReplOK'
    BY <1>1, <1>5, <1>7, <2>2 DEF ReplOK
  <2> QED  BY <1>2, <1>3, <1>4, <2>3 DEF IInv
<1> QED  BY <1>1, <1>6, <1>7

(* The values of the lowered graph's sources, by their names, are values of
   its sources; and those of a graph that mirrors it.                      *)
LEMMA NamedTyped ==
  ASSUME IInv, NEW g, GraphOK(g), g = golden \/ Mirror(g, golden), NEW named \in Valuations
  PROVE  ByName(g, named) \in [Sources(g) -> BOOLEAN]
<1>1. /\ \A i \in DOMAIN g.inputs : g.inputs[i].name \in SourceNames
      /\ \A i \in DOMAIN g.registers : g.registers[i].name \in SourceNames
  BY DEF Mirror, SourceNames
<1> QED  BY <1>1, ByNameTyped DEF Valuations

(* The graph that holds only sources, inputs before registers.             *)
SourceGraph(g) ==
  [EmptyGraph EXCEPT
     !.nodes = [i \in 1 .. Len(g.inputs) + Len(g.registers) |-> <<>>],
     !.inputs = [i \in DOMAIN g.inputs |-> [g.inputs[i] EXCEPT !.node = i]],
     !.registers = [i \in DOMAIN g.registers |->
                      [name |-> g.registers[i].name, q |-> Len(g.inputs) + i, d |-> ZERO]]]

SourcesCopied(h, g) ==
  /\ GraphOK(h) /\ Mirror(h, g) /\ h.outputs = EmptyGraph.outputs
  /\ Len(g.inputs) \in Nat /\ DOMAIN g.inputs = 1 .. Len(g.inputs)
  /\ DOMAIN g.registers = 1 .. Len(g.registers) /\ Len(g.registers) \in Nat
  /\ Sources(h) = 1 .. Len(g.inputs) + Len(g.registers)
  /\ EdgesOf(h) = [node : 0 .. Len(g.inputs) + Len(g.registers), inv : BOOLEAN]
  /\ \A i \in DOMAIN g.inputs : h.inputs[i].node = i
  /\ \A i \in DOMAIN g.registers : h.registers[i].q = Len(g.inputs) + i

LEMMA SourcesOnly ==
  ASSUME NEW g, GraphOK(g), NEW h, h = SourceGraph(g)
  PROVE  SourcesCopied(h, g)
<1> DEFINE I == Len(g.inputs)
           R == Len(g.registers)
<1>1. /\ h = [nodes |-> h.nodes, inputs |-> h.inputs, registers |-> h.registers,
              outputs |-> h.outputs, hash |-> h.hash]
      /\ h.nodes = [i \in 1 .. I + R |-> <<>>]
      /\ h.inputs = [i \in DOMAIN g.inputs |-> [g.inputs[i] EXCEPT !.node = i]]
      /\ h.registers = [i \in DOMAIN g.registers |->
                          [name |-> g.registers[i].name, q |-> I + i, d |-> ZERO]]
      /\ h.outputs = EmptyGraph.outputs /\ h.hash = [p \in {} |-> 0]
  BY DEF EmptyGraph, SourceGraph
<1> DEFINE Ins == [name : STRING, node : Nat]
           Regs == [name : STRING, q : Nat, d : EdgeSet]
<1>2. g.inputs \in Seq(Ins) /\ g.registers \in Seq(Regs)
  BY DEF GraphOK, GraphTyped
<1> HIDE DEF Ins, Regs
<1>3. /\ I \in Nat /\ R \in Nat /\ DOMAIN g.inputs = 1 .. I /\ DOMAIN g.registers = 1 .. R
      /\ \A i \in 1 .. I : g.inputs[i] \in Ins
      /\ \A i \in 1 .. R : g.registers[i] \in Regs
  BY <1>2
<1> HIDE DEF I, R
<1>4. \A i \in 1 .. I : h.inputs[i] = [name |-> g.inputs[i].name, node |-> i]
                        /\ g.inputs[i].name \in STRING
  BY <1>1, <1>3 DEF Ins
<1>5. \A i \in 1 .. R : h.registers[i] = [name |-> g.registers[i].name, q |-> I + i, d |-> ZERO]
                        /\ g.registers[i].name \in STRING
  BY <1>1, <1>3 DEF Regs
<1>16. /\ \A i \in 1 .. I : h.inputs[i].node = i /\ h.inputs[i].name = g.inputs[i].name
       /\ \A i \in 1 .. R : h.registers[i].q = I + i /\ h.registers[i].d = ZERO
                            /\ h.registers[i].name = g.registers[i].name
  <2>1. ASSUME NEW i \in 1 .. I
        PROVE  h.inputs[i].node = i /\ h.inputs[i].name = g.inputs[i].name
    <3>1. h.inputs[i] = [name |-> g.inputs[i].name, node |-> i]
      BY <1>4
    <3> QED  BY <3>1
  <2>2. ASSUME NEW i \in 1 .. R
        PROVE  /\ h.registers[i].q = I + i /\ h.registers[i].d = ZERO
               /\ h.registers[i].name = g.registers[i].name
    <3>1. h.registers[i] = [name |-> g.registers[i].name, q |-> I + i, d |-> ZERO]
      BY <1>5
    <3> QED  BY <3>1
  <2> QED  BY <2>1, <2>2
<1>6. DOMAIN h.inputs = 1 .. I /\ DOMAIN h.registers = 1 .. R
  BY <1>1, <1>3
<1>7. h.nodes \in Seq(NodeSet) /\ Len(h.nodes) = I + R
  <2>1. <<>> \in NodeSet
    BY DEF NodeSet
  <2>2. I + R \in Nat /\ \A i \in 1 .. I + R : h.nodes[i] = <<>>
    BY <1>1, <1>3
  <2>3. h.nodes \in [1 .. I + R -> NodeSet]
    BY <1>1, <2>1, <2>2
  <2> QED  BY <2>2, <2>3
<1>8. \A n \in 1 .. I + R : ~IsAnd(h, n)
  BY <1>1 DEF IsAnd
<1>9. GraphTyped(h)
  <2>1. h.inputs \in Seq([name : STRING, node : Nat])
    <3>1. ASSUME NEW i \in 1 .. I PROVE h.inputs[i] \in Ins
      <4>1. h.inputs[i] = [name |-> g.inputs[i].name, node |-> i] /\ g.inputs[i].name \in STRING
        BY <1>4
      <4>2. i \in Nat
        BY <1>3
      <4> QED  BY <4>1, <4>2 DEF Ins
    <3>2. h.inputs = [i \in 1 .. I |-> h.inputs[i]]
      BY <1>1, <1>3
    <3>3. h.inputs \in Seq(Ins)
      BY <1>3, <3>1, <3>2
    <3> QED  BY <3>3 DEF Ins
  <2>2. h.registers \in Seq([name : STRING, q : Nat, d : EdgeSet])
    <3>1. ASSUME NEW i \in 1 .. R PROVE h.registers[i] \in Regs
      <4>1. /\ h.registers[i] = [name |-> g.registers[i].name, q |-> I + i, d |-> ZERO]
            /\ g.registers[i].name \in STRING
        BY <1>5
      <4>2. I + i \in Nat /\ ZERO \in EdgeSet
        BY <1>3 DEF ZERO, Edge, EdgeSet
      <4> QED  BY <4>1, <4>2 DEF Regs
    <3>2. h.registers = [i \in 1 .. R |-> h.registers[i]]
      BY <1>1, <1>3
    <3>3. h.registers \in Seq(Regs)
      BY <1>3, <3>1, <3>2
    <3> QED  BY <3>3 DEF Regs
  <2> QED  BY <1>1, <1>7, <2>1, <2>2 DEF GraphTyped
<1>10. ArenaOK(h)
  BY <1>1, <1>7, <1>8 DEF ArenaOK, Acyclic, Folded, HashAgrees
<1>11. Sources(h) = 1 .. I + R
  BY <1>7, <1>8 DEF Sources
<1>12. SourcesOK(h)
  <2>1. ASSUME NEW n \in 1 .. I + R
        PROVE  \/ \E i \in 1 .. I : h.inputs[i].node = n
               \/ \E i \in 1 .. R : h.registers[i].q = n
    <3>1. CASE n <= I
      BY <3>1, <1>3, <1>16
    <3>2. CASE ~(n <= I)
      <4>1. n - I \in 1 .. R /\ I + (n - I) = n
        BY <3>2, <1>3
      <4> QED  BY <4>1, <1>16
    <3> QED  BY <3>1, <3>2
  <2>2. /\ \A i \in 1 .. I : h.inputs[i].node = i /\ i \in Sources(h)
        /\ \A i \in 1 .. R : h.registers[i].q = I + i /\ I + i \in Sources(h)
    BY <1>3, <1>16, <1>11
  <2>3. \A i \in 1 .. I, j \in 1 .. R : h.inputs[i].node # h.registers[j].q
    BY <1>3, <2>2
  <2>4. /\ \A i, j \in 1 .. I : h.inputs[i].node = h.inputs[j].node => i = j
        /\ \A i, j \in 1 .. R : h.registers[i].q = h.registers[j].q => i = j
    BY <1>3, <2>2
  <2> QED  BY <1>6, <1>11, <2>1, <2>2, <2>3, <2>4 DEF SourcesOK
<1>13. EdgesOf(h) = [node : 0 .. I + R, inv : BOOLEAN]
  BY <1>7 DEF EdgesOf, NodeIds
<1>14. RootsOK(h)
  <2>1. ZERO \in EdgesOf(h)
    BY <1>9, Constants
  <2> QED  BY <1>1, <1>16, <1>6, <2>1 DEF RootsOK, EmptyGraph
<1>15. Mirror(h, g)
  BY <1>3, <1>6, <1>16 DEF Mirror
<1>17. GraphOK(h)
  BY <1>9, <1>10, <1>12, <1>14 DEF GraphOK
<1>18. h.outputs = EmptyGraph.outputs
  BY <1>1
<1> QED  BY <1>3, <1>11, <1>13, <1>15, <1>16, <1>17, <1>18 DEF I, R, SourcesCopied

LEMMA CopySourcesInv == ASSUME IInv, CopySources PROVE IInv'
<1> DEFINE ins == golden.inputs
           regs == golden.registers
<1>1. /\ phase = "classify" /\ phase' = "rebuild" /\ pos' = 1
      /\ UNCHANGED <<program, options, lowering, golden, draw, leaders, repl, placing, verified>>
  BY DEF CopySources, GoTo
<1>2. opt' = SourceGraph(golden)
  BY DEF CopySources, SourceGraph
<1>3. mapping' = [n \in NodeIds(golden) |->
              IF \E i \in DOMAIN ins : ins[i].node = n
              THEN Edge(CHOOSE i \in DOMAIN ins : ins[i].node = n, FALSE)
              ELSE IF \E i \in DOMAIN regs : regs[i].q = n
              THEN Edge(Len(ins) + CHOOSE i \in DOMAIN regs : regs[i].q = n, FALSE)
              ELSE ZERO]
  BY DEF CopySources
<1>4. GraphOK(golden) /\ Len(golden.nodes) \in Nat
  BY LenNodes DEF IInv, GraphOK
<1>5. /\ GraphOK(opt') /\ Mirror(opt', golden) /\ opt'.outputs = EmptyGraph.outputs
      /\ Len(ins) \in Nat /\ DOMAIN ins = 1 .. Len(ins)
      /\ DOMAIN regs = 1 .. Len(regs) /\ Len(regs) \in Nat
      /\ Sources(opt') = 1 .. Len(ins) + Len(regs)
      /\ EdgesOf(opt') = [node : 0 .. Len(ins) + Len(regs), inv : BOOLEAN]
      /\ \A i \in DOMAIN ins : opt'.inputs[i].node = i
      /\ \A i \in DOMAIN regs : opt'.registers[i].q = Len(ins) + i
  <2>1. SourcesCopied(opt', golden)
    BY <1>2, <1>4, SourcesOnly
  <2> QED  BY <2>1 DEF SourcesCopied
<1>19. /\ \A i \in DOMAIN ins : i \in 1 .. Len(ins) + Len(regs) /\ i \in 0 .. Len(ins) + Len(regs)
       /\ \A i \in DOMAIN regs : /\ Len(ins) + i \in 1 .. Len(ins) + Len(regs)
                                  /\ Len(ins) + i \in 0 .. Len(ins) + Len(regs)
  <2>1. /\ Len(ins) \in Nat /\ DOMAIN ins = 1 .. Len(ins)
        /\ DOMAIN regs = 1 .. Len(regs) /\ Len(regs) \in Nat
    BY <1>5
  <2> HIDE DEF ins, regs
  <2> QED  BY <2>1
<1>6. Sources(golden) \subseteq NodeIds(golden) /\ 0 \notin Sources(golden)
  BY <1>4 DEF Sources, NodeIds
<1>7. ASSUME NEW i \in DOMAIN ins
      PROVE  ins[i].node \in Sources(golden) /\ mapping'[ins[i].node] = Edge(i, FALSE)
  <2>1. /\ ins[i].node \in Sources(golden)
        /\ \A j \in DOMAIN ins : ins[j].node = ins[i].node => j = i
    BY <1>4 DEF GraphOK, SourcesOK
  <2>2. (CHOOSE j \in DOMAIN ins : ins[j].node = ins[i].node) = i
    BY <2>1
  <2> QED  BY <1>3, <1>6, <2>1, <2>2
<1>8. ASSUME NEW i \in DOMAIN regs
      PROVE  regs[i].q \in Sources(golden) /\ mapping'[regs[i].q] = Edge(Len(ins) + i, FALSE)
  <2>1. /\ regs[i].q \in Sources(golden)
        /\ \A j \in DOMAIN regs : regs[j].q = regs[i].q => j = i
        /\ \A j \in DOMAIN ins : ins[j].node # regs[i].q
    BY <1>4 DEF GraphOK, SourcesOK
  <2>2. (CHOOSE j \in DOMAIN regs : regs[j].q = regs[i].q) = i
    BY <2>1
  <2> QED  BY <1>3, <1>6, <2>1, <2>2
<1>9. ASSUME NEW n \in NodeIds(golden), n \notin Sources(golden) PROVE mapping'[n] = ZERO
  <2>1. ~(\E i \in DOMAIN ins : ins[i].node = n) /\ ~(\E i \in DOMAIN regs : regs[i].q = n)
    BY <1>7, <1>8, <1>9
  <2> QED  BY <1>3, <2>1
<1>10. \A n \in Sources(golden) :
          \/ \E i \in DOMAIN ins : n = ins[i].node
          \/ \E i \in DOMAIN regs : n = regs[i].q
  BY <1>4 DEF GraphOK, SourcesOK
<1>11. ASSUME NEW n \in NodeIds(golden) PROVE mapping'[n] \in EdgesOf(opt')
  <2>1. CASE \E i \in DOMAIN ins : n = ins[i].node
    <3>1. PICK i \in DOMAIN ins : n = ins[i].node
      BY <2>1
    <3>2. mapping'[n] = Edge(i, FALSE)
      BY <1>7, <3>1
    <3>3. i \in 0 .. Len(ins) + Len(regs)
      BY <1>19
    <3> QED  BY <1>5, <3>2, <3>3 DEF Edge
  <2>2. CASE \E i \in DOMAIN regs : n = regs[i].q
    <3>1. PICK i \in DOMAIN regs : n = regs[i].q
      BY <2>2
    <3>2. mapping'[n] = Edge(Len(ins) + i, FALSE)
      BY <1>8, <3>1
    <3>3. Len(ins) + i \in 0 .. Len(ins) + Len(regs)
      BY <1>19
    <3> QED  BY <1>5, <3>2, <3>3 DEF Edge
  <2>3. CASE n \notin Sources(golden)
    BY <1>5, <1>9, <2>3, Constants DEF GraphOK
  <2> QED  BY <1>10, <2>1, <2>2, <2>3
<1>12. ASSUME NEW n \in NodeIds(golden), n < pos' \/ n \in Sources(golden'),
              NEW named \in Valuations'
       PROVE  MappedTo(n, named)'
  <2> DEFINE b == ByName(golden, named)
             c == ByName(opt', named)
  <2>1. named \in Valuations
    BY <1>1 DEF Valuations, SourceNames
  <2>2. b \in [Sources(golden) -> BOOLEAN] /\ c \in [Sources(opt') -> BOOLEAN]
    BY <1>4, <1>5, <2>1, NamedTyped
  <2>3. SUFFICES Val(opt', c, mapping'[n]) = NodeValues(golden, b)[n]
    BY <1>1 DEF MappedTo
  <2>4. \A m \in Sources(opt') : Val(opt', c, Edge(m, FALSE)) = c[m]
    <3> SUFFICES ASSUME NEW m \in Sources(opt') PROVE Val(opt', c, Edge(m, FALSE)) = c[m]
      OBVIOUS
    <3>0. GraphOK(opt') /\ c \in [Sources(opt') -> BOOLEAN]
      BY <1>5, <2>2
    <3>1. NodeValues(opt', c)[m] = c[m] /\ c[m] \in BOOLEAN
      <4> HIDE DEF c
      <4> QED  BY <3>0, SourceValue
    <3> HIDE DEF c
    <3> QED  BY <3>1 DEF Val, EdgeValue, Edge
  <2>5. \A m \in Sources(golden) : NodeValues(golden, b)[m] = b[m]
    BY <1>4, <2>2, SourceValue
  <2>6. CASE \E i \in DOMAIN ins : n = ins[i].node
    <3>1. PICK i \in DOMAIN ins : n = ins[i].node
      BY <2>6
    <3>2. n \in Sources(golden) /\ mapping'[n] = Edge(i, FALSE) /\ i \in Sources(opt')
      <4>1. i \in 1 .. Len(ins) + Len(regs)
        BY <1>19
      <4> QED  BY <1>5, <1>7, <3>1, <4>1
    <3>3. b[n] = named[ins[i].name]
      BY <1>4, <3>1, ByNameIs
    <3>4. i \in DOMAIN opt'.inputs /\ opt'.inputs[i].node = i /\ opt'.inputs[i].name = ins[i].name
      BY <1>5 DEF Mirror
    <3>5. c[i] = named[ins[i].name]
      <4>1. c[opt'.inputs[i].node] = named[opt'.inputs[i].name]
        BY <1>5, <3>4, ByNameIs
      <4> QED  BY <3>4, <4>1
    <3> HIDE DEF b, c
    <3> QED  BY <2>4, <2>5, <3>2, <3>3, <3>5
  <2>7. CASE \E i \in DOMAIN regs : n = regs[i].q
    <3>1. PICK i \in DOMAIN regs : n = regs[i].q
      BY <2>7
    <3>2. n \in Sources(golden) /\ mapping'[n] = Edge(Len(ins) + i, FALSE) /\ Len(ins) + i \in Sources(opt')
      <4>1. Len(ins) + i \in 1 .. Len(ins) + Len(regs)
        BY <1>19
      <4> QED  BY <1>5, <1>8, <3>1, <4>1
    <3>3. b[n] = named[regs[i].name]
      BY <1>4, <3>1, ByNameIs
    <3>4. /\ i \in DOMAIN opt'.registers /\ opt'.registers[i].q = Len(ins) + i
          /\ opt'.registers[i].name = regs[i].name
      BY <1>5 DEF Mirror
    <3>5. c[Len(ins) + i] = named[regs[i].name]
      <4>1. c[opt'.registers[i].q] = named[opt'.registers[i].name]
        BY <1>5, <3>4, ByNameIs
      <4> QED  BY <3>4, <4>1
    <3> HIDE DEF b, c
    <3> QED  BY <2>4, <2>5, <3>2, <3>3, <3>5
  <2>8. CASE n \notin Sources(golden)
    <3>1. n = 0
      BY <1>1, <1>4, <1>12, <2>8 DEF NodeIds
    <3>2. mapping'[n] = ZERO
      BY <1>9, <2>8
    <3>3. NodeValues(golden, b)[0] = FALSE
      <4>1. Val(golden, b, ZERO) = FALSE /\ NodeValues(golden, b)[ZERO.node] \in BOOLEAN
        BY <1>4, <2>2, ValBoolean, Constants DEF GraphOK
      <4> HIDE DEF b
      <4> QED  BY <4>1 DEF Val, EdgeValue, ZERO, Edge
    <3>4. Val(opt', c, ZERO) = FALSE
      BY <1>5, <2>2, ValBoolean, Constants DEF GraphOK
    <3> HIDE DEF b, c
    <3> QED  BY <3>1, <3>2, <3>3, <3>4
  <2> QED  BY <1>10, <2>6, <2>7, <2>8
<1>13. NodeIds(golden') = NodeIds(golden) /\ DOMAIN mapping' = NodeIds(golden)
  BY <1>1, <1>3
<1>14. RebuildOK'
  BY <1>1, <1>5, <1>11, <1>12, <1>13 DEF RebuildOK
<1>15. /\ program' \in Programs /\ options' \in Options /\ GraphOK(golden')
       /\ StacksOK' /\ ScopesOK' /\ NextsOK'
  BY <1>1, LoweredKept
<1>16. ReplOK' /\ ReducedOK'
  BY <1>1 DEF IInv, ReplOK, ReducedOK, Reduced
<1>17. /\ phase' \in Phases /\ pos' \in Nat /\ 0 < pos' /\ verified' \in {"no", "yes", "mismatch"}
  BY <1>1 DEF IInv, Phases
<1>18. \A n \in DOMAIN mapping' : mapping'[n] \in EdgesOf(opt')
  BY <1>11, <1>13
<1> QED  BY <1>5, <1>14, <1>15, <1>16, <1>17, <1>18 DEF IInv

(* What an edge of the lowered graph becomes has its value.                *)
LEMMA ResolveOK ==
  ASSUME IInv, phase = "rebuild", NEW e \in EdgesOf(golden)
  PROVE  /\ Resolve(mapping, e) \in EdgesOf(opt)
         /\ e.node < pos \/ e.node \in Sources(golden) =>
              \A named \in Valuations :
                 Val(opt, ByName(opt, named), Resolve(mapping, e))
                   = Val(golden, ByName(golden, named), e)
<1>1. /\ GraphOK(golden) /\ GraphOK(opt) /\ Mirror(opt, golden)
      /\ Len(golden.nodes) \in Nat /\ Len(opt.nodes) \in Nat
  BY LenNodes DEF IInv, RebuildOK, GraphOK
<1>2. e.node \in NodeIds(golden) /\ e.inv \in BOOLEAN /\ e = Edge(e.node, e.inv)
  BY NotEdge
<1>3. \A named \in Valuations : /\ ByName(golden, named) \in [Sources(golden) -> BOOLEAN]
                                /\ ByName(opt, named) \in [Sources(opt) -> BOOLEAN]
  BY <1>1, NamedTyped
<1>4. CASE e.node = 0
  <2>1. Resolve(mapping, e) = e
    BY <1>4 DEF Resolve
  <2>2. e \in EdgesOf(opt)
    BY <1>1, <1>2, <1>4 DEF EdgesOf, NodeIds, Edge
  <2>3. ASSUME NEW named \in Valuations
        PROVE  Val(opt, ByName(opt, named), e) = Val(golden, ByName(golden, named), e)
    <3>1. Val(opt, ByName(opt, named), e) = e.inv
      BY <1>1, <1>3, <1>4, <2>2, EdgeInverted
    <3>2. Val(golden, ByName(golden, named), e) = e.inv
      BY <1>1, <1>3, <1>4, EdgeInverted
    <3> QED  BY <3>1, <3>2
  <2> QED  BY <2>1, <2>2, <2>3
<1>5. CASE e.node # 0
  <2> DEFINE m == mapping[e.node]
             r == Edge(m.node, m.inv # e.inv)
  <2>1. Resolve(mapping, e) = r
    BY <1>5 DEF Resolve
  <2>2. m \in EdgesOf(opt)
    BY <1>2 DEF IInv, RebuildOK
  <2>3. m.inv \in BOOLEAN /\ m = Edge(m.node, m.inv) /\ Not(m) \in EdgesOf(opt)
    BY <2>2, NotEdge
  <2> HIDE DEF m
  <2>4. CASE e.inv = FALSE
    <3>1. r = m
      BY <2>3, <2>4
    <3>2. ASSUME NEW named \in Valuations, MappedTo(e.node, named)
          PROVE  Val(opt, ByName(opt, named), m) = Val(golden, ByName(golden, named), e)
      <4>1. NodeValues(golden, ByName(golden, named))[e.node] \in BOOLEAN
        BY <1>1, <1>3, ValBoolean
      <4>2. Val(golden, ByName(golden, named), e) = NodeValues(golden, ByName(golden, named))[e.node]
        BY <2>4, <4>1 DEF Val, EdgeValue
      <4> QED  BY <3>2, <4>2 DEF MappedTo, m
    <3>3. e.node < pos \/ e.node \in Sources(golden) =>
            \A named \in Valuations : MappedTo(e.node, named)
      BY <1>2 DEF IInv, RebuildOK
    <3> HIDE DEF r
    <3> QED  BY <2>1, <2>2, <3>1, <3>2, <3>3
  <2>5. CASE e.inv = TRUE
    <3>1. r = Not(m)
      BY <2>3, <2>5 DEF Not
    <3>2. ASSUME NEW named \in Valuations, MappedTo(e.node, named)
          PROVE  Val(opt, ByName(opt, named), Not(m)) = Val(golden, ByName(golden, named), e)
      <4>1. NodeValues(golden, ByName(golden, named))[e.node] \in BOOLEAN
        BY <1>1, <1>3, ValBoolean
      <4>2. Val(golden, ByName(golden, named), e) = ~NodeValues(golden, ByName(golden, named))[e.node]
        BY <2>5, <4>1 DEF Val, EdgeValue
      <4>3. Val(opt, ByName(opt, named), Not(m)) = ~Val(opt, ByName(opt, named), m)
        BY <1>1, <1>3, <2>2, ValBoolean
      <4> QED  BY <3>2, <4>2, <4>3 DEF MappedTo, m
    <3>3. e.node < pos \/ e.node \in Sources(golden) =>
            \A named \in Valuations : MappedTo(e.node, named)
      BY <1>2 DEF IInv, RebuildOK
    <3> HIDE DEF r
    <3> QED  BY <2>1, <2>3, <3>1, <3>2, <3>3
  <2> QED  BY <1>2, <2>4, <2>5
<1> QED  BY <1>4, <1>5


(* What rebuilding a node has to show.                                     *)
LEMMA RebuildStep ==
  ASSUME IInv, phase = "rebuild", phase' = "rebuild", pos <= Len(golden.nodes), pos' = pos + 1,
         UNCHANGED <<program, options, lowering, golden, draw, leaders, repl, placing, verified>>,
         GraphOK(opt'), Extends(opt', opt),
         DOMAIN mapping' = DOMAIN mapping,
         \A n \in DOMAIN mapping : n # pos => mapping'[n] = mapping[n],
         mapping'[pos] \in EdgesOf(opt'),
         \A named \in Valuations :
            Val(opt', ByName(opt', named), mapping'[pos])
              = NodeValues(golden, ByName(golden, named))[pos]
  PROVE  IInv'
<1>1. /\ GraphOK(golden) /\ GraphOK(opt) /\ Mirror(opt, golden)
      /\ opt.outputs = EmptyGraph.outputs /\ DOMAIN mapping = NodeIds(golden)
      /\ \A n \in NodeIds(golden) : mapping[n] \in EdgesOf(opt)
      /\ \A n \in NodeIds(golden) :
            n < pos \/ n \in Sources(golden) => \A named \in Valuations : MappedTo(n, named)
      /\ pos \in Nat
  BY DEF IInv, RebuildOK
<1>2. EdgesOf(opt) \subseteq EdgesOf(opt') /\ Sources(opt') = Sources(opt)
  BY <1>1, ExtendsEdges DEF GraphOK
<1>3. opt'.inputs = opt.inputs /\ opt'.registers = opt.registers /\ opt'.outputs = opt.outputs
  BY DEF Extends
<1>4. \A named : ByName(opt', named) = ByName(opt, named)
  <2>1. Extends(opt', opt) /\ Sources(opt') = Sources(opt)
    BY <1>2
  <2> QED  BY ONLY <2>1 DEF ByName, Extends
<1>5. Mirror(opt', golden) /\ opt'.outputs = EmptyGraph.outputs
  BY <1>1, <1>3 DEF Mirror
<1>6. \A n \in NodeIds(golden) : mapping'[n] \in EdgesOf(opt')
  BY <1>1, <1>2
<1>7. ASSUME NEW n \in NodeIds(golden), n < pos' \/ n \in Sources(golden'),
             NEW named \in Valuations'
      PROVE  MappedTo(n, named)'
  <2>1. named \in Valuations
    BY DEF Valuations, SourceNames
  <2>2. SUFFICES Val(opt', ByName(opt', named), mapping'[n])
                   = NodeValues(golden, ByName(golden, named))[n]
    BY DEF MappedTo
  <2>3. CASE n = pos
    BY <2>1, <2>3
  <2>4. CASE n # pos
    <3>1. mapping'[n] = mapping[n] /\ mapping[n] \in EdgesOf(opt)
      BY <1>1, <2>4
    <3>2. MappedTo(n, named)
      <4>1. n < pos \/ n \in Sources(golden)
        BY <1>1, <1>7, <2>4 DEF NodeIds
      <4> QED  BY <1>1, <2>1, <4>1
    <3>3. ByName(opt, named) \in [Sources(opt) -> BOOLEAN]
      BY <1>1, <2>1, NamedTyped
    <3>4. Val(opt', ByName(opt, named), mapping[n]) = Val(opt, ByName(opt, named), mapping[n])
      BY <1>1, <3>1, <3>3, ValKept
    <3> QED  BY <1>4, <3>1, <3>2, <3>4 DEF MappedTo
  <2> QED  BY <2>3, <2>4
<1>8. RebuildOK'
  <2>1. NodeIds(golden') = NodeIds(golden) /\ Mirror(opt', golden')
    BY <1>5
  <2> QED  BY <1>1, <1>5, <1>6, <1>7, <2>1 DEF RebuildOK
<1>9. /\ program' \in Programs /\ options' \in Options /\ GraphOK(golden')
      /\ StacksOK' /\ ScopesOK' /\ NextsOK'
  BY LoweredKept
<1>10. ReplOK' /\ ReducedOK'
  BY DEF IInv, ReplOK, ReducedOK, Reduced
<1>11. /\ phase' \in Phases /\ pos' \in Nat /\ 0 < pos' /\ verified' \in {"no", "yes", "mismatch"}
       /\ \A n \in DOMAIN mapping' : mapping'[n] \in EdgesOf(opt')
  BY <1>1, <1>6 DEF IInv, Phases
<1> QED  BY <1>8, <1>9, <1>10, <1>11 DEF IInv

LEMMA RebuildNodeInv == ASSUME IInv, RebuildNode PROVE IInv'
<1>1. /\ phase = "rebuild" /\ phase' = "rebuild" /\ pos <= Len(golden.nodes) /\ pos' = pos + 1
      /\ UNCHANGED <<program, options, lowering, golden, draw, leaders, repl, placing, verified>>
  BY DEF RebuildNode, Stay
<1>2. /\ GraphOK(golden) /\ GraphOK(opt) /\ Mirror(opt, golden)
      /\ DOMAIN mapping = NodeIds(golden)
      /\ \A n \in NodeIds(golden) : mapping[n] \in EdgesOf(opt)
      /\ \A n \in NodeIds(golden) :
            n < pos \/ n \in Sources(golden) => \A named \in Valuations : MappedTo(n, named)
      /\ pos \in 1 .. Len(golden.nodes) /\ pos \in NodeIds(golden) /\ Len(golden.nodes) \in Nat
  BY <1>1, LenNodes DEF IInv, RebuildOK, GraphOK, NodeIds
<1>3. \A named \in Valuations : /\ ByName(golden, named) \in [Sources(golden) -> BOOLEAN]
                                /\ ByName(opt, named) \in [Sources(opt) -> BOOLEAN]
  BY <1>2, NamedTyped
<1>4. CASE ~IsAnd(golden, pos)
  <2>1. opt' = opt /\ mapping' = mapping
    BY <1>4 DEF RebuildNode
  <2>2. pos \in Sources(golden)
    BY <1>2, <1>4 DEF Sources
  <2>3. Extends(opt', opt) /\ GraphOK(opt')
    BY <1>2, <2>1, ExtendsItself DEF GraphOK
  <2>4. \A named \in Valuations :
            Val(opt', ByName(opt', named), mapping'[pos])
              = NodeValues(golden, ByName(golden, named))[pos]
    BY <1>2, <2>1, <2>2 DEF MappedTo
  <2>5. mapping'[pos] \in EdgesOf(opt')
    BY <1>2, <2>1
  <2> QED  BY <1>1, <2>1, <2>3, <2>4, <2>5, RebuildStep
<1>5. CASE IsAnd(golden, pos) /\ pos \in DOMAIN repl
  <2> DEFINE e == repl[pos]
             x == Resolve(mapping, e)
  <2>1. opt' = opt /\ mapping' = [mapping EXCEPT ![pos] = x]
    BY <1>5 DEF RebuildNode
  <2>2. /\ e \in EdgeSet /\ e.node < pos
        /\ \A v \in [Sources(golden) -> BOOLEAN] :
              NodeValues(golden, v)[pos] = Val(golden, v, e)
    BY <1>5 DEF IInv, ReplOK
  <2>3. e \in EdgesOf(golden)
    BY <1>2, <2>2 DEF EdgesOf, NodeIds, EdgeSet
  <2> HIDE DEF e
  <2>4. /\ x \in EdgesOf(opt)
        /\ \A named \in Valuations :
              Val(opt, ByName(opt, named), x) = Val(golden, ByName(golden, named), e)
    BY <1>1, <2>2, <2>3, ResolveOK
  <2> HIDE DEF x
  <2>5. /\ mapping'[pos] = x /\ DOMAIN mapping' = DOMAIN mapping
        /\ \A n \in DOMAIN mapping : n # pos => mapping'[n] = mapping[n]
    BY <1>2, <2>1
  <2>6. \A named \in Valuations :
            Val(opt', ByName(opt', named), mapping'[pos])
              = NodeValues(golden, ByName(golden, named))[pos]
    BY <1>3, <2>1, <2>2, <2>4, <2>5
  <2>7. Extends(opt', opt) /\ GraphOK(opt') /\ mapping'[pos] \in EdgesOf(opt')
    BY <1>2, <2>1, <2>4, <2>5, ExtendsItself DEF GraphOK
  <2> QED  BY <1>1, <2>5, <2>6, <2>7, RebuildStep
<1>6. CASE IsAnd(golden, pos) /\ pos \notin DOMAIN repl
  <2> DEFINE p == golden.nodes[pos]
             x == Resolve(mapping, p[1])
             y == Resolve(mapping, p[2])
             r == AddAnd(opt, x, y)
  <2>1. opt' = r.g /\ mapping' = [mapping EXCEPT ![pos] = r.e]
    BY <1>6 DEF RebuildNode
  <2>2. /\ p[1] \in EdgesOf(golden) /\ p[2] \in EdgesOf(golden)
        /\ p[1].node < pos /\ p[2].node < pos
    <3>1. \A v \in [Sources(golden) -> BOOLEAN] :
             p[1] \in EdgesOf(golden) /\ p[2] \in EdgesOf(golden)
      BY <1>2, <1>6, AndValue
    <3>2. [n \in Sources(golden) |-> FALSE] \in [Sources(golden) -> BOOLEAN]
      OBVIOUS
    <3>3. p[1].node < pos /\ p[2].node < pos
      BY <1>2, <1>6 DEF GraphOK, ArenaOK, Acyclic
    <3> QED  BY <3>1, <3>2, <3>3
  <2>3. \A named \in Valuations :
           NodeValues(golden, ByName(golden, named))[pos]
             = (Val(golden, ByName(golden, named), p[1]) /\ Val(golden, ByName(golden, named), p[2]))
    BY <1>2, <1>3, <1>6, AndValue
  <2> HIDE DEF p
  <2>4. /\ x \in EdgesOf(opt)
        /\ \A named \in Valuations :
              Val(opt, ByName(opt, named), x) = Val(golden, ByName(golden, named), p[1])
    BY <1>1, <2>2, ResolveOK
  <2>5. /\ y \in EdgesOf(opt)
        /\ \A named \in Valuations :
              Val(opt, ByName(opt, named), y) = Val(golden, ByName(golden, named), p[2])
    BY <1>1, <2>2, ResolveOK
  <2> HIDE DEF x, y
  <2>6. /\ Adds(r, opt)
        /\ \A sv \in [Sources(opt) -> BOOLEAN] :
              Val(r.g, sv, r.e) = (Val(opt, sv, x) /\ Val(opt, sv, y))
    BY <1>2, <2>4, <2>5, AddAndOK
  <2> HIDE DEF r
  <2>7. /\ mapping'[pos] = r.e /\ DOMAIN mapping' = DOMAIN mapping
        /\ \A n \in DOMAIN mapping : n # pos => mapping'[n] = mapping[n]
    BY <1>2, <2>1
  <2>8. Extends(opt', opt) /\ GraphOK(opt') /\ mapping'[pos] \in EdgesOf(opt')
    BY <2>1, <2>6, <2>7 DEF Adds
  <2>9. \A named : ByName(opt', named) = ByName(opt, named)
    <3>1. Sources(opt') = Sources(opt)
      BY <1>2, <2>8, ExtendsEdges DEF GraphOK
    <3> QED  BY <2>8, <3>1 DEF ByName, Extends
  <2>10. \A named \in Valuations :
            Val(opt', ByName(opt', named), mapping'[pos])
              = NodeValues(golden, ByName(golden, named))[pos]
    BY <1>3, <2>1, <2>3, <2>4, <2>5, <2>6, <2>7, <2>9
  <2> QED  BY <1>1, <2>7, <2>8, <2>10, RebuildStep
<1> QED  BY <1>4, <1>5, <1>6

LEMMA RemapRootsInv == ASSUME IInv, RemapRoots PROVE IInv'
<1>1. /\ phase = "rebuild" /\ phase' = "map" /\ pos' = 1 /\ pos > Len(golden.nodes)
      /\ opt' = [opt EXCEPT
           !.registers = [i \in DOMAIN @ |->
                            [@[i] EXCEPT !.d = Resolve(mapping, golden.registers[i].d)]],
           !.outputs = [n \in DOMAIN golden.outputs |-> Resolve(mapping, golden.outputs[n])]]
      /\ UNCHANGED <<program, options, lowering, golden, reducing, placing, verified>>
  BY DEF RemapRoots, GoTo
<1>2. /\ GraphOK(golden) /\ GraphOK(opt) /\ Mirror(opt, golden)
      /\ Len(golden.nodes) \in Nat /\ pos \in Nat
      /\ opt.registers \in Seq([name : STRING, q : Nat, d : EdgeSet])
  <2>1. GraphOK(golden) /\ GraphOK(opt) /\ Mirror(opt, golden) /\ pos \in Nat
    BY <1>1 DEF IInv, RebuildOK
  <2>2. GraphTyped(golden) /\ GraphTyped(opt)
    BY <2>1 DEF GraphOK
  <2>3. Len(golden.nodes) \in Nat
    BY <2>2, LenNodes
  <2>4. opt.registers \in Seq([name : STRING, q : Nat, d : EdgeSet])
    BY ONLY <2>2 DEF GraphTyped
  <2> QED  BY <2>1, <2>3, <2>4
<1> DEFINE NextEdge(i) == Resolve(mapping, golden.registers[i].d)
           Out(n) == Resolve(mapping, golden.outputs[n])
           regs == [i \in DOMAIN opt.registers |-> [opt.registers[i] EXCEPT !.d = NextEdge(i)]]
<1>3. opt' = [nodes |-> opt.nodes, inputs |-> opt.inputs, registers |-> regs,
              outputs |-> [n \in DOMAIN golden.outputs |-> Out(n)], hash |-> opt.hash]
  BY <1>1, <1>2 DEF GraphOK, GraphTyped
<1>4. \A e \in EdgesOf(golden) :
         /\ Resolve(mapping, e) \in EdgesOf(opt)
         /\ \A named \in Valuations :
               Val(opt, ByName(opt, named), Resolve(mapping, e))
                 = Val(golden, ByName(golden, named), e)
  <2> SUFFICES ASSUME NEW e \in EdgesOf(golden)
               PROVE  /\ Resolve(mapping, e) \in EdgesOf(opt)
                      /\ \A named \in Valuations :
                            Val(opt, ByName(opt, named), Resolve(mapping, e))
                              = Val(golden, ByName(golden, named), e)
    OBVIOUS
  <2>1. e.node \in NodeIds(golden)
    BY DEF EdgesOf
  <2>2. e.node < pos
    BY ONLY <1>1, <1>2, <2>1 DEF NodeIds
  <2> QED  BY <1>1, <2>2, ResolveOK
<1>5. /\ \A i \in DOMAIN golden.registers : golden.registers[i].d \in EdgesOf(golden)
      /\ \A n \in DOMAIN golden.outputs : golden.outputs[n] \in EdgesOf(golden)
      /\ DOMAIN opt.registers = DOMAIN golden.registers
  BY <1>2 DEF GraphOK, RootsOK, Mirror
<1>6. /\ \A i \in DOMAIN opt.registers : NextEdge(i) \in EdgesOf(opt)
      /\ \A n \in DOMAIN golden.outputs : Out(n) \in EdgesOf(opt)
  BY <1>4, <1>5
<1>7. /\ \A i \in DOMAIN opt.registers, named \in Valuations :
            Val(opt, ByName(opt, named), NextEdge(i))
              = Val(golden, ByName(golden, named), golden.registers[i].d)
      /\ \A n \in DOMAIN golden.outputs, named \in Valuations :
            Val(opt, ByName(opt, named), Out(n))
              = Val(golden, ByName(golden, named), golden.outputs[n])
  BY <1>4, <1>5
<1> HIDE DEF Next, Out
<1>8. \A i \in DOMAIN opt.registers :
         /\ regs[i] = [name |-> opt.registers[i].name, q |-> opt.registers[i].q, d |-> NextEdge(i)]
         /\ regs[i].d = NextEdge(i)
  <2> DEFINE Regs == [name : STRING, q : Nat, d : EdgeSet]
  <2>1. opt.registers \in Seq(Regs)
    BY <1>2
  <2> HIDE DEF Regs
  <2>2. \A i \in DOMAIN opt.registers : opt.registers[i] \in Regs
    BY <2>1
  <2> QED  BY <2>2 DEF Regs
<1>9. opt'.registers = regs
  BY <1>3
<1>10. /\ opt'.registers = [i \in DOMAIN opt.registers |->
                              [name |-> opt.registers[i].name, q |-> opt.registers[i].q,
                               d |-> opt'.registers[i].d]]
       /\ \A i \in DOMAIN opt.registers : opt'.registers[i].d = NextEdge(i)
       /\ DOMAIN opt'.registers = DOMAIN opt.registers
  <2>1. DOMAIN regs = DOMAIN opt.registers
    OBVIOUS
  <2>2. regs = [i \in DOMAIN opt.registers |-> regs[i]]
    OBVIOUS
  <2>3. \A i \in DOMAIN opt.registers :
           regs[i] = [name |-> opt.registers[i].name, q |-> opt.registers[i].q, d |-> regs[i].d]
    BY <1>8
  <2>4. \A i \in DOMAIN opt.registers : regs[i].d = NextEdge(i)
    BY <1>8
  <2> HIDE DEF regs
  <2>5. regs = [i \in DOMAIN opt.registers |->
                  [name |-> opt.registers[i].name, q |-> opt.registers[i].q, d |-> regs[i].d]]
    BY ONLY <2>2, <2>3
  <2> QED  BY ONLY <1>9, <2>1, <2>4, <2>5
<1>11. /\ DOMAIN opt'.outputs = DOMAIN golden.outputs
       /\ \A n \in DOMAIN golden.outputs : opt'.outputs[n] = Out(n)
  BY <1>3
<1>12. opt' = [nodes |-> opt.nodes, inputs |-> opt.inputs, registers |-> opt'.registers,
               outputs |-> opt'.outputs, hash |-> opt.hash]
  BY <1>3
<1>13. /\ GraphOK(opt') /\ EdgesOf(opt') = EdgesOf(opt)
       /\ \A i \in DOMAIN opt.registers : opt'.registers[i].name = opt.registers[i].name
       /\ \A sv : NodeValues(opt', sv) = NodeValues(opt, sv)
       /\ \A named : ByName(opt', named) = ByName(opt, named)
  <2>1. SameButRoots(opt', opt)
    BY <1>6, <1>10, <1>11, <1>12 DEF SameButRoots
  <2> QED  BY <1>2, <2>1, ReRooted
<1>14. Mirror(opt', golden)
  <2>1. opt'.inputs = opt.inputs
    BY <1>12
  <2> QED  BY <1>2, <1>10, <1>13, <2>1 DEF Mirror
<1>15. ASSUME NEW named \in Valuations
       PROVE  Results(opt', named) = Results(golden, named)
  <2> DEFINE vo == NodeValues(opt, ByName(opt, named))
             vg == NodeValues(golden, ByName(golden, named))
  <2>1. NodeValues(opt', ByName(opt', named)) = vo
    BY <1>13
  <2>2. /\ Results(opt', named)
             = [out |-> [n \in DOMAIN opt'.outputs |-> EdgeValue(vo, opt'.outputs[n])],
                next |-> [i \in DOMAIN opt'.registers |-> EdgeValue(vo, opt'.registers[i].d)]]
        /\ Results(golden, named)
             = [out |-> [n \in DOMAIN golden.outputs |-> EdgeValue(vg, golden.outputs[n])],
                next |-> [i \in DOMAIN golden.registers |-> EdgeValue(vg, golden.registers[i].d)]]
    BY <2>1 DEF Results
  <2>3. /\ \A i \in DOMAIN opt.registers : EdgeValue(vo, NextEdge(i)) = EdgeValue(vg, golden.registers[i].d)
        /\ \A n \in DOMAIN golden.outputs : EdgeValue(vo, Out(n)) = EdgeValue(vg, golden.outputs[n])
    BY <1>7 DEF Val
  <2> HIDE DEF vo, vg
  <2>4. [n \in DOMAIN opt'.outputs |-> EdgeValue(vo, opt'.outputs[n])]
          = [n \in DOMAIN golden.outputs |-> EdgeValue(vg, golden.outputs[n])]
    BY <1>11, <2>3
  <2>5. [i \in DOMAIN opt'.registers |-> EdgeValue(vo, opt'.registers[i].d)]
          = [i \in DOMAIN golden.registers |-> EdgeValue(vg, golden.registers[i].d)]
    BY <1>5, <1>10, <2>3
  <2> QED  BY <2>2, <2>4, <2>5
<1>16. ReducedOK'
  <2>1. Valuations' = Valuations /\ golden' = golden
    BY <1>1 DEF Valuations, SourceNames
  <2>2. ReductionKeepsFunctions'
    BY <1>15, <2>1 DEF ReductionKeepsFunctions
  <2> QED  BY <1>11, <1>14, <2>1, <2>2 DEF ReducedOK
<1>17. /\ program' \in Programs /\ options' \in Options /\ GraphOK(golden')
       /\ StacksOK' /\ ScopesOK' /\ NextsOK'
  BY <1>1, LoweredKept
<1>18. ReplOK' /\ RebuildOK'
  BY <1>1 DEF IInv, ReplOK, RebuildOK, reducing
<1>19. /\ phase' \in Phases /\ pos' \in Nat /\ 0 < pos' /\ verified' \in {"no", "yes", "mismatch"}
  BY <1>1 DEF IInv, Phases
<1>20. \A n \in DOMAIN mapping' : mapping'[n] \in EdgesOf(opt')
  BY <1>1, <1>13 DEF IInv, reducing
<1> QED  BY <1>13, <1>16, <1>17, <1>18, <1>19, <1>20 DEF IInv

(* The steps after the reduction leave both graphs as they are.            *)
LEMMA LaterInv ==
  ASSUME IInv, Reduced, Reduced', pos' \in Nat, 0 < pos', verified' \in {"no", "yes", "mismatch"},
         UNCHANGED <<program, options, lowering, golden, opt, reducing>>
  PROVE  IInv'
<1>1. phase \notin {"registers", "lower"} /\ phase' \notin {"registers", "lower"} /\ phase' \in Phases
  BY DEF Reduced, Phases
<1>2. /\ program' \in Programs /\ options' \in Options /\ GraphOK(golden')
      /\ StacksOK' /\ ScopesOK' /\ NextsOK'
  BY <1>1, LoweredKept
<1>3. ReplOK' /\ RebuildOK'
  BY DEF IInv, ReplOK, RebuildOK, reducing, Reduced
<1>4. ReducedOK'
  BY DEF IInv, ReducedOK, ReductionKeepsFunctions, Valuations, SourceNames
<1>5. GraphOK(opt') /\ \A n \in DOMAIN mapping' : mapping'[n] \in EdgesOf(opt')
  BY DEF IInv, reducing
<1> QED  BY <1>1, <1>2, <1>3, <1>4, <1>5 DEF IInv

LEMMA PlaceInv == ASSUME IInv, Place \/ Verify PROVE IInv'
<1> USE DEF Reduced, GoTo, Stay, placing
<1>0. pos \in Nat /\ 0 < pos /\ verified \in {"no", "yes", "mismatch"}
  BY DEF IInv
<1>1. CASE MapNode
  BY <1>0, <1>1, LaterInv DEF MapNode
<1>2. CASE MapRegisters
  BY <1>0, <1>2, LaterInv DEF MapRegisters
<1>3. CASE PlaceCell
  BY <1>0, <1>3, LaterInv DEF PlaceCell
<1>4. CASE PlacePanics
  BY <1>0, <1>4, LaterInv DEF PlacePanics
<1>5. CASE Legalize
  BY <1>0, <1>5, LaterInv DEF Legalize
<1>6. CASE Verify
  BY <1>0, <1>6, LaterInv DEF Verify
<1> QED  BY <1>1, <1>2, <1>3, <1>4, <1>5, <1>6 DEF Place

LEMMA UnchangedInv == ASSUME IInv, UNCHANGED vars PROVE IInv'
<1> USE DEF vars
<1>1. StacksOK' /\ ScopesOK' /\ NextsOK'
  BY DEF IInv, StacksOK, ScopesOK, NextsOK
<1>2. ReplOK' /\ RebuildOK'
  BY DEF IInv, ReplOK, RebuildOK, MappedTo, Valuations, SourceNames
<1>3. ReducedOK'
  BY DEF IInv, ReducedOK, Reduced, ReductionKeepsFunctions, Valuations, SourceNames
<1> QED  BY <1>1, <1>2, <1>3 DEF IInv

LEMMA Invariance == Spec => []IInv
<1>1. ASSUME IInv, [Next]_vars PROVE IInv'
  <2>1. CASE Lower
    BY <1>1, <2>1, DeclareRegisterInv, EndRegistersInv, LowerVariableInv, LowerLiteralInv,
       LowerOtherInv, LowerNotInv, LowerSignInv, LowerBinaryInv, AssignInv, BeginIfInv, ElseInv, EndIfInv, FinalizeInv
       DEF Lower
  <2>2. CASE Reduce
    BY <1>1, <2>2, SimulateInv, ClassifyInv, CopySourcesInv, RebuildNodeInv, RemapRootsInv
       DEF Reduce
  <2>3. CASE Place \/ Verify
    BY <1>1, <2>3, PlaceInv
  <2>4. CASE Stopped
    BY <1>1, <2>4, UnchangedInv DEF Stopped
  <2>5. CASE UNCHANGED vars
    BY <1>1, <2>5, UnchangedInv
  <2> QED  BY <1>1, <2>1, <2>2, <2>3, <2>4, <2>5 DEF Next
<1> QED  BY InitInv, <1>1, PTL DEF Spec

-----------------------------------------------------------------------------
(* The checker.                                                            *)

(* A graph whose roots were altered is one in form, and has the names.     *)
LEMMA AlteredOK ==
  ASSUME IInv, phase = "verify", NEW s \in Altered
  PROVE  /\ GraphOK(s) /\ Mirror(s, golden)
         /\ DOMAIN s.outputs = DOMAIN golden.outputs
<1>1. GraphOK(opt) /\ Mirror(opt, golden) /\ DOMAIN opt.outputs = DOMAIN golden.outputs
  BY DEF IInv, ReducedOK, Reduced
<1> DEFINE Regs == [name : STRING, q : Nat, d : EdgeSet]
<1>2. /\ opt.registers \in Seq(Regs)
      /\ opt = [nodes |-> opt.nodes, inputs |-> opt.inputs, registers |-> opt.registers,
                outputs |-> opt.outputs, hash |-> opt.hash]
      /\ \A i \in DOMAIN opt.registers : opt.registers[i].d \in EdgesOf(opt)
      /\ \A n \in DOMAIN opt.outputs : opt.outputs[n] \in EdgesOf(opt)
  BY <1>1 DEF GraphOK, GraphTyped, RootsOK
<1> HIDE DEF Regs
<1>3. /\ \A i \in DOMAIN opt.registers : opt.registers[i] \in Regs
      /\ opt.registers = [i \in DOMAIN opt.registers |-> opt.registers[i]]
  BY <1>2
<1>4. \A i \in DOMAIN opt.registers :
         opt.registers[i] = [name |-> opt.registers[i].name, q |-> opt.registers[i].q,
                             d |-> opt.registers[i].d]
  BY <1>3 DEF Regs
<1>5. SameButRoots(s, opt) /\ DOMAIN s.outputs = DOMAIN opt.outputs
  <2>1. CASE \E n \in DOMAIN opt.outputs, e \in EdgesOf(opt) : s = [opt EXCEPT !.outputs[n] = e]
    <3>1. PICK n \in DOMAIN opt.outputs, e \in EdgesOf(opt) : s = [opt EXCEPT !.outputs[n] = e]
      BY <2>1
    <3>2. /\ s = [nodes |-> opt.nodes, inputs |-> opt.inputs, registers |-> opt.registers,
                  outputs |-> [opt.outputs EXCEPT ![n] = e], hash |-> opt.hash]
      BY <1>2, <3>1
    <3>3. /\ s.registers = opt.registers /\ s.outputs = [opt.outputs EXCEPT ![n] = e]
          /\ s = [nodes |-> opt.nodes, inputs |-> opt.inputs, registers |-> s.registers,
                  outputs |-> s.outputs, hash |-> opt.hash]
      BY <3>2
    <3>4. opt.registers = [i \in DOMAIN opt.registers |->
                             [name |-> opt.registers[i].name, q |-> opt.registers[i].q,
                              d |-> opt.registers[i].d]]
      BY ONLY <1>3, <1>4
    <3>5. DOMAIN s.outputs = DOMAIN opt.outputs
      BY <3>3
    <3>6. \A k \in DOMAIN s.outputs : s.outputs[k] \in EdgesOf(opt)
      BY <1>2, <3>3
    <3>7. \A i \in DOMAIN opt.registers : s.registers[i].d \in EdgesOf(opt)
      BY <1>2, <3>3
    <3>8. s.registers = [i \in DOMAIN opt.registers |->
                           [name |-> opt.registers[i].name, q |-> opt.registers[i].q,
                            d |-> s.registers[i].d]]
      BY ONLY <3>3, <3>4
    <3> QED  BY <3>3, <3>5, <3>6, <3>7, <3>8 DEF SameButRoots
  <2>2. CASE \E j \in DOMAIN opt.registers, e \in EdgesOf(opt) :
                s = [opt EXCEPT !.registers[j].d = e]
    <3>1. PICK j \in DOMAIN opt.registers, e \in EdgesOf(opt) :
             s = [opt EXCEPT !.registers[j].d = e]
      BY <2>2
    <3> DEFINE regs == [opt.registers EXCEPT ![j] = [@ EXCEPT !.d = e]]
    <3>2. s = [nodes |-> opt.nodes, inputs |-> opt.inputs, registers |-> regs,
               outputs |-> opt.outputs, hash |-> opt.hash]
      BY <1>2, <3>1
    <3>3. /\ s.registers = regs /\ s.outputs = opt.outputs
          /\ s = [nodes |-> opt.nodes, inputs |-> opt.inputs, registers |-> s.registers,
                  outputs |-> s.outputs, hash |-> opt.hash]
      BY <3>2
    <3>4. DOMAIN regs = DOMAIN opt.registers /\ regs = [i \in DOMAIN opt.registers |-> regs[i]]
      OBVIOUS
    <3>5. \A i \in DOMAIN opt.registers :
             /\ regs[i] = [name |-> opt.registers[i].name, q |-> opt.registers[i].q,
                           d |-> regs[i].d]
             /\ regs[i].d \in EdgesOf(opt)
      <4> SUFFICES ASSUME NEW i \in DOMAIN opt.registers
                   PROVE  /\ regs[i] = [name |-> opt.registers[i].name,
                                        q |-> opt.registers[i].q, d |-> regs[i].d]
                          /\ regs[i].d \in EdgesOf(opt)
        OBVIOUS
      <4>1. CASE i = j
        <5>1. regs[i] = [opt.registers[i] EXCEPT !.d = e]
          BY <4>1
        <5>2. regs[i] = [name |-> opt.registers[i].name, q |-> opt.registers[i].q, d |-> e]
          BY <1>4, <5>1
        <5> QED  BY ONLY <5>2, e \in EdgesOf(opt)
      <4>2. CASE i # j
        <5>1. regs[i] = opt.registers[i]
          BY <4>2
        <5> QED  BY <1>2, <1>4, <5>1
      <4> QED  BY <4>1, <4>2
    <3> HIDE DEF regs
    <3>6. regs = [i \in DOMAIN opt.registers |->
                    [name |-> opt.registers[i].name, q |-> opt.registers[i].q,
                     d |-> regs[i].d]]
      BY ONLY <3>4, <3>5
    <3>7. \A n \in DOMAIN s.outputs : s.outputs[n] \in EdgesOf(opt)
      BY <1>2, <3>3
    <3>8. \A i \in DOMAIN opt.registers : s.registers[i].d \in EdgesOf(opt)
      BY <3>3, <3>5
    <3> QED  BY <3>3, <3>6, <3>7, <3>8 DEF SameButRoots
  <2> QED  BY <2>1, <2>2 DEF Altered
<1>6. /\ GraphOK(s) /\ DOMAIN s.registers = DOMAIN opt.registers
      /\ \A i \in DOMAIN opt.registers : s.registers[i].name = opt.registers[i].name
  BY <1>1, <1>5, ReRooted
<1>7. s.inputs = opt.inputs
  BY <1>5 DEF SameButRoots
<1>8. Mirror(s, golden)
  BY <1>1, <1>6, <1>7 DEF Mirror
<1> QED  BY <1>1, <1>5, <1>6, <1>8

(* What the checker finds for two valuations that agree where it binds.    *)
Agree(g, s, gv, sv) == \A p \in SharedNodes(g, s) : gv[p[1]] = sv[p[2]]
RootsDiffer(g, s, gv, sv) ==
  \E r \in ComparedRoots(g, s) : 0 \in {r[1].node, r[2].node} \/ Val(g, gv, r[1]) # Val(s, sv, r[2])

LEMMA MismatchIs ==
  ASSUME NEW g, NEW s
  PROVE  MismatchFound(g, s)
           <=> \E gv \in [Sources(g) -> BOOLEAN], sv \in [Sources(s) -> BOOLEAN] :
                  Agree(g, s, gv, sv) /\ RootsDiffer(g, s, gv, sv)
  BY DEF MismatchFound, Agree, RootsDiffer, Val

(* The same results, root by root.                                         *)
LEMMA ResultsAre ==
  ASSUME NEW g, NEW s, NEW named, DOMAIN s.outputs = DOMAIN g.outputs,
         DOMAIN s.registers = DOMAIN g.registers
  PROVE  Results(g, named) = Results(s, named)
           <=> /\ \A n \in DOMAIN g.outputs :
                     Val(g, ByName(g, named), g.outputs[n]) = Val(s, ByName(s, named), s.outputs[n])
               /\ \A i \in DOMAIN g.registers :
                     Val(g, ByName(g, named), g.registers[i].d)
                       = Val(s, ByName(s, named), s.registers[i].d)
<1> DEFINE gs == NodeValues(g, ByName(g, named))
           ss == NodeValues(s, ByName(s, named))
           go == [n \in DOMAIN g.outputs |-> EdgeValue(gs, g.outputs[n])]
           so == [n \in DOMAIN g.outputs |-> EdgeValue(ss, s.outputs[n])]
           gn == [i \in DOMAIN g.registers |-> EdgeValue(gs, g.registers[i].d)]
           sn == [i \in DOMAIN g.registers |-> EdgeValue(ss, s.registers[i].d)]
<1>1. /\ Results(g, named) = [out |-> go, next |-> gn]
      /\ Results(s, named) = [out |-> so, next |-> sn]
  BY DEF Results
<1>2. go = so <=> \A n \in DOMAIN g.outputs : EdgeValue(gs, g.outputs[n]) = EdgeValue(ss, s.outputs[n])
  <2> HIDE DEF gs, ss
  <2>1. /\ \A n \in DOMAIN g.outputs : go[n] = EdgeValue(gs, g.outputs[n])
        /\ \A n \in DOMAIN g.outputs : so[n] = EdgeValue(ss, s.outputs[n])
    OBVIOUS
  <2>2. ASSUME \A n \in DOMAIN g.outputs : EdgeValue(gs, g.outputs[n]) = EdgeValue(ss, s.outputs[n])
        PROVE  go = so
    BY <2>2
  <2> HIDE DEF go, so
  <2> QED  BY <2>1, <2>2
<1>3. gn = sn <=> \A i \in DOMAIN g.registers :
                     EdgeValue(gs, g.registers[i].d) = EdgeValue(ss, s.registers[i].d)
  <2> HIDE DEF gs, ss
  <2>1. /\ \A i \in DOMAIN g.registers : gn[i] = EdgeValue(gs, g.registers[i].d)
        /\ \A i \in DOMAIN g.registers : sn[i] = EdgeValue(ss, s.registers[i].d)
    OBVIOUS
  <2>2. ASSUME \A i \in DOMAIN g.registers :
                  EdgeValue(gs, g.registers[i].d) = EdgeValue(ss, s.registers[i].d)
        PROVE  gn = sn
    BY <2>2
  <2> HIDE DEF gn, sn
  <2> QED  BY <2>1, <2>2
<1> HIDE DEF go, so, gn, sn
<1>4. Results(g, named) = Results(s, named) <=> go = so /\ gn = sn
  BY <1>1
<1>5. /\ \A n : Val(g, ByName(g, named), g.outputs[n]) = EdgeValue(gs, g.outputs[n])
      /\ \A n : Val(s, ByName(s, named), s.outputs[n]) = EdgeValue(ss, s.outputs[n])
      /\ \A i : Val(g, ByName(g, named), g.registers[i].d) = EdgeValue(gs, g.registers[i].d)
      /\ \A i : Val(s, ByName(s, named), s.registers[i].d) = EdgeValue(ss, s.registers[i].d)
  BY DEF Val
<1> HIDE DEF gs, ss
<1> QED  BY <1>2, <1>3, <1>4, <1>5

(* Sources of one name take one value, so the checker's bindings hold.     *)
LEMMA NamedAgree ==
  ASSUME NEW g, GraphOK(g), NEW s, GraphOK(s), NEW named
  PROVE  Agree(g, s, ByName(g, named), ByName(s, named))
<1> SUFFICES ASSUME NEW p \in SharedNodes(g, s)
             PROVE  ByName(g, named)[p[1]] = ByName(s, named)[p[2]]
  BY DEF Agree
<1>1. CASE \E i \in DOMAIN g.inputs, j \in DOMAIN s.inputs :
             /\ g.inputs[i].node = p[1] /\ s.inputs[j].node = p[2]
             /\ g.inputs[i].name = s.inputs[j].name
  BY <1>1, ByNameIs
<1>2. CASE \E i \in DOMAIN g.registers, j \in DOMAIN s.registers :
             /\ g.registers[i].q = p[1] /\ s.registers[j].q = p[2]
             /\ g.registers[i].name = s.registers[j].name
  BY <1>2, ByNameIs
<1> QED  BY <1>1, <1>2 DEF SharedNodes

LEMMA SoundOn ==
  ASSUME IInv, NEW s, GraphOK(s), Mirror(s, golden), DOMAIN s.outputs = DOMAIN golden.outputs,
         ~MismatchFound(golden, s)
  PROVE  SameFunctions(golden, s)
<1>1. GraphOK(golden) /\ DOMAIN s.registers = DOMAIN golden.registers
      /\ \A i \in DOMAIN golden.registers : s.registers[i].name = golden.registers[i].name
  BY DEF IInv, Mirror
<1> SUFFICES ASSUME NEW named \in Valuations PROVE Results(golden, named) = Results(s, named)
  BY DEF SameFunctions
<1> DEFINE gv == ByName(golden, named)
           sv == ByName(s, named)
<1>2. gv \in [Sources(golden) -> BOOLEAN] /\ sv \in [Sources(s) -> BOOLEAN]
  BY <1>1, NamedTyped
<1>3. Agree(golden, s, gv, sv)
  BY <1>1, NamedAgree
<1> HIDE DEF gv, sv
<1>4. ~RootsDiffer(golden, s, gv, sv)
  BY <1>2, <1>3, MismatchIs
<1>5. \A n \in DOMAIN golden.outputs :
         Val(golden, gv, golden.outputs[n]) = Val(s, sv, s.outputs[n])
  <2> SUFFICES ASSUME NEW n \in DOMAIN golden.outputs
               PROVE  Val(golden, gv, golden.outputs[n]) = Val(s, sv, s.outputs[n])
    OBVIOUS
  <2>1. <<golden.outputs[n], s.outputs[n]>> \in ComparedRoots(golden, s)
    BY DEF ComparedRoots
  <2> QED  BY <1>4, <2>1 DEF RootsDiffer
<1>6. \A i \in DOMAIN golden.registers :
         Val(golden, gv, golden.registers[i].d) = Val(s, sv, s.registers[i].d)
  <2> SUFFICES ASSUME NEW i \in DOMAIN golden.registers
               PROVE  Val(golden, gv, golden.registers[i].d) = Val(s, sv, s.registers[i].d)
    OBVIOUS
  <2> DEFINE q == <<i, i>>
  <2>1. q \in (DOMAIN golden.registers) \X (DOMAIN s.registers) /\ q[1] = i /\ q[2] = i
    BY <1>1
  <2>2. golden.registers[q[1]].name = s.registers[q[2]].name
    BY <1>1, <2>1
  <2> HIDE DEF q
  <2>3. <<golden.registers[q[1]].d, s.registers[q[2]].d>> \in ComparedRoots(golden, s)
    BY <2>1, <2>2 DEF ComparedRoots
  <2> QED  BY <1>4, <2>1, <2>3 DEF RootsDiffer
<1> QED  BY <1>1, <1>5, <1>6, ResultsAre DEF gv, sv

(* Two valuations that agree where the checker binds are those of one
   valuation of the names, when no input was declared twice.                *)
NamesOf(g, gv) ==
  [x \in SourceNames |->
     IF \E i \in DOMAIN g.inputs : g.inputs[i].name = x
     THEN gv[g.inputs[CHOOSE i \in DOMAIN g.inputs : g.inputs[i].name = x].node]
     ELSE gv[g.registers[CHOOSE i \in DOMAIN g.registers : g.registers[i].name = x].q]]

LEMMA NamesFound ==
  ASSUME IInv, NEW s, GraphOK(s), Mirror(s, golden),
         \A i, j \in DOMAIN golden.inputs : golden.inputs[i].name = golden.inputs[j].name => i = j,
         NEW gv \in [Sources(golden) -> BOOLEAN], NEW sv \in [Sources(s) -> BOOLEAN],
         Agree(golden, s, gv, sv)
  PROVE  \E named \in Valuations : ByName(golden, named) = gv /\ ByName(s, named) = sv
<1> DEFINE named == NamesOf(golden, gv)
           in(x) == CHOOSE i \in DOMAIN golden.inputs : golden.inputs[i].name = x
           reg(x) == CHOOSE i \in DOMAIN golden.registers : golden.registers[i].name = x
<1>1. /\ GraphOK(golden) /\ NamesApart(golden) /\ SourcesOK(golden) /\ SourcesOK(s)
      /\ DOMAIN s.inputs = DOMAIN golden.inputs
      /\ DOMAIN s.registers = DOMAIN golden.registers
      /\ \A i \in DOMAIN golden.inputs : s.inputs[i].name = golden.inputs[i].name
      /\ \A i \in DOMAIN golden.registers : s.registers[i].name = golden.registers[i].name
  BY DEF IInv, ScopesOK, Mirror, GraphOK
<1>2. /\ \A i \in DOMAIN golden.inputs :
            golden.inputs[i].node \in Sources(golden) /\ s.inputs[i].node \in Sources(s)
      /\ \A i \in DOMAIN golden.registers :
            golden.registers[i].q \in Sources(golden) /\ s.registers[i].q \in Sources(s)
  BY <1>1 DEF SourcesOK
<1>3. \A i \in DOMAIN golden.inputs : gv[golden.inputs[i].node] = sv[s.inputs[i].node]
  <2> SUFFICES ASSUME NEW i \in DOMAIN golden.inputs
               PROVE  gv[golden.inputs[i].node] = sv[s.inputs[i].node]
    OBVIOUS
  <2> DEFINE p == <<golden.inputs[i].node, s.inputs[i].node>>
  <2>1. /\ p \in Sources(golden) \X Sources(s)
        /\ p[1] = golden.inputs[i].node /\ p[2] = s.inputs[i].node
    BY <1>2
  <2>2. golden.inputs \in Seq([name : STRING, node : Nat])
    BY <1>1 DEF GraphOK, GraphTyped
  <2>3. i \in Nat
    BY <2>2
  <2>4. /\ \A k \in DOMAIN golden.inputs : golden.inputs[k].name = golden.inputs[i].name => k <= i
        /\ \A k \in DOMAIN s.inputs : s.inputs[k].name = s.inputs[i].name => i <= k
    BY <1>1, <2>3
  <2> HIDE DEF p
  <2>5. p \in SharedNodes(golden, s)
    BY <1>1, <2>1, <2>4 DEF SharedNodes
  <2> QED  BY <2>1, <2>5 DEF Agree
<1>4. \A i, j \in DOMAIN golden.registers :
         golden.registers[i].name = golden.registers[j].name
           => gv[golden.registers[i].q] = sv[s.registers[j].q]
  <2> SUFFICES ASSUME NEW i \in DOMAIN golden.registers, NEW j \in DOMAIN golden.registers,
                      golden.registers[i].name = golden.registers[j].name
               PROVE  gv[golden.registers[i].q] = sv[s.registers[j].q]
    OBVIOUS
  <2> DEFINE p == <<golden.registers[i].q, s.registers[j].q>>
  <2>1. /\ p \in Sources(golden) \X Sources(s)
        /\ p[1] = golden.registers[i].q /\ p[2] = s.registers[j].q
    BY <1>2
  <2> HIDE DEF p
  <2>2. p \in SharedNodes(golden, s)
    BY <1>1, <2>1 DEF SharedNodes
  <2> QED  BY <2>1, <2>2 DEF Agree
<1>5. named = [x \in SourceNames |->
                 IF \E i \in DOMAIN golden.inputs : golden.inputs[i].name = x
                 THEN gv[golden.inputs[in(x)].node] ELSE gv[golden.registers[reg(x)].q]]
  BY DEF NamesOf
<1>6. ASSUME NEW i \in DOMAIN golden.inputs
      PROVE  /\ golden.inputs[i].name \in SourceNames
             /\ in(golden.inputs[i].name) = i
  BY DEF SourceNames
<1>7. ASSUME NEW i \in DOMAIN golden.registers
      PROVE  /\ golden.registers[i].name \in SourceNames
             /\ reg(golden.registers[i].name) \in DOMAIN golden.registers
             /\ golden.registers[reg(golden.registers[i].name)].name = golden.registers[i].name
             /\ ~ \E j \in DOMAIN golden.inputs : golden.inputs[j].name = golden.registers[i].name
  BY <1>1 DEF SourceNames, NamesApart
<1> HIDE DEF named, in, reg
<1>8. \A i \in DOMAIN golden.inputs : named[golden.inputs[i].name] = gv[golden.inputs[i].node]
  BY <1>5, <1>6
<1>9. \A i \in DOMAIN golden.registers :
         named[golden.registers[i].name] = gv[golden.registers[reg(golden.registers[i].name)].q]
  BY <1>5, <1>7
<1>10. \A i \in DOMAIN golden.registers :
          /\ named[golden.registers[i].name] = sv[s.registers[i].q]
          /\ named[golden.registers[i].name] = gv[golden.registers[i].q]
  BY <1>4, <1>7, <1>9
<1>11. named \in Valuations
  <2>1. ASSUME NEW x \in SourceNames PROVE named[x] \in BOOLEAN
    <3>1. CASE \E i \in DOMAIN golden.inputs : golden.inputs[i].name = x
      BY <1>2, <1>8, <3>1
    <3>2. CASE \E i \in DOMAIN golden.registers : golden.registers[i].name = x
      BY <1>2, <1>10, <3>2
    <3> QED  BY <3>1, <3>2 DEF SourceNames
  <2> QED  BY <1>5, <2>1 DEF Valuations
<1>12. ByName(golden, named) = gv
  <2>1. ASSUME NEW n \in Sources(golden) PROVE ByName(golden, named)[n] = gv[n]
    <3>1. CASE \E i \in DOMAIN golden.inputs : golden.inputs[i].node = n
      BY <1>1, <1>8, <3>1, ByNameIs
    <3>2. CASE \E i \in DOMAIN golden.registers : golden.registers[i].q = n
      BY <1>1, <1>10, <3>2, ByNameIs
    <3> QED  BY <1>1, <3>1, <3>2 DEF SourcesOK
  <2>2. ByName(golden, named) \in [Sources(golden) -> BOOLEAN]
    BY <1>1, <1>11, NamedTyped
  <2> QED  BY <2>1, <2>2
<1>13. ByName(s, named) = sv
  <2>1. ASSUME NEW n \in Sources(s) PROVE ByName(s, named)[n] = sv[n]
    <3>1. CASE \E i \in DOMAIN s.inputs : s.inputs[i].node = n
      BY <1>1, <1>3, <1>8, <3>1, ByNameIs
    <3>2. CASE \E i \in DOMAIN s.registers : s.registers[i].q = n
      BY <1>1, <1>10, <3>2, ByNameIs
    <3> QED  BY <1>1, <3>1, <3>2 DEF SourcesOK
  <2>2. ByName(s, named) \in [Sources(s) -> BOOLEAN]
    BY <1>11, NamedTyped
  <2> QED  BY <2>1, <2>2
<1> QED  BY <1>11, <1>12, <1>13

(* Where no root is a constant, a mismatch is a difference of functions.    *)
LEMMA ExactOn ==
  ASSUME IInv, phase = "verify", NEW s, GraphOK(s), Mirror(s, golden),
         DOMAIN s.outputs = DOMAIN golden.outputs,
         \A r \in ComparedRoots(golden, s) : 0 \notin {r[1].node, r[2].node},
         \A i, j \in DOMAIN golden.inputs : golden.inputs[i].name = golden.inputs[j].name => i = j,
         MismatchFound(golden, s)
  PROVE  ~SameFunctions(golden, s)
<1> SUFFICES ASSUME SameFunctions(golden, s) PROVE FALSE
  OBVIOUS
<1>1. PICK gv \in [Sources(golden) -> BOOLEAN], sv \in [Sources(s) -> BOOLEAN] :
         Agree(golden, s, gv, sv) /\ RootsDiffer(golden, s, gv, sv)
  BY MismatchIs
<1>2. PICK named \in Valuations : ByName(golden, named) = gv /\ ByName(s, named) = sv
  BY <1>1, NamesFound
<1>3. PICK r \in ComparedRoots(golden, s) : Val(golden, gv, r[1]) # Val(s, sv, r[2])
  BY <1>1 DEF RootsDiffer
<1>4. DOMAIN s.registers = DOMAIN golden.registers
      /\ \A i \in DOMAIN golden.registers : s.registers[i].name = golden.registers[i].name
  BY DEF Mirror
<1>5. Results(golden, named) = Results(s, named)
  BY <1>2 DEF SameFunctions
<1>6. /\ \A n \in DOMAIN golden.outputs :
            Val(golden, gv, golden.outputs[n]) = Val(s, sv, s.outputs[n])
      /\ \A i \in DOMAIN golden.registers :
            Val(golden, gv, golden.registers[i].d) = Val(s, sv, s.registers[i].d)
  BY <1>2, <1>4, <1>5, ResultsAre
<1>7. CASE \E n \in DOMAIN golden.outputs : r = <<golden.outputs[n], s.outputs[n]>>
  BY <1>3, <1>6, <1>7
<1>8. CASE \E i, j \in DOMAIN golden.registers :
              /\ golden.registers[i].name = golden.registers[j].name
              /\ r = <<golden.registers[i].d, s.registers[j].d>>
  <2>1. PICK i \in DOMAIN golden.registers, j \in DOMAIN golden.registers :
              /\ golden.registers[i].name = golden.registers[j].name
              /\ r = <<golden.registers[i].d, s.registers[j].d>>
    BY <1>8
  <2>2. golden.registers[i].d = golden.registers[j].d
    BY <2>1 DEF IInv, NextsOK
  <2>3. r[1] = golden.registers[j].d /\ r[2] = s.registers[j].d
    BY <2>1, <2>2
  <2> QED  BY <1>3, <1>6, <2>3
<1>9. \/ \E n \in (DOMAIN golden.outputs) \cap (DOMAIN s.outputs) :
            r = <<golden.outputs[n], s.outputs[n]>>
      \/ \E q \in (DOMAIN golden.registers) \X (DOMAIN s.registers) :
            /\ golden.registers[q[1]].name = s.registers[q[2]].name
            /\ r = <<golden.registers[q[1]].d, s.registers[q[2]].d>>
  BY <1>3 DEF ComparedRoots
<1> QED  BY <1>4, <1>7, <1>8, <1>9

-----------------------------------------------------------------------------
(* Where a cell is placed: on integers, within the region.                 *)

CellKinds == {"nand2", "aoi21", "dff"}

LEMMA QuotientInt ==
  ASSUME NEW a \in Int, NEW b \in Int, 0 < b
  PROVE  Quotient(a, b) \in Int
  BY DEF Quotient

LEMMA TotalInt ==
  ASSUME NEW n \in Nat, NEW values, \A i \in DOMAIN values : values[i] \in Int
  PROVE  Total(values, n) \in Int
<1> DEFINE Value(i) == IF i \in DOMAIN values THEN values[i] ELSE 0
           At(s, i) == IF i = 0 THEN 0 ELSE s[i-1] + Value(i)
           Upto(s, k) == s = [i \in 0 .. k |-> At(s, i)]
           S == {k \in 0 .. n : \E s : Upto(s, k)}
<1>1. ASSUME NEW k \in 0 .. n, \A j \in 0 .. k - 1 : j \in S
      PROVE  k \in S
  <2>1. CASE k = 0
    <3> DEFINE s == [i \in 0 .. 0 |-> 0]
    <3>1. Upto(s, 0)
      OBVIOUS
    <3> QED  BY <2>1, <3>1
  <2>2. CASE k # 0
    <3>1. k - 1 \in S
      <4>1. k - 1 \in 0 .. k - 1
        BY <2>2
      <4> HIDE DEF S
      <4> QED  BY <4>1, <1>1
    <3>2. PICK s : Upto(s, k - 1)
      BY <3>1
    <3> HIDE DEF Value
    <3> DEFINE more == [i \in 0 .. k |-> At(s, i)]
    <3>3. \A i \in 0 .. k - 1 : s[i] = At(s, i)
      BY <3>2
    <3>4. \A i \in 0 .. k - 1 : more[i] = s[i]
      BY <3>3
    <3>5. \A i \in 0 .. k : At(more, i) = At(s, i)
      <4>1. \A i \in 0 .. k : i = 0 \/ more[i-1] = s[i-1]
        <5> HIDE DEF more
        <5> QED  BY <3>4
      <4> HIDE DEF more
      <4> QED  BY <4>1
    <3>6. Upto(more, k)
      BY <3>5
    <3> QED  BY <3>6
  <2> QED  BY <2>1, <2>2
<1> HIDE DEF S
<1>2. n \in S
  <2>1. \A k \in 0 .. n : k \in S
    BY <1>1, Climb
  <2> QED  BY <2>1
<1>3. PICK s : Upto(s, n)
  BY <1>2 DEF S
<1> DEFINE sum == CHOOSE f : Upto(f, n)
<1>4. Upto(sum, n)
  BY <1>3
<1>5. Total(values, n) = sum[n]
  BY DEF Total
<1>6. \A i \in 1 .. n : Value(i) \in Int
  OBVIOUS
<1> HIDE DEF sum, Value
<1>7. \A i \in 0 .. n : sum[i] = At(sum, i)
  BY <1>4
<1> DEFINE T == {i \in 0 .. n : sum[i] \in Int}
<1>8. ASSUME NEW k \in 0 .. n, \A j \in 0 .. k - 1 : j \in T
      PROVE  k \in T
  BY <1>6, <1>7, <1>8
<1> HIDE DEF T
<1>9. \A k \in 0 .. n : k \in T
  BY <1>8, Climb
<1> QED  BY <1>5, <1>9 DEF T

LEMMA ColumnsInt == ASSUME NEW n \in Nat PROVE Columns(n) \in Int
<1> DEFINE S == {c \in 0 .. n : c * c >= n}
<1>1. n \in S
  <2>1. n * n >= n
    <3>1. CASE n = 0
      BY <3>1
    <3>2. CASE n >= 1
      BY <3>2
    <3> QED  BY <3>1, <3>2
  <2> QED  BY <2>1
<1>2. PICK c \in S : \A d \in S : c <= d
  <2>1. S \in SUBSET Nat /\ S # {}
    BY <1>1
  <2> HIDE DEF S
  <2> QED  BY <2>1, LeastIndex
<1>3. \A d \in 0 .. c - 1 : d * d < n
  <2> SUFFICES ASSUME NEW d \in 0 .. c - 1 PROVE d * d < n
    OBVIOUS
  <2>1. d \in 0 .. n /\ d \notin S
    <3>1. d \notin S
      <4> HIDE DEF S
      <4>1. c \in Int
        BY DEF S
      <4> QED  BY <1>2, <4>1
    <3> QED  BY <3>1
  <2>2. ~(d * d >= n)
    BY <2>1
  <2>3. d * d \in Int
    OBVIOUS
  <2> QED  BY <2>2, <2>3
<1>4. Columns(n) \in 0 .. n
  <2> DEFINE P(k) == k * k >= n /\ \A d \in 0 .. k - 1 : d * d < n
  <2>1. c \in 0 .. n /\ P(c)
    BY <1>3
  <2>2. Columns(n) = CHOOSE k \in 0 .. n : P(k)
    BY DEF Columns
  <2> HIDE DEF P
  <2> QED  BY <2>1, <2>2, Zenon
<1> QED  BY <1>4

LEMMA GridInt ==
  ASSUME NEW i \in Nat, 0 < i, NEW n \in Nat, NEW r \in [x : Int, y : Int, w : Int, h : Int]
  PROVE  GridPoint(i, n, r).x \in Int /\ GridPoint(i, n, r).y \in Int
<1> DEFINE cols == AtLeast1(Columns(n))
<1>1. cols \in Int /\ 0 < cols
  BY ColumnsInt DEF AtLeast1
<1>2. GridPoint(i, n, r) = [x |-> r.x + ((i - 1) % cols) * Quotient(r.w, cols),
                            y |-> r.y + ((i - 1) \div cols) * Quotient(r.h, n \div cols + 1)]
  BY DEF GridPoint
<1> HIDE DEF cols
<1>3. (i - 1) % cols \in Int /\ (i - 1) \div cols \in Int /\ n \div cols + 1 \in Int
  BY <1>1
<1>4. 0 < n \div cols + 1
  BY <1>1
<1>5. Quotient(r.w, cols) \in Int /\ Quotient(r.h, n \div cols + 1) \in Int
  BY <1>1, <1>3, <1>4, QuotientInt
<1> QED  BY <1>2, <1>3, <1>5

LEMMA TargetInt ==
  ASSUME NEW grid, grid.x \in Int, grid.y \in Int, NEW n \in Nat, NEW inputs,
         \A i \in DOMAIN inputs : inputs[i].x \in Int /\ inputs[i].y \in Int
  PROVE  Target(grid, n, inputs).x \in Int /\ Target(grid, n, inputs).y \in Int
<1> DEFINE ones == [i \in DOMAIN inputs |-> 1]
           xs == [i \in DOMAIN inputs |-> inputs[i].x]
           ys == [i \in DOMAIN inputs |-> inputs[i].y]
           k == Total(ones, n)
           cx == Quotient(Total(xs, n), k)
           cy == Quotient(Total(ys, n), k)
<1>1. Target(grid, n, inputs) =
        IF k > 0 THEN [x |-> Quotient(grid.x + cx, 2), y |-> Quotient(grid.y + cy, 2)] ELSE grid
  BY DEF Target
<1>2. k \in Int /\ Total(xs, n) \in Int /\ Total(ys, n) \in Int
  <2>1. \A i \in DOMAIN ones : ones[i] \in Int
    OBVIOUS
  <2>2. \A i \in DOMAIN xs : xs[i] \in Int
    OBVIOUS
  <2>3. \A i \in DOMAIN ys : ys[i] \in Int
    OBVIOUS
  <2> HIDE DEF ones, xs, ys
  <2> QED  BY <2>1, <2>2, <2>3, TotalInt
<1> HIDE DEF k, xs, ys
<1>3. CASE k > 0
  <2>1. cx \in Int /\ cy \in Int
    BY <1>2, <1>3, QuotientInt
  <2> HIDE DEF cx, cy
  <2>2. Quotient(grid.x + cx, 2) \in Int /\ Quotient(grid.y + cy, 2) \in Int
    BY <2>1, QuotientInt
  <2> QED  BY <1>1, <1>3, <2>2
<1>4. CASE ~(k > 0)
  BY <1>1, <1>4
<1> QED  BY <1>3, <1>4

LEMMA WidthIs ==
  ASSUME NEW c \in CellKinds
  PROVE  \E k \in Nat : 0 < k /\ CellWidth[c] = k * SiteWidth
<1>1. c = "nand2" => CellWidth[c] = 2 * SiteWidth
  BY SMT DEF CellWidth, SiteWidth
<1>2. c = "aoi21" => CellWidth[c] = 3 * SiteWidth
  BY SMT DEF CellWidth, SiteWidth
<1>3. c = "dff" => CellWidth[c] = 6 * SiteWidth
  BY SMT DEF CellWidth, SiteWidth
<1> QED  BY <1>1, <1>2, <1>3 DEF CellKinds

LEMMA ClampedInside ==
  ASSUME NEW c \in CellKinds, NEW r \in [x : Int, y : Int, w : Int, h : Int], Fits(c, r),
         NEW t, t.x \in Int, t.y \in Int
  PROVE  /\ ClampedTo(c, r, t).x \in r.x .. r.x + r.w
         /\ ClampedTo(c, r, t).y \in Int
<1>1. CellWidth[c] \in Nat
  BY SMT DEF CellKinds, CellWidth
<1>2. r.x <= r.x + r.w - CellWidth[c] /\ r.y <= r.y + r.h - CellHeight
  BY DEF Fits, CanClamp
<1> QED  BY <1>1, <1>2, SMT DEF ClampedTo, Clamped, CellHeight

-----------------------------------------------------------------------------
(* Rows.                                                                   *)

LEMMA RowFacts ==
  ASSUME NEW r \in [x : Int, y : Int, w : Int, h : Int]
  PROVE  \E n \in Nat, first \in Int :
           /\ 0 < n /\ DOMAIN Rows(r) = 1 .. n
           /\ \A i \in 1 .. n : /\ Rows(r)[i].y = (first + i - 1) * RowHeight
                                /\ Rows(r)[i].flipped = ((first + i - 1) % 2 # 0)
<1> DEFINE n == AtLeast1(Quotient(r.h, RowHeight))
           first == Quotient(r.y, RowHeight)
<1>1. n \in Nat /\ 0 < n /\ first \in Int
  <2>1. RowHeight \in Int /\ 0 < RowHeight
    BY SMT DEF RowHeight
  <2>2. Quotient(r.h, RowHeight) \in Int /\ first \in Int
    BY <2>1, QuotientInt
  <2> QED  BY <2>2 DEF AtLeast1
<1>2. Rows(r) = [i \in 1 .. n |-> [y |-> (first + i - 1) * RowHeight,
                                   flipped |-> (first + i - 1) % 2 # 0]]
  BY DEF Rows
<1> HIDE DEF n, first
<1>3. /\ DOMAIN Rows(r) = 1 .. n
      /\ \A i \in 1 .. n : /\ Rows(r)[i].y = (first + i - 1) * RowHeight
                           /\ Rows(r)[i].flipped = ((first + i - 1) % 2 # 0)
  BY <1>2
<1> QED  BY <1>1, <1>3

(* There is a nearest row, and one first among the nearest.                *)
LEMMA NearestIsRow ==
  ASSUME NEW rows, NEW n \in Nat, 0 < n, DOMAIN rows = 1 .. n,
         \A i \in 1 .. n : rows[i].y \in Int, NEW y \in Int
  PROVE  NearestRow(rows, y) \in DOMAIN rows
<1> DEFINE D(i) == Distance(rows[i].y, y)
           S == {D(i) : i \in 1 .. n}
           T(d) == {i \in 1 .. n : D(i) = d}
<1>1. \A i \in 1 .. n : D(i) \in Nat
  BY DEF Distance
<1> HIDE DEF D
<1>2. PICK d \in S : \A e \in S : d <= e
  <2>1. S \in SUBSET Nat
    BY <1>1
  <2>2. D(1) \in S
    OBVIOUS
  <2> HIDE DEF S
  <2> QED  BY <2>1, <2>2, LeastIndex
<1>3. \A j \in 1 .. n : d <= D(j)
  BY <1>2
<1>4. PICK i \in T(d) : \A j \in T(d) : i <= j
  <2>1. T(d) \in SUBSET Nat /\ T(d) # {}
    BY <1>2
  <2> HIDE DEF T
  <2> QED  BY <2>1, LeastIndex
<1>5. i \in 1 .. n /\ D(i) = d
  BY <1>4
<1>6. ASSUME NEW j \in 1 .. i - 1 PROVE D(i) < D(j)
  <2>1. j \in 1 .. n /\ ~(i <= j)
    BY <1>5
  <2>2. D(j) # d
    BY <2>1, <1>4
  <2>3. D(j) \in Nat /\ d \in Nat
    BY <1>1, <1>5, <2>1
  <2> QED  BY <1>3, <1>5, <2>1, <2>2, <2>3
<1> DEFINE P(k) == /\ \A j \in DOMAIN rows : D(k) <= D(j)
                   /\ \A j \in 1 .. k - 1 : D(k) < D(j)
<1>7. P(i)
  BY <1>3, <1>5, <1>6
<1>8. NearestRow(rows, y) = CHOOSE k \in DOMAIN rows : P(k)
  BY DEF NearestRow, D
<1>9. i \in DOMAIN rows
  BY <1>5
<1> HIDE DEF P
<1> QED  BY <1>7, <1>8, <1>9, Zenon

-----------------------------------------------------------------------------
(* The order of a row: positions below n, the places on integers.          *)

InRow(cells, row, n, lo, hi) ==
  /\ row \in SUBSET (1 .. n)
  /\ \A i \in row : cells[i].x \in lo .. hi

(* A row has a first cell and a last one.                                  *)
LEMMA RowEnds ==
  ASSUME NEW cells, NEW row, NEW n \in Nat, NEW lo \in Int, NEW hi \in Int,
         InRow(cells, row, n, lo, hi), row # {}
  PROVE  /\ \E m \in row : \A k \in row : k = m \/ LeftOf(cells, m, k)
         /\ \E m \in row : \A k \in row : k = m \/ LeftOf(cells, k, m)
<1>0. /\ \A i \in row : cells[i].x \in Int /\ lo <= cells[i].x /\ cells[i].x <= hi
      /\ \A i \in row : i \in Nat /\ i <= n
  BY DEF InRow
<1>1. \E m \in row : \A k \in row : k = m \/ LeftOf(cells, m, k)
  <2> DEFINE S == {cells[i].x - lo : i \in row}
             T(x) == {i \in row : cells[i].x - lo = x}
  <2>1. PICK x \in S : \A z \in S : x <= z
    <3>1. S \in SUBSET Nat /\ S # {}
      BY <1>0
    <3> HIDE DEF S
    <3> QED  BY <3>1, LeastIndex
  <2>2. PICK m \in T(x) : \A j \in T(x) : m <= j
    <3>1. T(x) \in SUBSET Nat /\ T(x) # {}
      BY <1>0
    <3> HIDE DEF T
    <3> QED  BY <3>1, LeastIndex
  <2>3. m \in row /\ \A k \in row : cells[m].x - lo <= cells[k].x - lo
    BY <2>1, <2>2
  <2>4. ASSUME NEW k \in row PROVE k = m \/ LeftOf(cells, m, k)
    <3>1. CASE cells[k].x = cells[m].x
      <4>1. m <= k
        BY <2>2, <3>1
      <4> QED  BY <1>0, <2>3, <3>1, <4>1 DEF LeftOf
    <3>2. CASE cells[k].x # cells[m].x
      <4>1. cells[m].x < cells[k].x
        BY <1>0, <2>3, <3>2
      <4> QED  BY <4>1 DEF LeftOf
    <3> QED  BY <3>1, <3>2
  <2> QED  BY <2>3, <2>4
<1>2. \E m \in row : \A k \in row : k = m \/ LeftOf(cells, k, m)
  <2> DEFINE S == {hi - cells[i].x : i \in row}
             T(x) == {i \in row : hi - cells[i].x = x}
             U(x) == {n - i : i \in T(x)}
  <2>1. PICK x \in S : \A z \in S : x <= z
    <3>1. S \in SUBSET Nat /\ S # {}
      BY <1>0
    <3> HIDE DEF S
    <3> QED  BY <3>1, LeastIndex
  <2>2. PICK u \in U(x) : \A j \in U(x) : u <= j
    <3>1. U(x) \in SUBSET Nat /\ U(x) # {}
      BY <1>0
    <3> HIDE DEF U
    <3> QED  BY <3>1, LeastIndex
  <2>3. PICK m \in T(x) : u = n - m
    BY <2>2
  <2>4. m \in row /\ \A k \in row : hi - cells[m].x <= hi - cells[k].x
    BY <2>1, <2>3
  <2>5. ASSUME NEW k \in row PROVE k = m \/ LeftOf(cells, k, m)
    <3>1. CASE cells[k].x = cells[m].x
      <4>1. n - m <= n - k
        BY <2>2, <2>3, <3>1
      <4> QED  BY <1>0, <2>4, <3>1, <4>1 DEF LeftOf
    <3>2. CASE cells[k].x # cells[m].x
      <4>1. cells[k].x < cells[m].x
        BY <1>0, <2>4, <3>2
      <4> QED  BY <4>1 DEF LeftOf
    <3> QED  BY <3>1, <3>2
  <2> QED  BY <2>4, <2>5
<1> QED  BY <1>1, <1>2

(* What holds of a cell when it holds of all to its left, holds of the row. *)
LEMMA Rightward ==
  ASSUME NEW cells, NEW row, NEW n \in Nat, NEW lo \in Int, NEW hi \in Int,
         InRow(cells, row, n, lo, hi), NEW S,
         \A i \in row : Earlier(cells, row, i) \subseteq S => i \in S
  PROVE  row \subseteq S
<1> DEFINE T == row \ S
<1>1. CASE T = {}
  BY <1>1
<1>2. CASE T # {}
  <2>1. InRow(cells, T, n, lo, hi)
    BY DEF InRow
  <2>2. T \subseteq row
    OBVIOUS
  <2>3. PICK m \in T : \A k \in T : k = m \/ LeftOf(cells, m, k)
    <3> HIDE DEF T
    <3> QED  BY <1>2, <2>1, RowEnds
  <2>4. ASSUME NEW j \in Earlier(cells, row, m) PROVE j \in S
    <3>1. j \in row /\ LeftOf(cells, j, m)
      BY DEF Earlier
    <3>2. /\ cells[j].x \in Int /\ cells[m].x \in Int /\ j \in Int /\ m \in Int
      BY <3>1 DEF InRow
    <3>3. j # m /\ ~LeftOf(cells, m, j)
      BY <3>1, <3>2 DEF LeftOf
    <3> QED  BY <2>3, <3>1, <3>3
  <2> QED  BY <2>3, <2>4
<1> QED  BY <1>1, <1>2

LEMMA LeftOfOrder ==
  ASSUME NEW cells, NEW row, NEW n \in Nat, NEW lo \in Int, NEW hi \in Int,
         InRow(cells, row, n, lo, hi)
  PROVE  /\ \A i \in row : ~LeftOf(cells, i, i)
         /\ \A i, j \in row : i = j \/ LeftOf(cells, i, j) \/ LeftOf(cells, j, i)
         /\ \A i, j, k \in row : LeftOf(cells, i, j) /\ LeftOf(cells, j, k) => LeftOf(cells, i, k)
<1>1. \A i \in row : cells[i].x \in Int /\ i \in Int
  BY DEF InRow
<1> QED  BY <1>1 DEF LeftOf

(* The previous cell is the last of those before.                          *)
LEMMA PreviousIs ==
  ASSUME NEW cells, NEW row, NEW n \in Nat, NEW lo \in Int, NEW hi \in Int,
         InRow(cells, row, n, lo, hi), NEW i \in row, Earlier(cells, row, i) # {}
  PROVE  /\ Previous(cells, row, i) \in row /\ LeftOf(cells, Previous(cells, row, i), i)
         /\ \A k \in row : LeftOf(cells, k, i) =>
               k = Previous(cells, row, i) \/ LeftOf(cells, k, Previous(cells, row, i))
<1> DEFINE E == Earlier(cells, row, i)
           P(j) == \A k \in E : k = j \/ LeftOf(cells, k, j)
<1>1. InRow(cells, E, n, lo, hi)
  BY DEF InRow, Earlier
<1>2. E = {j \in row : LeftOf(cells, j, i)}
  BY DEF Earlier
<1>3. Previous(cells, row, i) = CHOOSE j \in E : P(j)
  BY DEF Previous
<1> HIDE DEF E
<1>4. \E j \in E : P(j)
  BY <1>1, RowEnds DEF E
<1>5. Previous(cells, row, i) \in E /\ P(Previous(cells, row, i))
  <2> HIDE DEF P
  <2> QED  BY <1>3, <1>4, Zenon
<1> QED  BY <1>2, <1>5
(* Where a cell starts, given where those before it do.                    *)
StartIn(cells, row, s, i) ==
  Pushed(cells[i].x, IF Earlier(cells, row, i) = {} THEN 0
                     ELSE s[Previous(cells, row, i)] + CellWidth[cells[Previous(cells, row, i)].cell])

(* The cells up to one.                                                    *)
UpTo(cells, row, i) == Earlier(cells, row, i) \cup {i}

LEMMA StartsAre ==
  ASSUME NEW cells, NEW row, NEW n \in Nat, NEW lo \in Int, NEW hi \in Int,
         InRow(cells, row, n, lo, hi)
  PROVE  \A i \in row : Starts(cells, row)[i] = StartIn(cells, row, Starts(cells, row), i)
<1> DEFINE At(s, i) == StartIn(cells, row, s, i)
           Solves(s, D) == s = [i \in D |-> At(s, i)]
           E(i) == Earlier(cells, row, i)
           S == {i \in row : \E s : Solves(s, UpTo(cells, row, i))}
<1>0. /\ \A i, j \in row : j \in E(i) <=> LeftOf(cells, j, i)
      /\ \A i \in row : E(i) \subseteq row
  BY DEF Earlier
<1>1. ASSUME NEW i \in row, E(i) \subseteq S PROVE i \in S
  <2>1. CASE E(i) = {}
    <3> DEFINE s == [j \in {i} |-> Pushed(cells[i].x, 0)]
    <3>1. s[i] = At(s, i)
      BY <2>1 DEF StartIn
    <3>2. Solves(s, {i})
      <4> DEFINE t == [j \in {i} |-> At(s, j)]
      <4>1. t[i] = s[i]
        <5> HIDE DEF s
        <5> QED  BY <3>1
      <4>2. s = t
        <5>1. DOMAIN s = {i} /\ DOMAIN t = {i}
          OBVIOUS
        <5>2. s = [j \in {i} |-> s[j]] /\ t = [j \in {i} |-> t[j]]
          OBVIOUS
        <5> HIDE DEF s, t
        <5> QED  BY <4>1, <5>2
      <4> QED  BY <4>2
    <3>3. UpTo(cells, row, i) = {i}
      BY <2>1 DEF UpTo
    <3> HIDE DEF s
    <3> HIDE DEF Solves
    <3> QED  BY <3>2, <3>3
  <2>2. CASE E(i) # {}
    <3> DEFINE p == Previous(cells, row, i)
    <3>1. /\ p \in row /\ LeftOf(cells, p, i)
          /\ \A k \in row : LeftOf(cells, k, i) => k = p \/ LeftOf(cells, k, p)
      BY <2>2, PreviousIs
    <3> HIDE DEF p
    <3>2. UpTo(cells, row, p) = E(i)
      BY <1>0, <3>1, LeftOfOrder DEF UpTo
    <3>3. p \in S
      <4>1. p \in E(i)
        BY <3>1, <1>0
      <4> HIDE DEF S
      <4> QED  BY <4>1, <1>1
    <3>4. PICK s : Solves(s, E(i))
      <4>1. \E s : Solves(s, UpTo(cells, row, p))
        BY <3>3
      <4> HIDE DEF Solves
      <4> QED  BY <4>1, <3>2
    <3> DEFINE D == UpTo(cells, row, i)
               more == [j \in D |-> At(s, j)]
    <3>5. \A j \in E(i) : s[j] = At(s, j)
      <4> HIDE DEF At, E
      <4> QED  BY <3>4
    <3>6. \A j \in E(i) : more[j] = s[j]
      BY <3>5 DEF UpTo
    <3>7. ASSUME NEW j \in D PROVE At(more, j) = At(s, j)
      <4>1. CASE E(j) = {}
        BY <4>1 DEF StartIn
      <4>2. CASE E(j) # {}
        <5>1. j \in row
          BY <1>0 DEF UpTo
        <5>2. Previous(cells, row, j) \in E(j)
          BY <4>2, <5>1, PreviousIs, <1>0
        <5>3. E(j) \subseteq E(i)
          BY <1>0, <5>1, LeftOfOrder DEF UpTo
        <5>4. more[Previous(cells, row, j)] = s[Previous(cells, row, j)]
          <6> HIDE DEF more, E
          <6> QED  BY <3>6, <5>2, <5>3
        <5> HIDE DEF more
        <5> QED  BY <5>4 DEF StartIn
      <4> QED  BY <4>1, <4>2
    <3>8. Solves(more, D)
      <4> HIDE DEF At
      <4>1. more = [j \in D |-> At(s, j)]
        OBVIOUS
      <4> HIDE DEF more, D
      <4> QED  BY <3>7, <4>1
    <3> HIDE DEF more, Solves
    <3> QED  BY <3>8
  <2> QED  BY <2>1, <2>2
<1>2. row \subseteq S
  <2>1. \A i \in row : Earlier(cells, row, i) \subseteq S => i \in S
    <3> HIDE DEF S
    <3> QED  BY <1>1
  <2> HIDE DEF S
  <2> QED  BY <2>1, Rightward
<1>3. \E s : Solves(s, row)
  <2>1. CASE row = {}
    <3> DEFINE s == [i \in {} |-> 0]
    <3>1. s = [i \in {} |-> At(s, i)]
      OBVIOUS
    <3> QED  BY <2>1, <3>1
  <2>2. CASE row # {}
    <3>1. PICK g \in row : \A k \in row : k = g \/ LeftOf(cells, k, g)
      BY <2>2, RowEnds
    <3>2. UpTo(cells, row, g) = row
      BY <1>0, <3>1 DEF UpTo
    <3>3. \E s : Solves(s, UpTo(cells, row, g))
      BY <1>2
    <3> HIDE DEF Solves
    <3> QED  BY <3>2, <3>3
  <2> QED  BY <2>1, <2>2
<1> DEFINE start == CHOOSE s : Solves(s, row)
<1>4. Solves(start, row)
  <2> HIDE DEF Solves
  <2> QED  BY <1>3
<1>5. Starts(cells, row) = start
  BY DEF Starts, StartIn
<1> HIDE DEF start
<1>6. \A i \in row : start[i] = At(start, i)
  <2> HIDE DEF At
  <2> QED  BY <1>4
<1> QED  BY <1>5, <1>6

(* The cells of a row start on sites, each after the end of those before.  *)
LEMMA RowPacked ==
  ASSUME NEW cells, NEW row, NEW n \in Nat, NEW lo \in Int, NEW hi \in Int,
         InRow(cells, row, n, lo, hi), \A i \in row : cells[i].cell \in CellKinds
  PROVE  /\ \A i \in row : \E k \in Int : Starts(cells, row)[i] = k * SiteWidth
         /\ \A i, j \in row : LeftOf(cells, j, i) =>
               Starts(cells, row)[j] + CellWidth[cells[j].cell] <= Starts(cells, row)[i]
<1> DEFINE s == Starts(cells, row)
           w(i) == CellWidth[cells[i].cell]
           p(i) == Previous(cells, row, i)
           E(i) == Earlier(cells, row, i)
           OnSite(x) == \E k \in Int : x = k * SiteWidth
<1>1. SiteWidth \in Int /\ 0 < SiteWidth
  BY SMT DEF SiteWidth
<1>2. \A i \in row : w(i) \in Nat /\ OnSite(w(i))
  <2> SUFFICES ASSUME NEW i \in row PROVE w(i) \in Nat /\ OnSite(w(i))
    OBVIOUS
  <2>1. PICK k \in Nat : 0 < k /\ w(i) = k * SiteWidth
    BY WidthIs
  <2>2. w(i) \in Nat
    BY SMT DEF CellKinds, CellWidth
  <2> QED  BY <2>1, <2>2
<1>3. \A i \in row : cells[i].x \in Int
  BY DEF InRow
<1>4. \A i \in row : s[i] = StartIn(cells, row, s, i)
  BY StartsAre
<1>5. ASSUME NEW x \in Int, NEW e, OnSite(e)
      PROVE  OnSite(Pushed(x, e)) /\ Pushed(x, e) \in Int /\ e <= Pushed(x, e)
  <2>1. Quotient(x, SiteWidth) \in Int
    BY <1>1, QuotientInt
  <2>2. PICK k \in Int : e = k * SiteWidth
    BY <1>5
  <2>3. e \in Int /\ Quotient(x, SiteWidth) * SiteWidth \in Int
    BY <1>1, <2>1, <2>2
  <2>4. CASE Quotient(x, SiteWidth) * SiteWidth < e
    BY <2>2, <2>3, <2>4 DEF Pushed
  <2>5. CASE ~(Quotient(x, SiteWidth) * SiteWidth < e)
    BY <2>1, <2>3, <2>5 DEF Pushed
  <2> QED  BY <2>4, <2>5
<1>6. ASSUME NEW a, NEW b, OnSite(a), OnSite(b) PROVE OnSite(a + b) /\ a \in Int
  <2>1. PICK k \in Int : a = k * SiteWidth
    BY <1>6
  <2>2. PICK m \in Int : b = m * SiteWidth
    BY <1>6
  <2>3. a + b = (k + m) * SiteWidth
    BY <2>1, <2>2, <1>1
  <2>4. OnSite(a + b)
    BY <2>3
  <2>5. a \in Int
    BY <2>1, <1>1
  <2> QED  BY <2>4, <2>5
<1>7. OnSite(0)
  <2>1. 0 = 0 * SiteWidth
    BY <1>1
  <2> QED  BY <2>1
<1> HIDE DEF s, OnSite
<1> DEFINE Sited == {i \in row : OnSite(s[i])}
<1>8. \A i \in row : E(i) # {} => p(i) \in E(i)
  BY PreviousIs DEF Earlier
<1>9. \A i \in row : E(i) \subseteq row
  BY DEF Earlier
<1>10. ASSUME NEW i \in row, E(i) \subseteq Sited PROVE i \in Sited
  <2>1. CASE E(i) = {}
    <3>1. s[i] = Pushed(cells[i].x, 0)
      BY <2>1, <1>4 DEF StartIn
    <3> QED  BY <3>1, <1>3, <1>5, <1>7
  <2>2. CASE E(i) # {}
    <3>1. s[i] = Pushed(cells[i].x, s[p(i)] + w(p(i)))
      BY <2>2, <1>4 DEF StartIn
    <3>2. p(i) \in row /\ OnSite(s[p(i)])
      BY <2>2, <1>8, <1>9, <1>10
    <3>3. OnSite(s[p(i)] + w(p(i)))
      BY <3>2, <1>2, <1>6
    <3> QED  BY <3>1, <3>3, <1>3, <1>5
  <2> QED  BY <2>1, <2>2
<1>11. row \subseteq Sited
  <2> HIDE DEF Sited
  <2> QED  BY <1>10, Rightward
<1>12. \A i \in row : OnSite(s[i]) /\ s[i] \in Int
  BY <1>6, <1>7, <1>11
<1> DEFINE After == {i \in row : \A j \in E(i) : s[j] + w(j) <= s[i]}
<1>13. ASSUME NEW i \in row, E(i) \subseteq After PROVE i \in After
  <2> SUFFICES ASSUME NEW j \in E(i) PROVE s[j] + w(j) <= s[i]
    OBVIOUS
  <2>1. s[i] = Pushed(cells[i].x, s[p(i)] + w(p(i)))
    BY <1>4 DEF StartIn
  <2>2. p(i) \in row /\ p(i) \in E(i)
    BY <1>8, <1>9
  <2>3. s[p(i)] + w(p(i)) <= s[i]
    <3>1. OnSite(s[p(i)] + w(p(i)))
      BY <2>2, <1>2, <1>6, <1>12
    <3> QED  BY <3>1, <2>1, <1>3, <1>5
  <2>4. /\ j \in row /\ s[j] \in Int /\ s[i] \in Int /\ s[p(i)] \in Int
        /\ w(j) \in Nat /\ w(p(i)) \in Nat
    BY <1>2, <1>9, <1>12, <2>2
  <2>5. CASE j = p(i)
    BY <2>3, <2>5
  <2>6. CASE j # p(i)
    <3>1. LeftOf(cells, j, p(i))
      BY <2>6, <2>4, PreviousIs DEF Earlier
    <3>2. j \in E(p(i))
      BY <3>1, <2>4 DEF Earlier
    <3>3. s[j] + w(j) <= s[p(i)]
      BY <3>2, <2>2, <1>13
    <3> HIDE DEF w, p
    <3> QED  BY <3>3, <2>3, <2>4
  <2> QED  BY <2>5, <2>6
<1>14. row \subseteq After
  <2> HIDE DEF After
  <2> QED  BY <1>13, Rightward
<1>15. \A i, j \in row : LeftOf(cells, j, i) => s[j] + w(j) <= s[i]
  <2>1. \A i, j \in row : LeftOf(cells, j, i) => j \in E(i)
    BY DEF Earlier
  <2> HIDE DEF E, w
  <2> QED  BY <2>1, <1>14
<1> QED  BY <1>12, <1>15 DEF s, OnSite
(* The cells on rows and sites, the way up their rows have, and apart.     *)
RowsLegal(L, cells, n) ==
  /\ DOMAIN L = 1 .. n
  /\ \A i \in 1 .. n :
        /\ L[i].cell = cells[i].cell
        /\ L[i].x % SiteWidth = 0 /\ L[i].y % RowHeight = 0
        /\ L[i].flipped = ((L[i].y \div RowHeight) % 2 # 0)
  /\ \A i, j \in 1 .. n : i # j /\ L[i].y = L[j].y =>
        \/ L[i].x + CellWidth[L[i].cell] <= L[j].x
        \/ L[j].x + CellWidth[L[j].cell] <= L[i].x

PlacedIn(cells, n, r) ==
  /\ DOMAIN cells = 1 .. n
  /\ \A i \in 1 .. n : /\ cells[i].cell \in CellKinds
                       /\ cells[i].x \in r.x .. r.x + r.w /\ cells[i].y \in Int

LEMMA LegalizedOK ==
  ASSUME NEW r \in [x : Int, y : Int, w : Int, h : Int], NEW n \in Nat,
         NEW cells, PlacedIn(cells, n, r)
  PROVE  RowsLegal(LegalizeToRows(cells, r), cells, n)
<1> DEFINE L == LegalizeToRows(cells, r)
<1>0. /\ DOMAIN cells = 1 .. n
      /\ \A i \in 1 .. n : /\ cells[i].cell \in CellKinds
                           /\ cells[i].x \in r.x .. r.x + r.w /\ cells[i].y \in Int
  BY DEF PlacedIn
<1> DEFINE rows == Rows(r)
           RowOf(i) == NearestRow(rows, cells[i].y)
           In(k) == {i \in DOMAIN cells : RowOf(i) = k}
<1>1. L = [i \in DOMAIN cells |->
             [cell |-> cells[i].cell, x |-> Starts(cells, In(RowOf(i)))[i],
              y |-> rows[RowOf(i)].y, flipped |-> rows[RowOf(i)].flipped]]
  BY DEF LegalizeToRows
<1> HIDE DEF L
<1>2. PICK m \in Nat, first \in Int :
        /\ 0 < m /\ DOMAIN rows = 1 .. m
        /\ \A i \in 1 .. m : /\ rows[i].y = (first + i - 1) * RowHeight
                             /\ rows[i].flipped = ((first + i - 1) % 2 # 0)
  BY RowFacts
<1> HIDE DEF rows
<1>3. \A i \in 1 .. n : RowOf(i) \in 1 .. m
  <2>1. \A i \in 1 .. m : rows[i].y \in Int
    BY <1>2, SMT DEF RowHeight
  <2>2. \A i \in 1 .. n : cells[i].y \in Int
    BY <1>0
  <2> QED  BY <1>2, <2>1, <2>2, NearestIsRow
<1> HIDE DEF RowOf
<1>4. ASSUME NEW k
      PROVE  /\ InRow(cells, In(k), n, r.x, r.x + r.w)
             /\ \A i \in In(k) : cells[i].cell \in CellKinds
  BY <1>0 DEF InRow
<1>5. ASSUME NEW k
      PROVE  /\ \A i \in In(k) : \E q \in Int : Starts(cells, In(k))[i] = q * SiteWidth
             /\ \A i, j \in In(k) : LeftOf(cells, j, i) =>
                   Starts(cells, In(k))[j] + CellWidth[cells[j].cell] <= Starts(cells, In(k))[i]
  <2> HIDE DEF In
  <2>1. r.x \in Int /\ r.x + r.w \in Int
    OBVIOUS
  <2> QED  BY <1>4, <2>1, RowPacked
<1>6. \A i \in 1 .. n : i \in In(RowOf(i))
  BY <1>0
<1>7. /\ DOMAIN L = 1 .. n
      /\ \A i \in 1 .. n : /\ L[i].cell = cells[i].cell
                           /\ L[i].x = Starts(cells, In(RowOf(i)))[i]
                           /\ L[i].y = rows[RowOf(i)].y /\ L[i].flipped = rows[RowOf(i)].flipped
  <2> HIDE DEF In
  <2>1. DOMAIN L = 1 .. n
    BY <1>0, <1>1
  <2>2. ASSUME NEW i \in 1 .. n
        PROVE  L[i] = [cell |-> cells[i].cell, x |-> Starts(cells, In(RowOf(i)))[i],
                       y |-> rows[RowOf(i)].y, flipped |-> rows[RowOf(i)].flipped]
    BY <1>0, <1>1
  <2> QED  BY <2>1, <2>2
<1>8. ASSUME NEW i \in 1 .. n
      PROVE  /\ L[i].x % SiteWidth = 0 /\ L[i].y % RowHeight = 0
             /\ L[i].flipped = ((L[i].y \div RowHeight) % 2 # 0)
  <2>1. PICK q \in Int : L[i].x = q * SiteWidth
    <3> HIDE DEF In
    <3> QED  BY <1>5, <1>6, <1>7
  <2>2. L[i].x % SiteWidth = 0
    BY <2>1, SMT DEF SiteWidth
  <2> DEFINE k == first + RowOf(i) - 1
  <2>3. k \in Int /\ L[i].y = k * RowHeight /\ L[i].flipped = (k % 2 # 0)
    <3>1. L[i].y = rows[RowOf(i)].y /\ L[i].flipped = rows[RowOf(i)].flipped
      BY <1>7
    <3>2. RowOf(i) \in 1 .. m
      BY <1>3
    <3>3. /\ rows[RowOf(i)].y = (first + RowOf(i) - 1) * RowHeight
          /\ rows[RowOf(i)].flipped = ((first + RowOf(i) - 1) % 2 # 0)
      BY <3>2, <1>2
    <3>4. k \in Int
      BY <3>2
    <3> QED  BY <3>1, <3>3, <3>4, Zenon
  <2> HIDE DEF k
  <2>4. L[i].y % RowHeight = 0 /\ L[i].y \div RowHeight = k
    BY <2>3, SMT DEF RowHeight
  <2> QED  BY <2>2, <2>3, <2>4
<1>9. ASSUME NEW i \in 1 .. n, NEW j \in 1 .. n, i # j, L[i].y = L[j].y
      PROVE  \/ L[i].x + CellWidth[L[i].cell] <= L[j].x
             \/ L[j].x + CellWidth[L[j].cell] <= L[i].x
  <2>1. RowOf(i) = RowOf(j)
    <3>1. /\ L[i].y = (first + RowOf(i) - 1) * RowHeight
          /\ L[j].y = (first + RowOf(j) - 1) * RowHeight
      BY <1>2, <1>3, <1>7
    <3>2. RowOf(i) \in Int /\ RowOf(j) \in Int
      BY <1>3
    <3> DEFINE a == first + RowOf(i) - 1
               b == first + RowOf(j) - 1
    <3>3. a * RowHeight = b * RowHeight
      BY <1>9, <3>1, Zenon
    <3>4. a \in Int /\ b \in Int
      BY <3>2
    <3>5. a = b
      <4> HIDE DEF a, b
      <4> QED  BY <3>3, <3>4, SMT DEF RowHeight
    <3> QED  BY <3>2, <3>5
  <2> DEFINE k == RowOf(i)
  <2>2. i \in In(k) /\ j \in In(k)
    BY <2>1, <1>6
  <2>3. LeftOf(cells, i, j) \/ LeftOf(cells, j, i)
    <3>1. cells[i].x \in Int /\ cells[j].x \in Int
      BY <1>0
    <3> QED  BY <1>9, <3>1 DEF LeftOf
  <2>4. /\ L[i].x = Starts(cells, In(k))[i] /\ L[j].x = Starts(cells, In(k))[j]
        /\ L[i].cell = cells[i].cell /\ L[j].cell = cells[j].cell
    <3> HIDE DEF In
    <3> QED  BY <1>7, <2>1
  <2> HIDE DEF k, In
  <2> QED  BY <1>5, <2>2, <2>3, <2>4
<1> QED  BY <1>7, <1>8, <1>9, Zenon DEF RowsLegal, L
-----------------------------------------------------------------------------
(* Sequences, whatever their elements. *)
IsSeq(s) == s \in Seq({s[i] : i \in DOMAIN s})

LEMMA SeqFacts ==
    ASSUME NEW s, IsSeq(s)
    PROVE  Len(s) \in Nat /\ DOMAIN s = 1 .. Len(s) /\ DOMAIN s \subseteq Nat
  BY DEF IsSeq

LEMMA NoneSeq ==
    ASSUME NEW s, s = <<>>
    PROVE  IsSeq(s) /\ Len(s) = 0 /\ DOMAIN s = {}
<1>1. Len(s) = 0 /\ DOMAIN s = {}
  OBVIOUS
<1>2. IsSeq(s)
  BY DEF IsSeq
<1> QED  BY <1>1, <1>2

LEMMA SameDomainSeq ==
    ASSUME NEW s, NEW t, IsSeq(s), t = [i \in DOMAIN s |-> t[i]]
    PROVE  IsSeq(t)
<1>1. Len(s) \in Nat /\ DOMAIN s = 1 .. Len(s)
  BY SeqFacts
<1>2. t \in [1 .. Len(s) -> {t[i] : i \in DOMAIN t}]
  BY <1>1
<1> QED  BY <1>1, <1>2 DEF IsSeq

LEMMA Appended ==
    ASSUME NEW T, NEW s \in Seq(T), NEW e \in T
    PROVE  /\ Append(s, e) \in Seq(T)
           /\ Len(Append(s, e)) = Len(s) + 1
           /\ DOMAIN Append(s, e) = 1 .. Len(s) + 1 /\ DOMAIN s = 1 .. Len(s)
           /\ \A k \in 1 .. Len(s) : Append(s, e)[k] = s[k]
           /\ Append(s, e)[Len(s) + 1] = e
           /\ Len(s) \in Nat
  OBVIOUS

LEMMA AppendSeq ==
    ASSUME NEW s, NEW e, IsSeq(s)
    PROVE  /\ IsSeq(Append(s, e)) /\ Len(Append(s, e)) = Len(s) + 1
           /\ \A i \in DOMAIN Append(s, e) : \/ Append(s, e)[i] = e
                                             \/ i \in DOMAIN s /\ Append(s, e)[i] = s[i]
<1> DEFINE T == {s[i] : i \in DOMAIN s} \cup {e}
           t == Append(s, e)
<1>1. s \in Seq(T) /\ e \in T
  BY DEF IsSeq
<1> HIDE DEF T
<1>2. /\ t \in Seq(T) /\ Len(t) = Len(s) + 1 /\ Len(s) \in Nat
      /\ DOMAIN t = 1 .. Len(s) + 1 /\ DOMAIN s = 1 .. Len(s)
      /\ \A k \in 1 .. Len(s) : t[k] = s[k]
      /\ t[Len(s) + 1] = e
  BY <1>1, Appended
<1> HIDE DEF t
<1>3. IsSeq(t)
  BY <1>2 DEF IsSeq
<1>4. \A i \in DOMAIN t : t[i] = e \/ (i \in DOMAIN s /\ t[i] = s[i])
  BY <1>2
<1> QED  BY <1>2, <1>3, <1>4 DEF t

LEMMA ConcatSeq ==
    ASSUME NEW s, NEW t, IsSeq(s), IsSeq(t)
    PROVE  /\ IsSeq(s \o t) /\ Len(s \o t) = Len(s) + Len(t)
           /\ \A i \in DOMAIN (s \o t) : \/ \E j \in DOMAIN s : (s \o t)[i] = s[j]
                                         \/ \E j \in DOMAIN t : (s \o t)[i] = t[j]
<1> DEFINE T == {s[i] : i \in DOMAIN s} \cup {t[i] : i \in DOMAIN t}
           u == s \o t
<1>1. s \in Seq(T) /\ t \in Seq(T)
  BY DEF IsSeq
<1> HIDE DEF T
<1>2. u \in Seq(T) /\ Len(u) = Len(s) + Len(t)
  BY <1>1
<1> HIDE DEF u
<1>3. IsSeq(u)
  BY <1>2 DEF IsSeq
<1>4. \A i \in DOMAIN u : u[i] \in T
  BY <1>2
<1> QED  BY <1>2, <1>3, <1>4 DEF u, T

-----------------------------------------------------------------------------
(* The cells: mapped, placed in their order, and put on rows.              *)

CellSet == [cell : CellKinds, x : Int, y : Int]
InstanceOK(c) == c.cell \in CellKinds /\ Len(c.inputs) \in Nat

CellsInv ==
  /\ IsSeq(netlist) /\ \A i \in DOMAIN netlist : InstanceOK(netlist[i])
  /\ placed \in Seq(CellSet) /\ Len(placed) <= Len(netlist)
  /\ \A i \in DOMAIN placed :
        /\ placed[i].cell = netlist[i].cell
        /\ placed[i].x \in options.region.x .. options.region.x + options.region.w
  /\ phase \notin {"place", "verify", "done", "panicked"} => placed = <<>>
  /\ phase = "place" => pos = Len(placed) + 1
  /\ phase \in {"verify", "done"} => /\ Len(placed) = Len(netlist)
                                    /\ legal = LegalizeToRows(placed, options.region)

LEMMA CellsFrame ==
  ASSUME CellsInv, UNCHANGED options, UNCHANGED placing,
         phase \notin {"place", "verify", "done", "panicked"},
         phase' \notin {"place", "verify", "done", "panicked"}
  PROVE  CellsInv'
  BY DEF CellsInv, placing

LEMMA CellsInit == Init => CellsInv
<1> SUFFICES ASSUME Init PROVE CellsInv
  OBVIOUS
<1>1. netlist = <<>> /\ placed = <<>> /\ phase = "registers"
  BY DEF Init
<1>2. placed \in Seq(CellSet) /\ Len(placed) = 0 /\ DOMAIN placed = {}
  BY <1>1
<1>3. IsSeq(netlist) /\ Len(netlist) = 0 /\ DOMAIN netlist = {}
  <2>1. netlist = <<>>
    BY <1>1
  <2> QED  BY <2>1, NoneSeq, Zenon
<1> QED  BY <1>1, <1>2, <1>3 DEF CellsInv

LEMMA InstanceIs == ASSUME NEW n PROVE InstanceOK(Instance(n))
<1> DEFINE C == Candidates(n)
           ins == [i \in 1 .. 2 |-> opt.nodes[n][i].node]
           plain == [cell |-> "nand2", inputs |-> ins, delay |-> 25]
           P(c) == \A d \in C : c.delay <= d.delay
<1>1. Len(ins) \in Nat
  <2>1. ins \in Seq({ins[i] : i \in 1 .. 2})
    OBVIOUS
  <2> HIDE DEF ins
  <2> QED  BY <2>1
<1>2. plain \in C
  BY DEF Candidates
<1>3. ASSUME NEW c \in C
      PROVE  c = plain \/ (c.cell = "aoi21" /\ c.delay = 40 /\ Len(c.inputs) = 6)
  <2> DEFINE c1 == CutOf(ins[1])
             merged == c1 \o SelectSeq(CutOf(ins[2]), LAMBDA m : \A i \in DOMAIN c1 : c1[i] # m)
             wide == {[cell |-> "aoi21", inputs |-> m, delay |-> 40] : m \in {d \in {merged} : Len(d) = 6}}
  <2>1. C = {plain} \cup wide
    BY DEF Candidates
  <2> HIDE DEF C, plain, merged
  <2> QED  BY <2>1
<1> HIDE DEF C, ins
<1>4. \E c \in C : P(c)
  <2>1. P(plain)
    BY <1>3
  <2> HIDE DEF P, plain
  <2> QED  BY <1>2, <2>1
<1> DEFINE best == CHOOSE c \in C : P(c)
<1>5. best \in C
  <2> HIDE DEF P
  <2> QED  BY <1>4
<1>6. Instance(n) = [cell |-> best.cell, inputs |-> best.inputs, out |-> n]
  BY DEF Instance, C
<1> HIDE DEF best
<1> QED  BY <1>1, <1>3, <1>5, <1>6 DEF InstanceOK, CellKinds

LEMMA MapNodeCells == ASSUME IInv, CellsInv, MapNode PROVE CellsInv'
<1>1. CASE netlist' = netlist
  BY <1>1 DEF CellsInv, MapNode, Stay
<1>2. CASE netlist' = Append(netlist, Instance(pos))
  <2>1. IsSeq(netlist) /\ placed = <<>> /\ placed' = <<>> /\ phase' = "map"
    BY DEF CellsInv, MapNode, Stay
  <2>2. /\ IsSeq(netlist') /\ Len(netlist') \in Nat
        /\ \A i \in DOMAIN netlist' : netlist'[i] = Instance(pos) \/ (i \in DOMAIN netlist /\ netlist'[i] = netlist[i])
    BY <1>2, <2>1, AppendSeq, SeqFacts
  <2>3. \A i \in DOMAIN netlist' : InstanceOK(netlist'[i])
    BY <2>2, InstanceIs DEF CellsInv
  <2>4. placed' \in Seq(CellSet) /\ Len(placed') = 0 /\ DOMAIN placed' = {}
    BY <2>1
  <2> QED  BY <2>1, <2>2, <2>3, <2>4 DEF CellsInv
<1> QED  BY <1>1, <1>2 DEF MapNode

LEMMA MapRegistersCells == ASSUME IInv, CellsInv, MapRegisters PROVE CellsInv'
<1> DEFINE dffs == [i \in DOMAIN opt.registers |->
                      [cell |-> "dff", inputs |-> <<opt.registers[i].d.node>>,
                       out |-> opt.registers[i].q]]
<1>1. IsSeq(netlist) /\ placed = <<>> /\ placed' = <<>> /\ phase' = "place" /\ pos' = 1
  BY DEF CellsInv, MapRegisters, GoTo
<1>2. IsSeq(dffs)
  <2>1. opt.registers \in Seq([name : STRING, q : Nat, d : EdgeSet])
    BY DEF IInv, GraphOK, GraphTyped
  <2>2. IsSeq(opt.registers)
    BY <2>1 DEF IsSeq
  <2>3. dffs = [i \in DOMAIN opt.registers |-> dffs[i]]
    OBVIOUS
  <2> HIDE DEF dffs
  <2> QED  BY <2>2, <2>3, SameDomainSeq
<1>3. \A i \in DOMAIN dffs : InstanceOK(dffs[i])
  BY DEF InstanceOK, CellKinds
<1>4. netlist' = netlist \o dffs
  BY DEF MapRegisters
<1> HIDE DEF dffs
<1>5. /\ IsSeq(netlist') /\ Len(netlist') \in Nat
      /\ \A i \in DOMAIN netlist' : \/ \E j \in DOMAIN netlist : netlist'[i] = netlist[j]
                                    \/ \E j \in DOMAIN dffs : netlist'[i] = dffs[j]
  BY <1>1, <1>2, <1>4, ConcatSeq, SeqFacts
<1>6. \A i \in DOMAIN netlist' : InstanceOK(netlist'[i])
  BY <1>3, <1>5 DEF CellsInv
<1>7. placed' \in Seq(CellSet) /\ Len(placed') = 0 /\ DOMAIN placed' = {}
  BY <1>1
<1> QED  BY <1>1, <1>5, <1>6, <1>7 DEF CellsInv

LEMMA RegionTyped == ASSUME IInv PROVE options.region \in [x : Int, y : Int, w : Int, h : Int]
  BY OptionsTyped DEF IInv

LEMMA PlaceCellCells == ASSUME IInv, CellsInv, PlaceCell PROVE CellsInv'
<1> DEFINE inst == netlist[pos]
           r == options.region
           known == PlacedInputs(inst)
           t == Target(GridPoint(pos, Len(netlist), r), Len(inst.inputs), known)
           p == ClampedTo(inst.cell, r, t)
           e == [cell |-> inst.cell, x |-> p.x, y |-> p.y]
<1>1. /\ IsSeq(netlist) /\ placed \in Seq(CellSet) /\ pos = Len(placed) + 1
      /\ pos <= Len(netlist) /\ Fits(inst.cell, r) /\ phase = "place" /\ phase' = "place"
      /\ pos' = pos + 1 /\ UNCHANGED <<netlist, options>>
  BY DEF CellsInv, PlaceCell, Stay
<1>2. placed' = Append(placed, e)
  BY DEF PlaceCell
<1>3. r \in [x : Int, y : Int, w : Int, h : Int]
  BY RegionTyped
<1>4. Len(netlist) \in Nat /\ DOMAIN netlist = 1 .. Len(netlist) /\ pos \in Nat /\ 0 < pos
  BY <1>1, SeqFacts DEF IInv
<1>5. InstanceOK(inst)
  BY <1>1, <1>4 DEF CellsInv
<1>6. \A k \in DOMAIN known : known[k].x \in Int /\ known[k].y \in Int
  <2> SUFFICES ASSUME NEW k \in DOMAIN known PROVE known[k].x \in Int /\ known[k].y \in Int
    OBVIOUS
  <2> DEFINE D == Drivers(inst.inputs[k])
             j == CHOOSE j0 \in D : TRUE
  <2>1. D # {} /\ known[k] = placed[j]
    BY DEF PlacedInputs
  <2>2. j \in DOMAIN placed
    <3>1. j \in D
      <4> HIDE DEF D
      <4> QED  BY <2>1
    <3> QED  BY <3>1 DEF Drivers
  <2> HIDE DEF j
  <2>3. placed[j] \in CellSet
    BY <1>1, <2>2
  <2> QED  BY <2>1, <2>3 DEF CellSet
<1>7. t.x \in Int /\ t.y \in Int
  <2>1. GridPoint(pos, Len(netlist), r).x \in Int /\ GridPoint(pos, Len(netlist), r).y \in Int
    BY <1>3, <1>4, GridInt
  <2> HIDE DEF known, inst, r
  <2> QED  BY <1>5, <1>6, <2>1, TargetInt DEF InstanceOK
<1> HIDE DEF t
<1>8. p.x \in r.x .. r.x + r.w /\ p.y \in Int /\ inst.cell \in CellKinds
  BY <1>1, <1>3, <1>5, <1>7, ClampedInside DEF InstanceOK
<1> HIDE DEF p
<1>9. e \in CellSet /\ e.cell = inst.cell /\ e.x \in r.x .. r.x + r.w
  BY <1>3, <1>8 DEF CellSet
<1> HIDE DEF e
<1>10. /\ placed' \in Seq(CellSet) /\ Len(placed') = Len(placed) + 1
       /\ Len(placed) \in Nat /\ DOMAIN placed' = 1 .. Len(placed) + 1
       /\ DOMAIN placed = 1 .. Len(placed)
       /\ \A k \in 1 .. Len(placed) : placed'[k] = placed[k]
       /\ placed'[Len(placed) + 1] = e
  BY <1>1, <1>2, <1>9, Appended
<1>11. Len(placed') <= Len(netlist') /\ pos' = Len(placed') + 1
  BY <1>1, <1>10
<1>12. ASSUME NEW i \in DOMAIN placed'
       PROVE  placed'[i].cell = netlist'[i].cell /\ placed'[i].x \in r.x .. r.x + r.w
  <2>1. CASE i = Len(placed) + 1
    BY <1>1, <1>9, <1>10, <2>1
  <2>2. CASE i # Len(placed) + 1
    <3>1. i \in DOMAIN placed /\ placed'[i] = placed[i]
      BY <1>10, <2>2
    <3>2. placed[i].cell = netlist[i].cell /\ placed[i].x \in r.x .. r.x + r.w
      BY <3>1 DEF CellsInv
    <3> QED  BY <1>1, <3>1, <3>2
  <2> QED  BY <2>1, <2>2
<1> QED  BY <1>1, <1>10, <1>11, <1>12 DEF CellsInv

LEMMA LaterCells == ASSUME IInv, CellsInv, PlacePanics \/ Legalize \/ Verify PROVE CellsInv'
<1>1. CASE PlacePanics
  BY <1>1 DEF CellsInv, PlacePanics, GoTo, placing
<1>2. CASE Legalize
  <2>1. Len(placed) \in Nat /\ Len(netlist) \in Nat /\ Len(placed) <= Len(netlist)
    BY SeqFacts DEF CellsInv
  <2>2. pos = Len(placed) + 1 /\ pos > Len(netlist)
    BY <1>2 DEF CellsInv, Legalize
  <2>3. Len(placed) = Len(netlist)
    BY <2>1, <2>2
  <2> QED  BY <1>2, <2>3 DEF CellsInv, Legalize, GoTo
<1>3. CASE Verify
  BY <1>3 DEF CellsInv, Verify, GoTo, placing
<1> QED  BY <1>1, <1>2, <1>3

LEMMA CellsKept == ASSUME IInv, CellsInv, [Next]_vars PROVE CellsInv'
<1> USE DEF GoTo, Stay, Lowering
<1>1. CASE Lower
  <2>1. /\ phase \in {"registers", "lower"} /\ phase' \in {"registers", "lower", "simulate", "map"}
        /\ UNCHANGED options /\ UNCHANGED placing
    <3>1. CASE DeclareRegister \/ EndRegisters
      BY <3>1 DEF DeclareRegister, EndRegisters
    <3>2. CASE LowerVariable \/ LowerLiteral \/ LowerOther \/ LowerNot \/ LowerSign
      BY <3>2 DEF LowerVariable, LowerLiteral, LowerOther, LowerNot, LowerSign
    <3>5. CASE LowerBinary \/ Assign
      BY <3>5 DEF LowerBinary, Assign
    <3>3. CASE BeginIf \/ Else \/ EndIf
      BY <3>3 DEF BeginIf, Else, EndIf
    <3>4. CASE Finalize
      BY <3>4 DEF Finalize
    <3> QED  BY <1>1, <3>1, <3>2, <3>3, <3>4, <3>5 DEF Lower
  <2> QED  BY <2>1, CellsFrame
<1>2. CASE Reduce
  <2>1. /\ phase \in {"simulate", "classify", "rebuild"}
        /\ phase' \in {"simulate", "classify", "rebuild", "map"}
        /\ UNCHANGED options /\ UNCHANGED placing
    BY <1>2 DEF Reduce, Simulate, Classify, CopySources, RebuildNode, RemapRoots
  <2> QED  BY <2>1, CellsFrame
<1>3. CASE Place \/ Verify
  BY <1>3, MapNodeCells, MapRegistersCells, PlaceCellCells, LaterCells DEF Place
<1>4. CASE UNCHANGED vars
  BY <1>4 DEF CellsInv, vars
<1> QED  BY <1>1, <1>2, <1>3, <1>4 DEF Next, Stopped

-----------------------------------------------------------------------------
(* The theorems.                                                           *)

(* Type correctness, and the form of both graphs at every step: fanins made
   before their node, no gate stored that a rule would fold, no two gates
   alike (arena.rs, add_and).                                               *)
THEOREM ArenasKept == Spec => []ArenasOK
<1>1. ASSUME IInv PROVE ArenasOK
  <2>1. /\ program \in Programs /\ options \in Options /\ phase \in Phases
        /\ verified \in {"no", "yes", "mismatch"} /\ GraphOK(golden) /\ GraphOK(opt)
        /\ \A n \in DOMAIN mapping : mapping[n] \in EdgesOf(opt)
    BY <1>1 DEF IInv
  <2>2. \A i \in DOMAIN edges : edges[i] \in EdgesOf(golden)
    <3>1. edges \in Seq(EdgesOf(golden))
      BY <1>1 DEF IInv, StacksOK
    <3> QED  BY <3>1
  <2>3. ASSUME NEW g \in {golden, opt}
        PROVE  /\ \A r \in Range(g.registers) : r.d \in EdgesOf(g)
               /\ \A n \in DOMAIN g.outputs : g.outputs[n] \in EdgesOf(g)
    BY <2>1 DEF GraphOK, RootsOK, Range
  <2>4. TypeOK
    BY <2>1, <2>2, <2>3 DEF TypeOK, Phases
  <2> QED  BY <2>1, <2>4 DEF ArenasOK, GraphOK
<1> QED  BY Invariance, <1>1, PTL

(* Whatever the samples were and however the candidates fell, the reduced
   graph computes what the lowered one does (fraig.rs, optimize).           *)
THEOREM ReductionIsSound == Spec => []ReductionKeepsFunctions
<1>1. IInv => ReductionKeepsFunctions
  BY DEF IInv, ReducedOK, ReductionKeepsFunctions
<1> QED  BY Invariance, <1>1, PTL

(* The checker passes no root that computes something else, and objects to
   nothing else where no root is a constant and no input was declared in both
   branches of an "if" (cec.rs, verify_miter).                              *)
THEOREM CheckerIsRight == Spec => []CheckerRight
<1>1. ASSUME IInv PROVE CheckerSound
  BY <1>1, AlteredOK, SoundOn DEF CheckerSound
<1>2. ASSUME IInv PROVE CheckerExact
  <2> SUFFICES ASSUME phase = "verify", NEW s \in Altered,
                      \A r \in ComparedRoots(golden, s) : 0 \notin {r[1].node, r[2].node},
                      \A i, j \in DOMAIN golden.inputs :
                         golden.inputs[i].name = golden.inputs[j].name => i = j
               PROVE  MismatchFound(golden, s) <=> ~SameFunctions(golden, s)
    BY DEF CheckerExact
  <2>1. GraphOK(s) /\ Mirror(s, golden) /\ DOMAIN s.outputs = DOMAIN golden.outputs
    BY <1>2, AlteredOK
  <2>2. ~MismatchFound(golden, s) => SameFunctions(golden, s)
    BY <1>2, <2>1, SoundOn
  <2>3. MismatchFound(golden, s) => ~SameFunctions(golden, s)
    BY <1>2, <2>1, ExactOn
  <2> QED  BY <2>2, <2>3
<1>3. IInv => CheckerRight
  BY <1>1, <1>2 DEF CheckerRight
<1> QED  BY Invariance, <1>3, PTL

(* Whatever the netlist and the region, the cells that were placed are put on
   rows and sites, the way up the row's rails have, and none overlaps another
   (row_legalizer.rs).                                                      *)
THEOREM PlacementIsLegal == Spec => []PlacementLegal
<1>1. IInv /\ CellsInv /\ [Next]_vars => CellsInv'
  BY CellsKept
<1>2. ASSUME IInv, CellsInv PROVE PlacementLegal
  <2> SUFFICES ASSUME phase \in {"verify", "done"}
               PROVE  /\ DOMAIN legal = DOMAIN netlist
                      /\ \A i \in DOMAIN legal :
                           /\ legal[i].cell = netlist[i].cell
                           /\ legal[i].x % SiteWidth = 0 /\ legal[i].y % RowHeight = 0
                           /\ legal[i].flipped = ((legal[i].y \div RowHeight) % 2 # 0)
                      /\ \A i, j \in DOMAIN legal :
                           i # j /\ legal[i].y = legal[j].y =>
                             \/ legal[i].x + CellWidth[legal[i].cell] <= legal[j].x
                             \/ legal[j].x + CellWidth[legal[j].cell] <= legal[i].x
    BY DEF PlacementLegal
  <2> DEFINE n == Len(netlist)
             r == options.region
  <2>1. n \in Nat /\ DOMAIN netlist = 1 .. n /\ placed \in Seq(CellSet) /\ Len(placed) = n
        /\ legal = LegalizeToRows(placed, r)
    BY <1>2, SeqFacts DEF CellsInv
  <2>2. r \in [x : Int, y : Int, w : Int, h : Int]
    BY <1>2, RegionTyped
  <2>3. DOMAIN placed = 1 .. n
    BY <2>1
  <2>4. \A i \in 1 .. n : /\ placed[i].cell \in CellKinds /\ placed[i].y \in Int
                           /\ placed[i].cell = netlist[i].cell
                           /\ placed[i].x \in r.x .. r.x + r.w
    <3>1. \A i \in 1 .. n : placed[i] \in CellSet
      BY <2>1, <2>3
    <3> QED  BY <1>2, <2>3, <3>1 DEF CellsInv, CellSet
  <2>5. PlacedIn(placed, n, r)
    BY <2>3, <2>4 DEF PlacedIn
  <2>6. RowsLegal(legal, placed, n)
    <3> HIDE DEF n, r
    <3> QED  BY <2>1, <2>2, <2>5, LegalizedOK
  <2> QED  BY <2>1, <2>4, <2>6, Zenon DEF RowsLegal
<1> QED  BY Invariance, CellsInit, <1>1, <1>2, PTL DEF Spec
=============================================================================
