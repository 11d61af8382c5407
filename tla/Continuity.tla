----------------------------- MODULE Continuity -----------------------------
(* The continuity check of the commit gate (hwc-cli build_cmd/validation/utils.rs
   and continuity.rs, hwc-physics pivb/): the metal of a space is made a list of
   pieces, each a box with a net and a material; pieces of one net that touch are
   welded into islands; contacts bridge islands; a net is continuous if its
   islands and bridges are one component.

   An island keeps only the box around its members (merged_bbox), and that box is
   what contacts and device terminals are tested against.

   Boxes are closed intervals in three axes; names stand for nets by name, and
   None for a piece without a net.  The routing database's routes, which the
   build command never fills, and centres and reports are left out. *)
EXTENDS Integers, Sequences, FiniteSets, SequencesExt, FiniteSetsExt, Functions

CONSTANTS None,          \* no net, no device
          Conductive,    \* the conductive materials
          Enclosure      \* contact_expansion of the technology

ASSUME EnclosureTyped == Enclosure \in Int

Axes == 1..3
Touch(a, b) == \A d \in Axes : a.lo[d] <= b.hi[d] /\ a.hi[d] >= b.lo[d]
Hull(boxes) == [lo |-> [d \in Axes |-> Min({b.lo[d] : b \in boxes})],
                hi |-> [d \in Axes |-> Max({b.hi[d] : b \in boxes})]]
Grown(box, e) == [lo |-> <<box.lo[1] - e, box.lo[2] - e, box.lo[3]>>,
                  hi |-> <<box.hi[1] + e, box.hi[2] + e, box.hi[3]>>]

(* Coordinates are integers: nanometres. *)
IsBox(b) == \A d \in Axes : b.lo[d] \in Int /\ b.hi[d] \in Int
IsList(s) == s \in Seq(Range(s))
Listed(s, Test(_)) == IsList(s) /\ \A i \in DOMAIN s : Test(s[i])
IsMetal(space) ==
    /\ Listed(space.pours, LAMBDA pour : Listed(pour.regions, IsBox))
    /\ Listed(space.contacts, LAMBDA c : IsBox(c.box))
    /\ Listed(space.traces, LAMBDA t :
            /\ t.z[1] \in Int /\ t.z[2] \in Int /\ t.half \in Int
            /\ Listed(t.segments, LAMBDA s : \A p \in {s[1], s[2]} : p[1] \in Int /\ p[2] \in Int))
    /\ Listed(space.vias, LAMBDA via :
            /\ via.at[1] \in Int /\ via.at[2] \in Int
            /\ via.z[1] \in Int /\ via.z[2] \in Int /\ via.radius \in Int)

-----------------------------------------------------------------------------
(* The metal of a space: convert_metadata_to_physics. *)

(* One after the other. *)
Flat(seqs) ==
    LET upTo[k \in 0..Len(seqs)] == IF k = 0 THEN <<>> ELSE upTo[k - 1] \o seqs[k]
    IN upTo[Len(seqs)]

Piece(net, material, box, kind, device) ==
    [net |-> net, material |-> material, box |-> box, kind |-> kind, device |-> device]

(* A pour is one piece per region; a mask has no body. *)
PourPieces(pour) ==
    IF pour.mask THEN <<>>
    ELSE [i \in DOMAIN pour.regions |->
            Piece(pour.net, pour.material,
                  Grown(pour.regions[i], IF pour.kind = "contact" THEN Enclosure ELSE 0),
                  pour.kind, pour.device)]

ContactPiece(c) == Piece(c.net, c.material, Grown(c.box, Enclosure), "contact", None)

(* A segment whose ends share x and y is a bridge; whichever it is, its height
   is that of the trace's layer. *)
SegmentBox(trace, s) ==
    Grown(Hull({[lo |-> <<p[1], p[2], trace.z[1]>>, hi |-> <<p[1], p[2], trace.z[2]>>] :
                p \in {s[1], s[2]}}), trace.half)
SegmentPieces(trace, vertical) ==
    Flat([i \in DOMAIN trace.segments |->
        LET s == trace.segments[i] IN
        IF (s[1] = s[2]) = vertical
        THEN <<Piece(trace.net, trace.material, SegmentBox(trace, s),
                     IF vertical THEN "contact" ELSE "pour", None)>>
        ELSE <<>>])

ViaPiece(via) ==
    Piece(via.net, via.material,
          Grown([lo |-> <<via.at[1], via.at[2], via.z[1]>>,
                 hi |-> <<via.at[1], via.at[2], via.z[2]>>], via.radius + Enclosure),
          "contact", None)

(* The horizontal segments come last: continuity.rs appends them as pours. *)
Pieces(space) ==
    Flat([i \in DOMAIN space.pours |-> PourPieces(space.pours[i])])
    \o [i \in DOMAIN space.contacts |-> ContactPiece(space.contacts[i])]
    \o Flat([i \in DOMAIN space.traces |-> SegmentPieces(space.traces[i], TRUE)])
    \o [i \in DOMAIN space.vias |-> ViaPiece(space.vias[i])]
    \o Flat([i \in DOMAIN space.traces |-> SegmentPieces(space.traces[i], FALSE)])

(* What bridges: every contact among the pieces, and the contacts of the space
   once more, by their bare boxes. *)
Placements(space) ==
    LET pieces == Pieces(space) IN
    {[net |-> p.net, box |-> p.box] : p \in {q \in Range(pieces) : q.kind = "contact"}}
    \cup {[net |-> c.net, box |-> c.box] :
            c \in {d \in Range(space.contacts) : d.material \in Conductive}}

-----------------------------------------------------------------------------
(* Islands: extract_planar_islands and weld_islands. *)

RawIslands(space) ==
    LET pieces == Pieces(space) IN
    Flat([i \in DOMAIN pieces |->
        IF pieces[i].net # None /\ pieces[i].material \in Conductive THEN <<pieces[i]>> ELSE <<>>])

\* Mutant: pieces one above the other are welded across any height.
WeldableFlat(a, b) ==
    /\ a.net = b.net
    /\ a.material = b.material \/ a.device # None \/ b.device # None
    /\ \A d \in {1, 2} : a.box.lo[d] <= b.box.hi[d] /\ a.box.hi[d] >= b.box.lo[d]

(* A piece welds with one of its material, and a device terminal with any. *)
Weldable(a, b) ==
    /\ a.net = b.net
    /\ a.material = b.material \/ a.device # None \/ b.device # None
    /\ Touch(a.box, b.box)

(* The union-find, by what find answers: the root of each piece.  (Which node
   hangs under which, find shortens as it likes.)  A union puts what has the root
   of the first under the root of the second. *)
Union(root, i, j) == [x \in DOMAIN root |-> IF root[x] = root[i] THEN root[j] ELSE root[x]]
WeldFrom(raw, i, root) ==
    LET after[j \in i..Len(raw)] ==
            IF j = i THEN root
            ELSE IF Weldable(raw[i], raw[j]) THEN Union(after[j - 1], i, j) ELSE after[j - 1]
    IN after[Len(raw)]
Roots(raw) ==
    LET after[i \in 0..Len(raw)] ==
            IF i = 0 THEN [x \in DOMAIN raw |-> x] ELSE WeldFrom(raw, i, after[i - 1])
    IN after[Len(raw)]

Groups(raw) ==
    LET root == Roots(raw) IN {{i \in DOMAIN raw : root[i] = root[j]} : j \in DOMAIN raw}

(* An island takes its net and its device binding from its first member. *)
Island(raw, group) ==
    LET first == raw[Min(group)] IN
    [net |-> first.net, device |-> first.device, box |-> Hull({raw[i].box : i \in group})]

(* The order of the islands is that of a hash map: any. *)
IslandOrders(raw) ==
    LET groups == Groups(raw) IN
    {[k \in DOMAIN order |-> Island(raw, order[k])] :
        order \in Bijection(1..Cardinality(groups), groups)}

-----------------------------------------------------------------------------
(* Bridges and components: extract_vertical_bridges, validate_net. *)

Met(islands, contact) ==
    {k \in DOMAIN islands : islands[k].net = contact.net /\ Touch(islands[k].box, contact.box)}
(* The order of a stable sort by z_min. *)
Lower(islands, a, b) ==
    LET za == islands[a].box.lo[3]
        zb == islands[b].box.lo[3]
    IN za < zb \/ (za = zb /\ a < b)

\* Mutant: only the two lowest islands at a contact are bridged.
BridgesLowest(islands, contact) ==
    LET met == Met(islands, contact) IN
    {{ab[1], ab[2]} : ab \in {p \in met \X met :
        /\ Lower(islands, p[1], p[2])
        /\ \A c \in met \ {p[1], p[2]} : Lower(islands, p[2], c)}}

(* A contact bridges the islands of its net that it touches, each to the next
   above it. *)
Bridges(islands, contact) ==
    LET met == Met(islands, contact) IN
    {{ab[1], ab[2]} : ab \in {p \in met \X met :
        /\ Lower(islands, p[1], p[2])
        /\ ~\E c \in met : Lower(islands, p[1], c) /\ Lower(islands, c, p[2])}}

(* A device terminal meets whatever else of its net its island touches. *)
DeviceEdges(islands) ==
    {{e[1], e[2]} : e \in {ab \in (DOMAIN islands) \X (DOMAIN islands) :
        /\ islands[ab[1]].net = islands[ab[2]].net
        /\ islands[ab[1]].device # None /\ islands[ab[2]].device = None
        /\ Touch(islands[ab[1]].box, islands[ab[2]].box)}}

(* tarjan_scc over the islands of one net, its recursion a stack of calls: a node's
   index is -1 until it is entered; left holds each node with the neighbors its loop
   has not come to.  The stack is a set, for an index tells a node's place on it. *)
TarjanStart(nodes, edges) ==
    [next |-> 0, index |-> [v \in nodes |-> -1], low |-> [v \in nodes |-> -1], stack |-> {},
     components |-> <<>>, calls |-> <<>>,
     left |-> {vw \in nodes \X nodes : vw[1] # vw[2] /\ {vw[1], vw[2]} \in edges}]

Enter(t, v) ==
    [t EXCEPT !.next = @ + 1, !.index[v] = t.next, !.low[v] = t.next, !.stack = @ \cup {v},
              !.calls = Append(@, v)]

Least(a, b) == IF a <= b THEN a ELSE b
Look(t, v, w) ==
    LET s == [t EXCEPT !.left = @ \ {<<v, w>>}] IN
    IF t.index[w] = -1 THEN Enter(s, w)
    ELSE IF w \in t.stack THEN [s EXCEPT !.low[v] = Least(@, t.index[w])]
    ELSE s

(* A node whose low link is its own index ends a component: what was put on the
   stack from it on. *)
Leave(t, v) ==
    LET component == {x \in t.stack : t.index[x] >= t.index[v]} IN
    IF t.low[v] # t.index[v] THEN t
    ELSE [t EXCEPT !.stack = @ \ component, !.components = Append(@, component)]

(* The caller takes over the low link. *)
Return(t) ==
    LET depth == Len(t.calls)
        v == t.calls[depth]
        s == [Leave(t, v) EXCEPT !.calls = SubSeq(@, 1, depth - 1)]
    IN IF depth = 1 THEN s ELSE [s EXCEPT !.low[t.calls[depth - 1]] = Least(@, t.low[v])]

TarjanStep(t) ==
    IF t.calls = <<>>
    THEN LET unvisited == {v \in DOMAIN t.index : t.index[v] = -1} IN
         IF unvisited = {} THEN t ELSE Enter(t, CHOOSE v \in unvisited : TRUE)
    ELSE LET v == t.calls[Len(t.calls)]
             ahead == {vw \in t.left : vw[1] = v}
         IN IF ahead = {} THEN Return(t) ELSE Look(t, v, (CHOOSE vw \in ahead : TRUE)[2])

(* Each step enters from outside, looks at a neighbor or returns: there are no
   more of them than this. *)
TarjanSteps(nodes, edges) ==
    2 * (Cardinality(TarjanStart(nodes, edges).left) + Cardinality(nodes)) + 1
Components(nodes, edges) ==
    LET run[k \in 0..TarjanSteps(nodes, edges)] ==
            IF k = 0 THEN TarjanStart(nodes, edges) ELSE TarjanStep(run[k - 1])
    IN run[TarjanSteps(nodes, edges)].components

NetFails(islands, edges, net) ==
    LET nodes == {k \in DOMAIN islands : islands[k].net = net} IN
    /\ Cardinality(nodes) > 1
    /\ Len(Components(nodes, {e \in edges : e \subseteq nodes})) # 1

(* The nets reported as disconnected (P41), for one order of the islands. *)
FailingNets(space, islands) ==
    LET edges == (UNION {Bridges(islands, c) : c \in {p \in Placements(space) : p.net # None}})
                 \cup DeviceEdges(islands)
    IN {net \in {islands[k].net : k \in DOMAIN islands} : NetFails(islands, edges, net)}

-----------------------------------------------------------------------------
(* What "physically continuous" means: the pieces of the net, each joined to
   those it may be joined to: however the pieces are parted in two, one of the
   one part joins one of the other. *)

Linked(raw, net, JoinedTo(_, _)) ==
    LET own == {i \in DOMAIN raw : raw[i].net = net} IN
    \A part \in (SUBSET own) \ {{}, own} :
        \E i \in part : \E j \in own \ part : JoinedTo(raw[i], raw[j])

(* In fact: the metal touches, whatever the materials. *)
Continuous(space, net) == Linked(RawIslands(space), net, LAMBDA a, b : Touch(a.box, b.box))

(* By the check's own rules, piece by piece: welded, or met by one contact. *)
ContinuousByRule(space, net) ==
    Linked(RawIslands(space), net, LAMBDA a, b :
        Weldable(a, b) \/ \E c \in Placements(space) :
                              c.net = net /\ Touch(a.box, c.box) /\ Touch(b.box, c.box))

(* Every island's box is as good as its metal: what touches the box, touches a
   member.  And what bridges, conducts. *)
HullsAreMetal(space) ==
    LET raw == RawIslands(space)
        groups == Groups(raw)
        HullOf(g) == Hull({raw[i].box : i \in g})
        Others(g) == {c.box : c \in Placements(space)} \cup {raw[j].box : j \in DOMAIN raw \ g}
                     \cup {HullOf(h) : h \in groups \ {g}}
    IN \A g \in groups : \A b \in Others(g) :
            Touch(HullOf(g), b) => \E i \in g : Touch(raw[i].box, b)
ContactsConduct(space) ==
    \A p \in Range(Pieces(space)) : p.kind = "contact" => p.material \in Conductive
=============================================================================
