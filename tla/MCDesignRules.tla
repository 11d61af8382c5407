--------------------------- MODULE MCDesignRules ---------------------------
(* Spaces for DesignRules: one or two shapes in every position that a check tells
   apart, on a die of a few units, one family of spaces for each kind of rule. *)
EXTENDS DesignRules

Layer(lo, hi, routable, device, material) ==
    [z |-> <<lo, hi>>, routable |-> routable, device |-> device, material |-> material]
SixLayers ==
    [well |-> Layer(0, 4, FALSE, FALSE, "lightly"), diff |-> Layer(4, 8, FALSE, TRUE, "heavily"),
     implant |-> Layer(8, 8, TRUE, FALSE, "resist"), m1 |-> Layer(8, 12, TRUE, FALSE, "copper"),
     ild |-> Layer(12, 16, FALSE, FALSE, "oxide"), m2 |-> Layer(16, 20, TRUE, FALSE, "copper")]
Plain == [semiconductor |-> FALSE, minArea |-> 0, rating |-> None, density |-> 1, heat |-> 1]
AllMaterials ==
    [lightly |-> [Plain EXCEPT !.semiconductor = TRUE, !.rating = 9],
     heavily |-> [Plain EXCEPT !.semiconductor = TRUE, !.rating = 3],
     resist |-> Plain, oxide |-> Plain,
     copper |-> [Plain EXCEPT !.minArea = 2], tungsten |-> [Plain EXCEPT !.minArea = 1]]

Box(x, y, w, h) == [lo |-> <<x, y>>, hi |-> <<x + w, y + h>>]
Pour(layer, net, box) ==
    [name |-> layer, layer |-> layer, net |-> net, device |-> None, box |-> box]
Bound(layer, device, box) == [Pour(layer, None, box) EXCEPT !.device = device]
(* A contact reaches a part, depth, into either of its layers. *)
Via(net, at, drill, from, to, depth) ==
    [name |-> "via", net |-> net, at |-> at, drill |-> drill, from |-> from, to |-> to,
     z |-> <<SixLayers[from].z[2] - depth, SixLayers[to].z[1] + depth>>]
Trace(net, layer, from, to, width) ==
    [net |-> net, layer |-> layer, from |-> from, to |-> to, width |-> width, current |-> 0]

Profile0 ==
    [spacing |-> 2, width |-> 1, diameter |-> 2, drillSpacing |-> 1, ring |-> 1,
     landings |-> <<>>, thermal |-> 10, substrate |-> None, tapDistance |-> None,
     cuts |-> <<>>, rules |-> <<>>]
Space0 ==
    [profile |-> Profile0, pours |-> <<>>, contacts |-> <<>>, traces |-> <<>>,
     devices |-> [q |-> [s |-> "a", d |-> "b"], r |-> [s |-> "c", d |-> "c"]],
     potential |-> [a |-> 0, b |-> 0, c |-> None, g |-> 0, ck |-> 0], grounds |-> {"g"},
     die |-> <<8, 8>>]

(* Two pours of one layer, the second anywhere, also over the edge of the die. *)
PlanarSpaces ==
    {[Space0 EXCEPT !.pours = <<Pour(l, "a", Box(2, 2, 2, 2)), Pour(l, n, Box(x, y, w, h))>>,
                    !.profile.spacing = s] :
        l \in {"diff", "implant", "m1", "ild"}, n \in {"a", "b", None}, x \in -1..8, y \in {0, 3, 4, 6, 7},
        w \in 1..2, h \in 1..2, s \in {0, 1, 4}}
(* Three pours in every order. *)
Bars == {Pour("m1", "a", Box(0, 0, 6, 1)), Pour("m1", "b", Box(0, 3, 6, 1)),
         Pour("m1", "a", Box(0, 6, 6, 1)), Pour("m1", "b", Box(7, 0, 1, 8)),
         Pour("m2", "b", Box(0, 0, 6, 1))}
BarSpaces ==
    {[Space0 EXCEPT !.pours = order] :
        order \in UNION {SetToSeqs(T) : T \in {U \in SUBSET Bars : Cardinality(U) <= 3}}}

(* Two holes, in one pair of layers or in neighbouring ones that stay apart, meet
   or share heights with the depth. *)
DrillSpaces ==
    {[Space0 EXCEPT !.contacts = <<Via("a", <<3, 3>>, e, "diff", "m1", z),
                                   Via(n, <<x, y>>, f, l, IF l = "m1" THEN "m2" ELSE "m1", z)>>,
                    !.profile.drillSpacing = s] :
        n \in {"a", "b", None}, x \in 3..8, y \in {3, 4, 6}, e \in {2, 3}, f \in 1..3,
        l \in {"diff", "m1"}, z \in 1..3, s \in {0, 2}}

(* A via over up to two pours under rules of landing. *)
Pads == {Pour("m2", "a", Box(2, 2, 4, 4)), Pour("m2", "a", Box(2, 2, 3, 4)),
         Pour("m2", None, Box(1, 1, 6, 6)), Pour("m1", "a", Box(3, 3, 2, 2)),
         Pour("m1", "a", Box(1, 3, 6, 2)), Pour("m2", "a", Box(5, 0, 3, 8)),
         Pour("m2", "a", Box(0, 0, 8, 8)), Pour("m2", "a", Box(6, 6, 2, 2))}
LandingSpaces ==
    {[Space0 EXCEPT !.contacts = <<Via(n, <<4, 4>>, 2, "m1", "m2", 1)>>, !.pours = order,
                    !.profile.landings = l] :
        n \in {"a", None}, l \in {[m2 |-> 1], [m2 |-> 2, m1 |-> 0]},
        order \in UNION {SetToSeqs(T) : T \in {U \in SUBSET Pads : Cardinality(U) <= 2}}}

(* A rule of every kind between the implant and the metal, with up to two
   implants, a line among them, and between cuts; also to a line of metal. *)
Implants == {Pour("implant", None, b) :
              b \in {Box(2, 2, 4, 4), Box(1, 1, 6, 6), Box(3, 1, 2, 6), Box(2, 3, 4, 2), Box(4, 2, 3, 4),
                     Box(0, 0, 2, 2), Box(5, 5, 2, 2), Box(0, 3, 5, 2), Box(7, 7, 1, 1),
                     Box(4, 1, 0, 6)}}
Words == {"enclosure", "transverse", "extension", "clearance", "overlap", "clearence"}
RuleSpaces ==
    {[Space0 EXCEPT !.pours = Append(order, Pour("m1", "a", Box(4 - w, 3, 2 * w, 2))),
                    !.profile.rules = <<[type |-> t, a |-> "implant", b |-> "m1", distance |-> d]>>] :
        t \in Words, d \in 0..2, w \in 0..1,
        order \in UNION {SetToSeqs(T) : T \in {U \in SUBSET Implants : Cardinality(U) <= 2}}}
CutSpaces ==
    {[Space0 EXCEPT !.contacts = <<Via("a", <<3, 3>>, 2, f, "m1", 1), Via("a", <<x, y>>, 2, "diff", "m1", 1)>>,
                    !.pours = <<Pour("m1", "a", Box(0, y, 1, 2))>>, !.profile.drillSpacing = 0,
                    !.profile.cuts = [licon |-> [from |-> {"diff"}, to |-> "m1"]],
                    !.profile.rules = <<[type |-> t, a |-> "licon", b |-> b, distance |-> 2]>>] :
        f \in {"diff", "well"}, x \in 3..7, y \in 3..6, t \in {"clearance", "overlap", "enclosure"},
        b \in {"licon", "m1"}}

(* Wells and diffusions in every order, with potentials. *)
Regions == {Pour("well", "b", Box(1, 1, 6, 6)), Pour("diff", "a", Box(2, 2, 2, 2)),
            Bound("diff", "q", Box(2, 2, 2, 2)), Bound("diff", "r", Box(6, 6, 2, 2)),
            Pour("diff", None, Box(2, 2, 1, 1)), Pour("well", "g", Box(0, 0, 8, 8)),
            Pour("diff", "b", Box(6, 6, 2, 2))}
WellSpaces ==
    {[Space0 EXCEPT !.pours = order, !.potential.a = v, !.potential.b = w, !.potential.g = u,
                    !.grounds = g, !.profile.spacing = 0] :
        order \in UNION {SetToSeqs(T) : T \in {U \in SUBSET Regions : Cardinality(U) \in 1..3}},
        v \in {None, -5, 5}, w \in {None, 0, 5}, u \in {None, 0}, g \in {{}, {"g"}, {"g", "b"}}}

(* Two traces, of clocks too, on layers to route on or not. *)
Tracks == {Trace(n, l, from, from, w) : n \in {"a", "ck"}, l \in {"m1"}, from \in {<<4, 4>>}, w \in {2}}
    \cup {Trace(n, l, <<0, y>>, <<8, y>>, 2) : n \in {"a", "b", "ck"}, l \in {"m1", "m2", "ild"}, y \in {2, 4, 6}}
    \cup {Trace(n, "m1", <<x, 0>>, <<x, e>>, 1) : n \in {"b", "ck"}, x \in {2, 6}, e \in {2, 8}}
TraceSpaces == {[Space0 EXCEPT !.traces = <<t, u>>] : t \in Tracks, u \in Tracks}

(* A profile without a thermal section, and with what is declared and not read. *)
ProfileSpaces ==
    {[Space0 EXCEPT !.pours = <<Pour("m1", "a", Box(0, 0, 1, h)), Bound("diff", "q", Box(4, 4, 1, 1))>>,
                    !.contacts = <<Via(n, <<4, 4>>, d, "diff", "m1", 1)>>,
                    !.profile.thermal = t, !.profile.tapDistance = p, !.profile.substrate = s,
                    !.potential.g = v] :
        h \in 1..2, n \in {"a", None}, d \in 1..2, t \in {None, 10}, p \in {None, 1}, s \in {None, "g"}, v \in {None, 0}}

AllSpaces ==
    [planar |-> PlanarSpaces, bars |-> BarSpaces, drills |-> DrillSpaces, landings |-> LandingSpaces,
     rules |-> RuleSpaces, cuts |-> CutSpaces, wells |-> WellSpaces, traces |-> TraceSpaces,
     profiles |-> ProfileSpaces]
TracesAlone == [traces |-> TraceSpaces]
=============================================================================
