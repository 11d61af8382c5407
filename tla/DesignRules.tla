----------------------------- MODULE DesignRules -----------------------------
(* The design rule check of the build (hwc-engine design_rule_check/, called by
   hwc-cli build_cmd/validation/drc.rs): the profile a space names is lowered
   into constraints, and fifteen checks look at the shapes of the space one after
   another.  An error of one ends the check and takes with it whatever the
   earlier ones have found.

   A space is what the pipeline of hwc-compiler makes: pours, contacts and traces
   with nets by name, on layers of one stackup.  Lengths are integers, boxes
   closed; a density, a temperature or a coupling that the code computes from
   lengths is compared in the form that integers allow.  Locations and the
   wording of a report are left out, and the errors for a missing box, drill or
   material, which the pipeline never leaves missing. *)
EXTENDS Integers, Sequences, FiniteSets, SequencesExt, FiniteSetsExt, Functions

CONSTANTS None,        \* no net, no device, no value declared
          Jobs,        \* sets of spaces to check, by name
          Stack,       \* [layer -> [z, routable, device, material]]
          Materials,   \* [material -> [semiconductor, minArea, rating, density, heat]]
          Clocks,      \* the nets whose name contains "Clock"
          Reach        \* the distance from which a trace disturbs a clock too little

(* Coordinates are integers, boxes have a corner before the other, diameters are
   not negative; a device has finitely many terminals. *)
Place(p) == p[1] \in Int /\ p[2] \in Int
BoxTyped(b) == Place(b.lo) /\ Place(b.hi) /\ b.lo[1] <= b.hi[1] /\ b.lo[2] <= b.hi[2]
HeightsTyped(z) == z[1] \in Int /\ z[2] \in Int /\ z[1] <= z[2]
Known(v) == v \in Int \cup {None}
PourTyped(s, p) ==
    /\ BoxTyped(p.box) /\ p.layer \in DOMAIN Stack
    /\ p.net # None => Known(s.potential[p.net])
    /\ p.device # None =>
         /\ IsFiniteSet(Range(s.devices[p.device]))
         /\ \A n \in Range(s.devices[p.device]) : Known(s.potential[n])
SpaceTyped(s) ==
    /\ DOMAIN s.pours \subseteq Nat /\ DOMAIN s.contacts \subseteq Nat
    /\ \A i \in DOMAIN s.pours : PourTyped(s, s.pours[i])
    /\ \A i \in DOMAIN s.contacts : /\ Place(s.contacts[i].at) /\ s.contacts[i].drill \in Nat
                                     /\ HeightsTyped(s.contacts[i].z)
    /\ Place(s.die) /\ s.profile.spacing \in Nat /\ s.profile.drillSpacing \in Int
    /\ s.profile.diameter \in Int
    /\ \A l \in DOMAIN s.profile.landings : s.profile.landings[l] \in Int
    /\ \A r \in Range(s.profile.rules) : r.distance \in Int
    /\ \A g \in s.grounds : g # None /\ Known(s.potential[g])
ASSUME NoneIsApart == None \notin Int
ASSUME JobsTyped == \A kind \in DOMAIN Jobs : \A s \in Jobs[kind] : SpaceTyped(s)
ASSUME LayersTyped ==
    \A l \in DOMAIN Stack : HeightsTyped(Stack[l].z) /\ Stack[l].material \in DOMAIN Materials
ASSUME MaterialsTyped ==
    /\ "tungsten" \in DOMAIN Materials
    /\ \A m \in DOMAIN Materials : Materials[m].minArea \in Int /\ Known(Materials[m].rating)

VARIABLES space,       \* the space under check
          rules,       \* the constraints of its profile, None before they are loaded
          check,       \* the number of the next check
          report,      \* what the checks have found
          outcome      \* "running", "passed", "refused", "failed"

vars == <<space, rules, check, report, outcome>>

-----------------------------------------------------------------------------
(* Boxes. *)

Plane == {1, 2}
Meets(a, b) == \A d \in Plane : a.lo[d] <= b.hi[d] /\ b.lo[d] <= a.hi[d]
Overlaps(a, b) == \A d \in Plane : a.lo[d] < b.hi[d] /\ b.lo[d] < a.hi[d]
(* a exceeds b by e on both sides of axis d. *)
Exceeds(a, b, d, e) == a.lo[d] + e <= b.lo[d] /\ b.hi[d] + e <= a.hi[d]
Encloses(a, b, e) == \A d \in Plane : Exceeds(a, b, d, e)
Gap(a, b, d) == IF a.hi[d] < b.lo[d] THEN b.lo[d] - a.hi[d]
                ELSE IF b.hi[d] < a.lo[d] THEN a.lo[d] - b.hi[d] ELSE 0
(* Mutants: distances summed over the axes, or the larger of the two taken. *)
NearerSummed(a, b, s) == s > 0 /\ Gap(a, b, 1) + Gap(a, b, 2) < s
NearerByAxis(a, b, s) == \A d \in Plane : Gap(a, b, d) < s
(* The distance, rounded to the nearest integer, is below s. *)
Nearer(a, b, s) ==
    s > 0 /\ 4 * (Gap(a, b, 1) * Gap(a, b, 1) + Gap(a, b, 2) * Gap(a, b, 2))
              < (2 * s - 1) * (2 * s - 1)
(* BoundingBox::distance_to: the larger of the gaps. *)
Chebyshev(a, b) == IF Gap(a, b, 1) < Gap(a, b, 2) THEN Gap(a, b, 2) ELSE Gap(a, b, 1)
Area(a) == (a.hi[1] - a.lo[1]) * (a.hi[2] - a.lo[2])

(* The box of a contact is half its diameter around its place. *)
Pad(c) == [lo |-> <<c.at[1] - c.drill \div 2, c.at[2] - c.drill \div 2>>,
           hi |-> <<c.at[1] + c.drill \div 2, c.at[2] + c.drill \div 2>>]

Mask(layer) == Stack[layer].z[1] = Stack[layer].z[2]
Conductive(layer) == (Stack[layer].routable \/ Stack[layer].device) /\ ~Mask(layer)
Material(pour) == Materials[Stack[pour.layer].material]

-----------------------------------------------------------------------------
(* The profile. *)

RuleTypes == {"enclosure", "transverse", "extension", "clearance", "overlap"}
(* A type that is not one of the names is an enclosure. *)
LoweredRule(r) ==
    [type |-> IF r.type \in RuleTypes THEN r.type ELSE "enclosure",
     a |-> r.a, b |-> r.b, distance |-> r.distance]
(* A rule without two layers or a distance is dropped. *)
Declared(profile) ==
    {i \in DOMAIN profile.rules :
        profile.rules[i].a # None /\ profile.rules[i].b # None /\ profile.rules[i].distance > 0}
(* max_substrate_tap_distance is not read, and the technology is always ASIC. *)
LowerProfile(profile) ==
    [spacing |-> profile.spacing, width |-> profile.width,
     diameter |-> profile.diameter, drillSpacing |-> profile.drillSpacing,
     ring |-> profile.ring, landings |-> profile.landings,
     thermal |-> profile.thermal, substrate |-> profile.substrate,
     tapDistance |-> None, technology |-> "asic",
     cuts |-> profile.cuts,
     pairs |-> [i \in Declared(profile) |-> LoweredRule(profile.rules[i])]]

-----------------------------------------------------------------------------
(* The checks.  Each gives what it finds, or the error that ends them all. *)

Found(set) == [error |-> FALSE, found |-> set]
Error == [error |-> TRUE, found |-> {}]

(* HardwareSpace::new leaves the entity graph empty, and of what fills its index
   and its list of routes nothing is called: a trace is pushed on
   analytic_routes alone. *)
EntityGraph == [spatial |-> {}, routes |-> {}]

ClearancesFound ==
    {<<"clearance", p[1].net, p[2].net>> :
        p \in {q \in EntityGraph.spatial \X EntityGraph.spatial :
                  /\ None \notin {q[1].net, q[2].net}
                  /\ q[1].net # q[2].net
                  /\ q[1].z[1] < q[2].z[2] /\ q[2].z[1] < q[1].z[2]
                  /\ Chebyshev(q[1].box, q[2].box) < rules.spacing}}

WidthsFound == {<<"width", t.net>> : t \in {u \in EntityGraph.routes : u.width < rules.width}}

(* Traces with a current: the pipeline gives each of them none. *)
Loaded == {i \in DOMAIN space.traces : space.traces[i].current > 0}
Section(t) == t.width * (IF Stack[t.layer].z[2] - Stack[t.layer].z[1] > 1
                         THEN Stack[t.layer].z[2] - Stack[t.layer].z[1] ELSE 1)
DensitiesFound ==
    {<<"density", i>> : i \in {k \in Loaded :
        LET t == space.traces[k] IN
        t.current > Materials[Stack[t.layer].material].density * Section(t)}}
HeatFound ==
    {<<"heat", i>> : i \in {k \in Loaded :
        LET t == space.traces[k] IN
        /\ t.from # t.to
        /\ t.current * t.current
             > rules.thermal * Materials[Stack[t.layer].material].heat * Section(t) * t.width}}

(* A hole too small is reported under the net of its contact. *)
SmallDrills == {i \in DOMAIN space.contacts : space.contacts[i].drill < rules.diameter}
DiametersFound == {<<"diameter", i>> : i \in SmallDrills}

RingsFound ==
    IF rules.technology = "asic" THEN {}
    ELSE {<<"ring", i>> : i \in {k \in DOMAIN space.contacts :
            LET c == space.contacts[k] IN
            (Pad(c).hi[1] - Pad(c).lo[1] - c.drill) \div 2 < rules.ring}}

(* Two holes of one net may be stacked, or on one spot; of two nets they may not
   even meet at a height. *)
DrillsRelatedUnlessStacked(a, b) ==      \* mutant: any two holes on one spot are a stack
    a.at # b.at /\ a.z[1] <= b.z[2] /\ a.z[2] >= b.z[1] /\ (a.net = b.net => a.z[1] < b.z[2] /\ b.z[1] < a.z[2])
DrillsRelated(a, b) ==
    IF a.net # None /\ a.net = b.net
    THEN a.z[1] < b.z[2] /\ b.z[1] < a.z[2] /\ a.at # b.at
    ELSE a.z[1] <= b.z[2] /\ a.z[2] >= b.z[1]
DrillsNear(a, b, s) ==
    LET dx == a.at[1] - b.at[1]
        dy == a.at[2] - b.at[2]
        least == s + a.drill \div 2 + b.drill \div 2
    IN  least > 0 /\ dx * dx + dy * dy < least * least
DrillsFound ==
    {<<"drill", q>> : q \in {p \in (DOMAIN space.contacts) \X (DOMAIN space.contacts) :
        /\ p[1] < p[2]
        /\ DrillsRelated(space.contacts[p[1]], space.contacts[p[2]])
        /\ DrillsNear(space.contacts[p[1]], space.contacts[p[2]], rules.drillSpacing)}}

(* The pours of its net that contact c lands on in a layer with a rule. *)
LandsOn(c, layer) ==
    {k \in DOMAIN space.pours :
        LET p == space.pours[k] IN
        /\ p.net = c.net /\ p.layer = layer
        /\ c.z[1] <= Stack[layer].z[2] /\ c.z[2] >= Stack[layer].z[1]
        /\ Meets(Pad(c), p.box)}
LandingsFound ==
    {<<"landing", p>> : p \in
        {q \in (DOMAIN space.contacts) \X (DOMAIN rules.landings) :
            LET c == space.contacts[q[1]]
                on == LandsOn(c, q[2])
            IN  /\ c.net # None /\ q[2] \in {c.from, c.to}
                /\ on # {}
                /\ \A k \in on : ~Encloses(space.pours[k].box, Pad(c), rules.landings[q[2]])}}

(* Two traces of one layer, which must be one to route on, and of two nets. *)
Neighbours ==
    {p \in (DOMAIN space.traces) \X (DOMAIN space.traces) :
        /\ p[1] < p[2]
        /\ space.traces[p[1]].net # space.traces[p[2]].net
        /\ space.traces[p[1]].layer = space.traces[p[2]].layer}
(* Traces along axis d that run side by side for a stretch, their edges apart
   and nearer than the reach. *)
Along(t, d) == t.from[3 - d] = t.to[3 - d] /\ t.from[d] # t.to[d]
Lower(t, d) == IF t.from[d] < t.to[d] THEN t.from[d] ELSE t.to[d]
Upper(t, d) == IF t.from[d] < t.to[d] THEN t.to[d] ELSE t.from[d]
Coupled(a, b) ==
    \E d \in Plane :
        LET apart == a.from[3 - d] - b.from[3 - d]
            edges == (IF apart < 0 THEN -apart ELSE apart) - (a.width \div 2 + b.width \div 2)
        IN  /\ Along(a, d) /\ Along(b, d)
            /\ Lower(a, d) < Upper(b, d) /\ Lower(b, d) < Upper(a, d)
            /\ 0 < edges /\ edges < Reach
CrosstalkFound ==
    {<<"crosstalk", q>> : q \in {p \in Neighbours :
        /\ Coupled(space.traces[p[1]], space.traces[p[2]])
        /\ {space.traces[p[1]].net, space.traces[p[2]].net} \cap Clocks # {}}}

(* Junctions.  A pour without a net takes the potential of a terminal of its
   device, the largest; of several, the last in the order of a hash map. *)
Semiconductors == {i \in DOMAIN space.pours : Material(space.pours[i]).semiconductor}
Apart(v, w) == IF v < w THEN w - v ELSE v - w
Volts(nets) == {space.potential[n] : n \in {m \in nets : space.potential[m] # None}}
PotentialsLeast(i) ==      \* mutant: the smallest potential of the terminals
    LET p == space.pours[i]
        all == IF p.net # None THEN Volts({p.net})
               ELSE IF p.device # None THEN Volts(Range(space.devices[p.device])) ELSE {}
    IN  {v \in all : \A w \in all : Apart(v, 0) <= Apart(w, 0)}
Potentials(i) ==
    LET p == space.pours[i]
        all == IF p.net # None THEN Volts({p.net})
               ELSE IF p.device # None THEN Volts(Range(space.devices[p.device])) ELSE {}
    IN  {v \in all : \A w \in all : Apart(w, 0) <= Apart(v, 0)}
(* The pours around pour i; the first in the order of the pours is its well. *)
Around(i) == {j \in Semiconductors \ {i} : Encloses(space.pours[j].box, space.pours[i].box, 0)}
Well(i) == IF Around(i) = {} THEN None ELSE Min(Around(i))
BodyPotential(i, ground) ==
    IF Well(i) = None THEN IF ground = None THEN None ELSE space.potential[ground]
    ELSE IF space.pours[Well(i)].net = None THEN None
    ELSE space.potential[space.pours[Well(i)].net]
(* A pour bound to a device whose terminals have no potential is passed over. *)
Undecided(i) == space.pours[i].net = None /\ space.pours[i].device # None /\ Potentials(i) = {}
JunctionFails(ground) ==
    \/ ground # None /\ space.potential[ground] = None
    \/ \E i \in Semiconductors :
          /\ ~Undecided(i)
          /\ Potentials(i) = {} \/ Material(space.pours[i]).rating = None
             \/ BodyPotential(i, ground) = None
Grounds == IF space.grounds = {} THEN {None} ELSE space.grounds
Decided == {i \in Semiconductors : Potentials(i) # {}}
Selections == {v \in [Decided -> UNION {Potentials(i) : i \in Decided}] :
               \A i \in Decided : v[i] \in Potentials(i)}
JunctionsFound(ground, v) ==
    {<<"junction", i>> : i \in {k \in Decided :
        Apart(v[k], BodyPotential(k, ground)) > Material(space.pours[k]).rating}}
JunctionResults ==
    {IF JunctionFails(p[1]) THEN Error ELSE Found(JunctionsFound(p[1], p[2])) :
        p \in Grounds \X Selections}

(* Pours, then contacts, against the area their material asks for, 0 for none. *)
AreasFound ==
    {<<"area", "pour", i>> : i \in {k \in DOMAIN space.pours :
        Area(space.pours[k].box) < Material(space.pours[k]).minArea}}
    \cup {<<"area", "contact", i>> : i \in {k \in DOMAIN space.contacts :
        Area(Pad(space.contacts[k])) < Materials["tungsten"].minArea}}

(* One violation for a device with a diffusion too far from every tap. *)
Taps == {i \in Semiconductors : space.pours[i].net # None /\ space.pours[i].net = rules.substrate}
TapResult ==
    IF rules.tapDistance = None THEN Found({})
    ELSE IF rules.substrate = None THEN Error
    ELSE Found({<<"tap", space.pours[i].device>> : i \in
            {k \in Semiconductors \ Taps :
                /\ space.pours[k].device # None
                /\ \A t \in Taps : Chebyshev(space.pours[k].box, space.pours[t].box)
                                      > rules.tapDistance}})

Die == [lo |-> <<0, 0>>, hi |-> space.die]
OutsideFound ==
    {<<"die", "pour", i>> : i \in {k \in DOMAIN space.pours : ~Encloses(Die, space.pours[k].box, 0)}}
    \cup {<<"die", "contact", i>> : i \in {k \in DOMAIN space.contacts :
            ~Encloses(Die, Pad(space.contacts[k]), 0)}}

(* Rules between two layers.  The name of a cut stands for the contacts between
   its layers, in the rules of clearance and overlap; any other for the pours of
   a layer. *)
OnLayer(layer) ==
    {[name |-> p.name, box |-> p.box] : p \in {q \in Range(space.pours) : q.layer = layer}}
OfCut(cut) ==
    {[name |-> c.name, box |-> Pad(c)] :
        c \in {d \in Range(space.contacts) : d.from \in cut.from /\ d.to = cut.to}}
Elements(name) == IF name \in DOMAIN rules.cuts THEN OfCut(rules.cuts[name]) ELSE OnLayer(name)
Above(layer, b) == {a \in OnLayer(layer) : Overlaps(a.box, b.box)}

EnclosureFound(r) ==
    {b \in OnLayer(r.b) : \A a \in Above(r.a, b) : ~Encloses(a.box, b.box, r.distance)}
TransverseFoundSide(r) ==      \* mutant: one side is enough
    {b \in OnLayer(r.b) : \A a \in Above(r.a, b) :
        ~\E d \in Plane : a.box.lo[d] + r.distance <= b.box.lo[d] \/ b.box.hi[d] + r.distance <= a.box.hi[d]}
TransverseFound(r) ==
    {b \in OnLayer(r.b) : \A a \in Above(r.a, b) :
        ~\E d \in Plane : Exceeds(a.box, b.box, d, r.distance)}
(* An element that nothing overlaps is not asked for an extension. *)
ExtensionFound(r) ==
    {b \in OnLayer(r.b) :
        /\ Above(r.a, b) # {}
        /\ \A a \in Above(r.a, b) : \A d \in Plane :
              b.box.lo[d] - a.box.lo[d] < r.distance /\ a.box.hi[d] - b.box.hi[d] < r.distance}
(* Elements of one name and one box are taken for the same one. *)
SpacingFound(r) ==
    {p \in Elements(r.a) \X Elements(r.b) : p[1] # p[2] /\ Nearer(p[1].box, p[2].box, r.distance)}
RuleFound(r) ==
    IF r.type = "enclosure" THEN EnclosureFound(r)
    ELSE IF r.type = "transverse" THEN TransverseFound(r)
    ELSE IF r.type = "extension" THEN ExtensionFound(r)
    ELSE SpacingFound(r)
PairsFound == {<<"pair", p>> : p \in
                  UNION {{i} \X RuleFound(rules.pairs[i]) : i \in DOMAIN rules.pairs}}

(* Conductive pours of one layer and two nets that touch, or are too near; the
   terminals of one device may. *)
ShortsFound ==
    {<<"short", q>> : q \in {p \in (DOMAIN space.pours) \X (DOMAIN space.pours) :
        LET a == space.pours[p[1]]
            b == space.pours[p[2]]
        IN  /\ p[1] < p[2]
            /\ a.layer = b.layer /\ Conductive(a.layer)
            /\ None \notin {a.net, b.net} /\ a.net # b.net
            /\ ~(a.device # None /\ a.device = b.device)
            /\ Meets(a.box, b.box) \/ Nearer(a.box, b.box, rules.spacing)}}

-----------------------------------------------------------------------------
(* The run of the checks: validate_physics_parallel, one after another. *)

Init ==
    /\ \E kind \in DOMAIN Jobs : space \in Jobs[kind]
    /\ rules = None
    /\ check = 0
    /\ report = {}
    /\ outcome = "running"

(* A space without a profile has no stackup, and the pipeline does not build it. *)
Load ==
    /\ outcome = "running" /\ check = 0
    /\ rules' = LowerProfile(space.profile)
    /\ check' = 1
    /\ UNCHANGED <<space, report, outcome>>

At(n) == outcome = "running" /\ check = n
Finds(found) ==
    /\ report' = report \cup found
    /\ check' = check + 1
    /\ UNCHANGED <<space, rules, outcome>>
(* An error leaves nothing of the report. *)
Fails ==
    /\ report' = {}
    /\ outcome' = "failed"
    /\ UNCHANGED <<space, rules, check>>

Clearances == At(1) /\ Finds(ClearancesFound)
TraceWidths == At(2) /\ Finds(WidthsFound)
Electromigration == At(3) /\ Finds(DensitiesFound)
ThermalRise == At(4) /\ IF rules.thermal = None THEN Fails ELSE Finds(HeatFound)
ViaDiameters ==
    At(5) /\ IF \E i \in SmallDrills : space.contacts[i].net = None THEN Fails
             ELSE Finds(DiametersFound)
ViaEnclosures == At(6) /\ Finds(RingsFound)
DrillClearances == At(7) /\ Finds(DrillsFound)
Landings == At(8) /\ Finds(LandingsFound)
Crosstalk ==
    At(9) /\ IF \E p \in Neighbours : ~Stack[space.traces[p[1]].layer].routable THEN Fails
             ELSE Finds(CrosstalkFound)
Junctions == At(10) /\ \E r \in JunctionResults : IF r.error THEN Fails ELSE Finds(r.found)
MinimumAreas == At(11) /\ Finds(AreasFound)
TapProximity == At(12) /\ IF TapResult.error THEN Fails ELSE Finds(TapResult.found)
DieBoundary == At(13) /\ Finds(OutsideFound)
LayerPairs == At(14) /\ Finds(PairsFound)
PlanarShorts == At(15) /\ Finds(ShortsFound)

Conclude ==
    /\ outcome = "running" /\ check = 16
    /\ outcome' = IF report = {} THEN "passed" ELSE "refused"
    /\ UNCHANGED <<space, rules, check, report>>

Next ==
    \/ Load \/ Conclude
    \/ Clearances \/ TraceWidths \/ Electromigration \/ ThermalRise
    \/ ViaDiameters \/ ViaEnclosures \/ DrillClearances \/ Landings
    \/ Crosstalk \/ Junctions \/ MinimumAreas \/ TapProximity
    \/ DieBoundary \/ LayerPairs \/ PlanarShorts

Spec == Init /\ [][Next]_vars

-----------------------------------------------------------------------------
(* What a verdict promises, by the points of the shapes. *)

(* The run goes through its checks in order, holds the rules from the first of
   them on, and ends with findings exactly if it refuses (DrcReport::is_valid);
   an error leaves none. *)
TypeOK ==
    /\ check \in 0..16
    /\ outcome \in {"running", "passed", "refused", "failed"}
    /\ rules = IF check = 0 THEN None ELSE LowerProfile(space.profile)
    /\ outcome \in {"passed", "refused"} => check = 16
    /\ outcome = "refused" => report # {}
    /\ outcome \in {"passed", "failed"} \/ check < 2 => report = {}

Points(box) == (box.lo[1]..box.hi[1]) \X (box.lo[2]..box.hi[2])
Square(p, q) == (p[1] - q[1]) * (p[1] - q[1]) + (p[2] - q[2]) * (p[2] - q[2])
(* Twice the distance of any two points is at least n. *)
TwiceApart(a, b, n) == \A p \in Points(a), q \in Points(b) : 4 * Square(p, q) >= n * n
(* Every point of b lies e or more within the edges of a. *)
Covers(a, b, e) ==
    \A p \in Points(b) : \A d \in Plane : a.lo[d] <= p[d] - e /\ p[d] + e <= a.hi[d]

(* Two pours that a signoff must keep apart: metal or diffusion of two nets on
   one layer, and not two terminals of one device. *)
ForeignPours ==
    {p \in (DOMAIN space.pours) \X (DOMAIN space.pours) :
        LET a == space.pours[p[1]]
            b == space.pours[p[2]]
        IN  /\ p[1] # p[2] /\ a.layer = b.layer
            /\ Stack[a.layer].z[1] # Stack[a.layer].z[2]
            /\ Stack[a.layer].routable \/ Stack[a.layer].device
            /\ a.net # None /\ b.net # None /\ a.net # b.net
            /\ a.device = None \/ a.device # b.device}
PoursAtLeast(slack) ==
    \A p \in ForeignPours :
        TwiceApart(space.pours[p[1]].box, space.pours[p[2]].box,
                   IF space.profile.spacing = 0 THEN 1 ELSE 2 * space.profile.spacing - slack)
RelatedHoles ==
    {p \in (DOMAIN space.contacts) \X (DOMAIN space.contacts) :
        LET c == space.contacts[p[1]]
            d == space.contacts[p[2]]
        IN  /\ p[1] # p[2]
            /\ \E h \in c.z[1]..c.z[2] : h \in d.z[1]..d.z[2]
            /\ \/ c.net = None \/ c.net # d.net
               \/ /\ \E h \in c.z[1]..(c.z[2] - 1) : h \in d.z[1]..(d.z[2] - 1)
                  /\ c.at # d.at}
HolesAtLeast(slack) ==
    \A p \in RelatedHoles :
        LET c == space.contacts[p[1]]
            d == space.contacts[p[2]]
            least == 2 * space.profile.drillSpacing - slack + c.drill + d.drill
        IN  least > 0 => 4 * Square(c.at, d.at) >= least * least
Landed(c, layer) ==
    {p \in Range(space.pours) :
        /\ p.net = c.net /\ p.layer = layer
        /\ \E h \in c.z[1]..c.z[2] : h \in Stack[layer].z[1]..Stack[layer].z[2]
        /\ Points(p.box) \cap Points(Pad(c)) # {}}
LandingsFine ==
    \A c \in Range(space.contacts), layer \in DOMAIN space.profile.landings :
        c.net # None /\ layer \in {c.from, c.to} /\ Landed(c, layer) # {}
            => \E p \in Landed(c, layer) : Covers(p.box, Pad(c), space.profile.landings[layer])

PoursOf(layer) == {p \in Range(space.pours) : p.layer = layer}
Shapes(name) ==
    IF name \in DOMAIN space.profile.cuts
    THEN {[name |-> c.name, box |-> Pad(c)] : c \in {d \in Range(space.contacts) :
            d.from \in space.profile.cuts[name].from /\ d.to = space.profile.cuts[name].to}}
    ELSE {[name |-> p.name, box |-> p.box] : p \in PoursOf(name)}
(* The points of a box between its edges on an axis, in half units; those of a box
   without extent are all on its edges. *)
Between(box, d) ==
    IF box.lo[d] = box.hi[d] THEN {2 * box.lo[d]} ELSE (2 * box.lo[d] + 1)..(2 * box.hi[d] - 1)
Over(a, b) == \A d \in Plane : Between(a.box, d) \cap Between(b.box, d) # {}
Solid(box) == \A d \in Plane : box.lo[d] < box.hi[d]
(* What a rule asks for.  An extension is asked for past a shape with an area. *)
SpacingKept(r, slack) ==
    \A a \in Shapes(r.a), b \in Shapes(r.b) :
        a # b => TwiceApart(a.box, b.box, 2 * r.distance - slack)
ExtensionKept(r) ==
    \A b \in PoursOf(r.b) :
        Solid(b.box) /\ (\E a \in PoursOf(r.a) : Over(a, b))
            => \E a \in PoursOf(r.a) : Over(a, b) /\
                 \E p \in Points(a.box) : \E d \in Plane : \A q \in Points(b.box) :
                     p[d] - q[d] >= r.distance \/ q[d] - p[d] >= r.distance
TransverseKept(r) ==
    \A b \in PoursOf(r.b) : \E a \in PoursOf(r.a) : Over(a, b) /\
        \E d \in Plane : \A q \in Points(b.box) :
            a.box.lo[d] <= q[d] - r.distance /\ q[d] + r.distance <= a.box.hi[d]
EnclosureKept(r) ==
    \A b \in PoursOf(r.b) : \E a \in PoursOf(r.a) : Covers(a.box, b.box, r.distance)
RuleKept(r, slack) ==
    IF r.type \in {"clearance", "overlap"} THEN SpacingKept(r, slack)
    ELSE IF r.type = "extension" THEN ExtensionKept(r)
    ELSE IF r.type = "transverse" THEN TransverseKept(r)
    ELSE EnclosureKept(r)
PairRulesAtLeast(slack) ==
    \A r \in Range(space.profile.rules) :
        r.distance > 0 /\ r.a # None /\ r.b # None => RuleKept(r, slack)
(* Every rule that the profile declares between two layers holds of the shapes
   (layer_pair.rs), whatever word it was declared with; a clearance up to the
   rounding. *)
PairRulesKept == outcome = "passed" => PairRulesAtLeast(1)

Silicon == {i \in DOMAIN space.pours :
              Materials[Stack[space.pours[i].layer].material].semiconductor}
Holders(i) == {j \in Silicon \ {i} : Points(space.pours[i].box) \subseteq Points(space.pours[j].box)}
Bodies(i) == IF Holders(i) = {} THEN space.grounds ELSE {space.pours[j].net : j \in Holders(i)}
Voltages(i) ==
    LET p == space.pours[i]
        nets == IF p.net # None THEN {p.net}
                ELSE IF p.device # None THEN Range(space.devices[p.device]) ELSE {}
    IN  {space.potential[n] : n \in nets} \ {None}
Difference(v, w) == IF v < w THEN w - v ELSE v - w
Rated(i, v, body) ==
    /\ body # None /\ space.potential[body] # None
    /\ Difference(v, space.potential[body]) <= Materials[Stack[space.pours[i].layer].material].rating
(* junction.rs:4: the voltage between a semiconductor region and one that holds
   it, or the ground, is within the rating, for the potential of the region of
   the largest size.  Of several regions around it one is looked at. *)
JunctionsRated ==
    outcome = "passed" =>
        \A i \in Silicon : Voltages(i) # {} =>
            \E v \in Voltages(i), body \in Bodies(i) :
                /\ Rated(i, v, body)
                /\ \A w \in Voltages(i) : Difference(w, 0) <= Difference(v, 0)
JunctionsFine ==
    \A i \in Silicon : \A v \in Voltages(i), body \in Bodies(i) : Rated(i, v, body)

PoursFine ==
    \A p \in Range(space.pours) :
          /\ Points(p.box) \subseteq Points(Die)
          /\ (p.box.hi[1] - p.box.lo[1]) * (p.box.hi[2] - p.box.lo[2])
                >= Materials[Stack[p.layer].material].minArea
HolesFine ==
    \A c \in Range(space.contacts) :
          /\ Points(Pad(c)) \subseteq Points(Die)
          /\ (c.drill \div 2) * (c.drill \div 2) * 4 >= Materials["tungsten"].minArea
          /\ c.drill >= space.profile.diameter
(* short_circuit.rs:4: shapes of one layer and two nets never intersect and keep
   min_spacing.  The distance is rounded to the nearest, so a diagonal may be
   short by half a unit.  Each lies on the die and has the area its material asks
   for. *)
PoursKept == outcome = "passed" => PoursAtLeast(1) /\ PoursFine

(* Two holes at one height, unless a stack of one net, keep the drill spacing
   between their rims (via_checks.rs:120); two odd diameters, halved by integer
   division, cost up to one unit of it.  None is too narrow or off the die, and
   one that meets metal of its net on a layer with an enclosure rule lies in one
   piece of it with the margin of the rule all round (via_checks.rs:369). *)
HolesKept == outcome = "passed" => HolesAtLeast(2) /\ HolesFine /\ LandingsFine

(* No clock, and no current: the pipeline gives traces none. *)
Quiet == \A i \in DOMAIN space.traces :
             space.traces[i].net \notin Clocks /\ ~(space.traces[i].current > 0)
(* The shapes have an area, the holes a depth, and they keep all the rules,
   without rounding. *)
Sound ==
    /\ \A p \in Range(space.pours) : Solid(p.box)
    /\ \A c \in Range(space.contacts) : c.z[1] < c.z[2]
    /\ PoursAtLeast(0) /\ HolesAtLeast(0) /\ LandingsFine /\ PairRulesAtLeast(0)
    /\ JunctionsFine /\ PoursFine /\ HolesFine /\ Quiet
(* A sound space is not refused: no check raises a false alarm.  (It may still
   fail, for what its profile or its nets do not declare.) *)
SoundIsNotRefused == outcome = "refused" => ~Sound

Copper(t) ==
    LET half == t.width \div 2 IN
    [lo |-> [d \in Plane |-> Lower(t, d) - half], hi |-> [d \in Plane |-> Upper(t, d) + half]]
(* clearance.rs:8: "Validate clearances between all nets", and crosstalk.rs:196
   leaves touching traces to that check: traces of two nets on one layer keep the
   spacing. *)
TracesApart ==
    outcome = "passed" =>
        \A t, u \in Range(space.traces) :
            t.net # u.net /\ t.layer = u.layer =>
                TwiceApart(Copper(t), Copper(u), 2 * space.profile.spacing - 1)
=============================================================================
