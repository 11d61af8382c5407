--------------------------- MODULE DesignRulesProofs ---------------------------
(* What is proved of the design rule check, for any spaces, profiles, stackups and
   materials: a space that is passed has no finding of any check, so that its
   pours, its holes and its junctions keep what its profile and its materials ask
   for, point by point; and a space that keeps it is not refused. *)
EXTENDS DesignRules, FiniteSetTheorems, WellFoundedInduction, TLAPS

-----------------------------------------------------------------------------
(* The run of the checks. *)

(* While the checks run, what those passed have found is in the report. *)
Collected ==
    outcome \in {"running", "passed"} =>
        /\ check > 7 => DrillsFound \subseteq report
        /\ check > 5 => DiametersFound \subseteq report
        /\ check > 8 => LandingsFound \subseteq report
        /\ check > 10 => \E r \in JunctionResults : ~r.error /\ r.found \subseteq report
        /\ check > 11 => AreasFound \subseteq report
        /\ check > 13 => OutsideFound \subseteq report
        /\ check > 14 => PairsFound \subseteq report
        /\ check > 15 => ShortsFound \subseteq report

(* And nothing gets there that no check finds. *)
Findings ==
    DensitiesFound \cup HeatFound \cup DiametersFound \cup RingsFound \cup DrillsFound
    \cup LandingsFound \cup CrosstalkFound \cup AreasFound \cup TapResult.found
    \cup OutsideFound \cup PairsFound \cup ShortsFound
    \cup UNION {r.found : r \in {q \in JunctionResults : ~q.error}}
NothingElse == report \subseteq Findings

Inv == TypeOK /\ SpaceTyped(space) /\ Collected /\ NothingElse

LEMMA InitInv == Init => Inv
  BY JobsTyped DEF Init, Inv, TypeOK, Collected, NothingElse

LEMMA LoadKeeps == ASSUME Inv, Load PROVE Inv'
  BY DEF Inv, TypeOK, Collected, NothingElse, Load

LEMMA FailsKeeps == ASSUME Inv, outcome = "running", check \in 1..15, Fails PROVE Inv'
  BY DEF Inv, TypeOK, Collected, NothingElse, Fails

(* What a check would find depends on the space and the rules only. *)
LEMMA SameFindings ==
    ASSUME UNCHANGED <<space, rules>>
    PROVE  /\ DrillsFound' = DrillsFound /\ DiametersFound' = DiametersFound
           /\ LandingsFound' = LandingsFound /\ AreasFound' = AreasFound
           /\ OutsideFound' = OutsideFound /\ ShortsFound' = ShortsFound
           /\ PairsFound' = PairsFound /\ JunctionResults' = JunctionResults
           /\ Findings' = Findings
<1>1. DrillsFound' = DrillsFound
  BY DEF DrillsFound
<1>2. DiametersFound' = DiametersFound
  BY DEF DiametersFound, SmallDrills
<1>3. LandingsFound' = LandingsFound
  BY DEF LandingsFound, LandsOn
<1>4. AreasFound' = AreasFound
  BY DEF AreasFound, Material
<1>5. OutsideFound' = OutsideFound
  BY DEF OutsideFound, Die
<1>6. ShortsFound' = ShortsFound
  BY DEF ShortsFound
<1>7. PairsFound' = PairsFound
  BY DEF PairsFound, RuleFound, EnclosureFound, TransverseFound, ExtensionFound, SpacingFound,
         Elements, OnLayer, OfCut, Above
<1>8. JunctionResults' = JunctionResults
  BY DEF JunctionResults, JunctionsFound, Grounds, Decided, Selections, Semiconductors, Material,
         Potentials, Volts, JunctionFails, Undecided, BodyPotential, Well, Around
<1>9. DensitiesFound' = DensitiesFound /\ HeatFound' = HeatFound
  BY DEF DensitiesFound, HeatFound, Loaded
<1>10. RingsFound' = RingsFound /\ CrosstalkFound' = CrosstalkFound
  BY DEF RingsFound, CrosstalkFound, Neighbours
<1>11. TapResult' = TapResult
  BY DEF TapResult, Semiconductors, Material, Taps
<1>12. Findings' = Findings
  BY <1>1, <1>2, <1>3, <1>4, <1>5, <1>6, <1>7, <1>8, <1>9, <1>10, <1>11 DEF Findings
<1> QED  BY <1>1, <1>2, <1>3, <1>4, <1>5, <1>6, <1>7, <1>8, <1>12

LEMMA ConcludeKeeps == ASSUME Inv, Conclude PROVE Inv'
<1>1. TypeOK'
  BY DEF Inv, TypeOK, Conclude
<1>2. Collected' /\ NothingElse'
  BY SameFindings DEF Inv, Collected, NothingElse, Conclude
<1> QED  BY <1>1, <1>2 DEF Inv, Conclude

(* A check that ends without an error reports what it finds and is passed. *)
LEMMA FindsKeeps ==
    ASSUME Inv, NEW n \in 1..15, At(n), NEW found, Finds(found), found \subseteq Findings,
           n < 3 => found = {},
           n = 5 => DiametersFound \subseteq found, n = 7 => DrillsFound \subseteq found,
           n = 8 => LandingsFound \subseteq found,
           n = 10 => \E r \in JunctionResults : ~r.error /\ r.found \subseteq found,
           n = 11 => AreasFound \subseteq found,
           n = 13 => OutsideFound \subseteq found, n = 14 => PairsFound \subseteq found,
           n = 15 => ShortsFound \subseteq found
    PROVE  Inv'
<1>1. check' = n + 1 /\ outcome' = "running" /\ report' = report \cup found
      /\ UNCHANGED <<space, rules>> /\ check = n /\ outcome = "running"
  BY DEF Finds, At
<1>2. TypeOK'
  BY <1>1 DEF Inv, TypeOK
<1>3. ASSUME n >= 10
      PROVE  \E r \in JunctionResults : ~r.error /\ r.found \subseteq report'
  BY <1>1, <1>3 DEF Inv, Collected
<1>4. Collected'
  <2>1. JunctionResults' = JunctionResults
    BY <1>1, SameFindings
  <2>2. check' > 10 => \E r \in JunctionResults' : ~r.error /\ r.found \subseteq report'
    BY <1>1, <1>3, <2>1
  <2>3. /\ check' > 7 => DrillsFound' \subseteq report'
        /\ check' > 5 => DiametersFound' \subseteq report'
        /\ check' > 8 => LandingsFound' \subseteq report'
        /\ check' > 11 => AreasFound' \subseteq report'
        /\ check' > 13 => OutsideFound' \subseteq report'
        /\ check' > 14 => PairsFound' \subseteq report'
        /\ check' > 15 => ShortsFound' \subseteq report'
    BY <1>1, SameFindings DEF Inv, Collected
  <2> QED  BY <2>2, <2>3 DEF Collected
<1>5. NothingElse'
  BY <1>1, SameFindings DEF Inv, NothingElse
<1> QED  BY <1>1, <1>2, <1>4, <1>5 DEF Inv

(* Nothing on the build path fills the entity graph. *)
LEMMA NoRoutes == ClearancesFound = {} /\ WidthsFound = {}
  BY DEF ClearancesFound, WidthsFound, EntityGraph

LEMMA NextKeeps == ASSUME Inv, [Next]_vars PROVE Inv'
<1>1. CASE Load
  BY <1>1, LoadKeeps
<1>2. CASE Conclude
  BY <1>2, ConcludeKeeps
<1>3. ASSUME NEW n \in 1..15, At(n), Fails PROVE Inv'
  BY <1>3, FailsKeeps DEF At
<1>4. CASE Clearances
  BY <1>4, NoRoutes, FindsKeeps DEF Clearances
<1>5. CASE TraceWidths
  BY <1>5, NoRoutes, FindsKeeps DEF TraceWidths
<1>6. CASE Electromigration
  BY <1>6, FindsKeeps DEF Electromigration, Findings
<1>7. CASE ThermalRise
  BY <1>3, <1>7, FindsKeeps DEF ThermalRise, Findings
<1>8. CASE ViaDiameters
  BY <1>3, <1>8, FindsKeeps DEF ViaDiameters, Findings
<1>9. CASE ViaEnclosures
  BY <1>9, FindsKeeps DEF ViaEnclosures, Findings
<1>10. CASE DrillClearances
  BY <1>10, FindsKeeps DEF DrillClearances, Findings
<1>11. CASE Landings
  BY <1>11, FindsKeeps DEF Landings, Findings
<1>12. CASE Crosstalk
  BY <1>3, <1>12, FindsKeeps DEF Crosstalk, Findings
<1>13. CASE Junctions
  <2>1. PICK r \in JunctionResults : At(10) /\ IF r.error THEN Fails ELSE Finds(r.found)
    BY <1>13 DEF Junctions
  <2>2. CASE r.error
    BY <1>3, <2>1, <2>2
  <2>3. CASE ~r.error
    <3>1. r.found \subseteq Findings
      BY <2>1, <2>3 DEF Findings
    <3> QED  BY <2>1, <2>3, <3>1, FindsKeeps
  <2> QED  BY <2>2, <2>3
<1>14. CASE MinimumAreas
  BY <1>14, FindsKeeps DEF MinimumAreas, Findings
<1>15. CASE TapProximity
  BY <1>3, <1>15, FindsKeeps DEF TapProximity, Findings
<1>16. CASE DieBoundary
  BY <1>16, FindsKeeps DEF DieBoundary, Findings
<1>17. CASE LayerPairs
  BY <1>17, FindsKeeps DEF LayerPairs, Findings
<1>18. CASE PlanarShorts
  BY <1>18, FindsKeeps DEF PlanarShorts, Findings
<1>19. CASE UNCHANGED vars
  BY <1>19, SameFindings DEF vars, Inv, TypeOK, Collected, NothingElse
<1> QED
  BY <1>1, <1>2, <1>4, <1>5, <1>6, <1>7, <1>8, <1>9, <1>10, <1>11, <1>12, <1>13, <1>14,
     <1>15, <1>16, <1>17, <1>18, <1>19 DEF Next

(* The check goes through its fifteen parts with the rules of its space, and the
   report holds what the parts passed have found; an error empties it and ends
   the check, and a space passes only with nothing in it. *)
THEOREM CheckInvariant == Spec => []Inv
<1>1. Init => Inv
  BY InitInv
<1>2. Inv /\ [Next]_vars => Inv'
  BY NextKeeps
<1> QED  BY <1>1, <1>2, PTL DEF Spec

-----------------------------------------------------------------------------
(* Boxes and points. *)

(* Squares keep the order of what is not negative. *)
LEMMA SquareOrder ==
    ASSUME NEW g \in Nat, NEW x \in Int, x >= g \/ -x >= g
    PROVE  x * x >= g * g
  OBVIOUS

(* The gap of two boxes on an axis is a natural number, and no two of their
   points are nearer. *)
LEMMA GapBounds ==
    ASSUME NEW a, NEW b, BoxTyped(a), BoxTyped(b), NEW d \in Plane,
           NEW p \in Points(a), NEW q \in Points(b)
    PROVE  /\ Gap(a, b, d) \in Nat /\ p[d] \in Int /\ q[d] \in Int
           /\ p[d] - q[d] >= Gap(a, b, d) \/ q[d] - p[d] >= Gap(a, b, d)
  BY DEF BoxTyped, Place, Plane, Points, Gap

LEMMA SquareBound ==
    ASSUME NEW a, NEW b, BoxTyped(a), BoxTyped(b), NEW p \in Points(a), NEW q \in Points(b)
    PROVE  /\ Square(p, q) \in Nat
           /\ Square(p, q) >= Gap(a, b, 1) * Gap(a, b, 1) + Gap(a, b, 2) * Gap(a, b, 2)
<1>1. 1 \in Plane /\ 2 \in Plane
  BY DEF Plane
<1> DEFINE x == p[1] - q[1]
           y == p[2] - q[2]
           g == Gap(a, b, 1)
           h == Gap(a, b, 2)
<1>2. g \in Nat /\ x \in Int /\ (x >= g \/ -x >= g)
  BY <1>1, GapBounds
<1>3. h \in Nat /\ y \in Int /\ (y >= h \/ -y >= h)
  BY <1>1, GapBounds
<1>4. x * x >= g * g /\ y * y >= h * h
  BY <1>2, <1>3, SquareOrder
<1>5. x * x \in Nat /\ y * y \in Nat /\ g * g \in Nat /\ h * h \in Nat
  BY <1>2, <1>3, <1>4
<1>6. Square(p, q) = x * x + y * y
  BY DEF Square
<1> HIDE DEF x, y, g, h
<1> QED  BY <1>4, <1>5, <1>6 DEF g, h

(* Boxes that do not meet are a unit apart on some axis. *)
LEMMA MissedBoxes ==
    ASSUME NEW a, NEW b, BoxTyped(a), BoxTyped(b), ~Meets(a, b)
    PROVE  Gap(a, b, 1) >= 1 \/ Gap(a, b, 2) >= 1
  BY DEF BoxTyped, Place, Plane, Meets, Gap

LEMMA MetBoxes ==
    ASSUME NEW a, NEW b, BoxTyped(a), BoxTyped(b)
    PROVE  Points(a) \cap Points(b) # {} <=> Meets(a, b)
<1>1. ASSUME NEW p \in Points(a) \cap Points(b)
      PROVE  Meets(a, b)
  BY <1>1 DEF BoxTyped, Place, Plane, Meets, Points
<1>2. ASSUME Meets(a, b)
      PROVE  Points(a) \cap Points(b) # {}
  <2> DEFINE p == <<IF a.lo[1] < b.lo[1] THEN b.lo[1] ELSE a.lo[1],
                    IF a.lo[2] < b.lo[2] THEN b.lo[2] ELSE a.lo[2]>>
  <2>1. p \in Points(a) /\ p \in Points(b)
    BY <1>2 DEF BoxTyped, Place, Plane, Meets, Points
  <2> QED  BY <2>1
<1> QED  BY <1>1, <1>2

(* Two boxes that do not meet, and are not too near, keep the spacing less the
   half unit of the rounding. *)
LEMMA SpacedBoxes ==
    ASSUME NEW a, NEW b, BoxTyped(a), BoxTyped(b), NEW s \in Nat,
           ~Meets(a, b), ~Nearer(a, b, s)
    PROVE  TwiceApart(a, b, IF s = 0 THEN 1 ELSE 2 * s - 1)
<1> SUFFICES ASSUME NEW p \in Points(a), NEW q \in Points(b)
             PROVE  4 * Square(p, q) >= (IF s = 0 THEN 1 ELSE 2 * s - 1)
                                          * (IF s = 0 THEN 1 ELSE 2 * s - 1)
  BY DEF TwiceApart
<1> DEFINE g == Gap(a, b, 1)
           h == Gap(a, b, 2)
<1>1. g \in Nat /\ h \in Nat /\ (g >= 1 \/ h >= 1)
  BY GapBounds, MissedBoxes DEF Plane
<1>2. Square(p, q) \in Nat /\ Square(p, q) >= g * g + h * h
  BY SquareBound
<1>3. g * g \in Nat /\ h * h \in Nat /\ (g * g >= 1 \/ h * h >= 1)
  <2>1. g * g \in Nat /\ h * h \in Nat
    BY <1>1
  <2>2. g >= 1 => g * g >= 1 * 1
    BY <1>1, SquareOrder
  <2>3. h >= 1 => h * h >= 1 * 1
    BY <1>1, SquareOrder
  <2> QED  BY <1>1, <2>1, <2>2, <2>3
<1>4. s > 0 => 4 * (g * g + h * h) >= (2 * s - 1) * (2 * s - 1)
  <2>1. s > 0 => ~(4 * (g * g + h * h) < (2 * s - 1) * (2 * s - 1))
    BY DEF Nearer
  <2>2. (2 * s - 1) * (2 * s - 1) \in Int /\ 4 * (g * g + h * h) \in Int
    BY <1>3
  <2> HIDE DEF g, h
  <2> QED  BY <2>1, <2>2
<1> HIDE DEF g, h
<1>5. CASE s = 0
  BY <1>2, <1>3, <1>5
<1>6. CASE s > 0
  <2> DEFINE m == (2 * s - 1) * (2 * s - 1)
  <2>1. m \in Int /\ 4 * (g * g + h * h) >= m
    BY <1>4, <1>6
  <2> HIDE DEF m
  <2>2. 4 * Square(p, q) >= m
    BY <1>2, <1>3, <2>1
  <2> QED  BY <1>6, <2>2 DEF m
<1> QED  BY <1>5, <1>6

LEMMA ApartEitherWay ==
    ASSUME NEW a, NEW b, BoxTyped(a), BoxTyped(b), NEW n, TwiceApart(a, b, n)
    PROVE  TwiceApart(b, a, n)
<1> SUFFICES ASSUME NEW p \in Points(b), NEW q \in Points(a)
             PROVE  Square(p, q) = Square(q, p)
  BY DEF TwiceApart
<1>1. /\ p[1] \in Int /\ p[2] \in Int
      /\ q[1] \in Int /\ q[2] \in Int
  BY DEF Points, BoxTyped, Place
<1>2. \A x, y \in Int : (x - y) * (x - y) = (y - x) * (y - x)
  OBVIOUS
<1> QED  BY <1>1, <1>2 DEF Square

(* A box that another exceeds by e on all sides is covered by it with e. *)
LEMMA EnclosedIsCovered ==
    ASSUME NEW a, NEW b, BoxTyped(a), BoxTyped(b), NEW e \in Int, Encloses(a, b, e)
    PROVE  Covers(a, b, e)
<1> SUFFICES ASSUME NEW p \in Points(b), NEW d \in Plane
             PROVE  a.lo[d] <= p[d] - e /\ p[d] + e <= a.hi[d]
  BY DEF Covers
<1>1. a.lo[d] + e <= b.lo[d] /\ b.hi[d] + e <= a.hi[d]
  BY DEF Encloses, Exceeds
<1>2. p[d] \in b.lo[d]..b.hi[d]
  BY DEF Points, Plane
<1> QED  BY <1>1, <1>2 DEF BoxTyped, Place, Plane

LEMMA EnclosedIsInside ==
    ASSUME NEW a, NEW b, BoxTyped(a), BoxTyped(b), Encloses(a, b, 0)
    PROVE  Points(b) \subseteq Points(a)
<1> SUFFICES ASSUME NEW p \in Points(b) PROVE p \in Points(a)
  OBVIOUS
<1>1. /\ a.lo[1] + 0 <= b.lo[1] /\ b.hi[1] + 0 <= a.hi[1]
      /\ a.lo[2] + 0 <= b.lo[2] /\ b.hi[2] + 0 <= a.hi[2]
  BY DEF Encloses, Exceeds, Plane
<1>2. p[1] \in b.lo[1]..b.hi[1] /\ p[2] \in b.lo[2]..b.hi[2] /\ p = <<p[1], p[2]>>
  BY DEF Points
<1>3. p[1] \in a.lo[1]..a.hi[1] /\ p[2] \in a.lo[2]..a.hi[2]
  BY <1>1, <1>2 DEF BoxTyped, Place
<1> QED  BY <1>2, <1>3 DEF Points

-----------------------------------------------------------------------------
(* Pours. *)

Clean == Inv /\ outcome = "passed"

(* A space that is passed has nothing that a check would find. *)
LEMMA CleanFindsNothing ==
    ASSUME Clean
    PROVE  /\ DrillsFound = {} /\ DiametersFound = {} /\ LandingsFound = {}
           /\ AreasFound = {} /\ OutsideFound = {} /\ ShortsFound = {} /\ PairsFound = {}
           /\ \E r \in JunctionResults : ~r.error /\ r.found = {}
           /\ rules = LowerProfile(space.profile)
<1>1. check = 16 /\ report = {}
  BY DEF Clean, Inv, TypeOK
<1> QED  BY <1>1 DEF Clean, Inv, TypeOK, Collected

LEMMA LoweredFields ==
    ASSUME NEW profile
    PROVE  /\ LowerProfile(profile).spacing = profile.spacing
           /\ LowerProfile(profile).drillSpacing = profile.drillSpacing
           /\ LowerProfile(profile).diameter = profile.diameter
           /\ LowerProfile(profile).landings = profile.landings
  BY DEF LowerProfile

LEMMA RulesOfTheProfile ==
    ASSUME Clean
    PROVE  /\ SpaceTyped(space)
           /\ rules.spacing = space.profile.spacing
           /\ rules.drillSpacing = space.profile.drillSpacing
           /\ rules.diameter = space.profile.diameter
           /\ rules.landings = space.profile.landings
<1>1. rules = LowerProfile(space.profile) /\ SpaceTyped(space)
  BY CleanFindsNothing DEF Clean, Inv
<1> QED  BY <1>1, LoweredFields

LEMMA ForeignPoursApart == Clean => PoursAtLeast(1)
<1> SUFFICES ASSUME Clean, NEW p \in ForeignPours
             PROVE  TwiceApart(space.pours[p[1]].box, space.pours[p[2]].box,
                       IF space.profile.spacing = 0 THEN 1 ELSE 2 * space.profile.spacing - 1)
  BY DEF PoursAtLeast
<1> DEFINE s == space.profile.spacing
           i == p[1]
           j == p[2]
<1>1. /\ s \in Nat /\ rules.spacing = s
      /\ i \in DOMAIN space.pours /\ j \in DOMAIN space.pours /\ i \in Nat /\ j \in Nat
      /\ BoxTyped(space.pours[i].box) /\ BoxTyped(space.pours[j].box)
  BY RulesOfTheProfile DEF SpaceTyped, PourTyped, ForeignPours
<1>2. ASSUME NEW k \in DOMAIN space.pours, NEW l \in DOMAIN space.pours, k < l,
             <<k, l>> \in ForeignPours \/ <<l, k>> \in ForeignPours
      PROVE  /\ ~Meets(space.pours[k].box, space.pours[l].box)
             /\ ~Nearer(space.pours[k].box, space.pours[l].box, s)
  <2>1. <<"short", <<k, l>>>> \notin ShortsFound
    BY CleanFindsNothing
  <2>2. <<k, l>> \in (DOMAIN space.pours) \X (DOMAIN space.pours)
    OBVIOUS
  <2>3. LET a == space.pours[k]
            b == space.pours[l]
        IN  /\ a.layer = b.layer /\ Conductive(a.layer)
            /\ None \notin {a.net, b.net} /\ a.net # b.net
            /\ ~(a.device # None /\ a.device = b.device)
    BY <1>2 DEF ForeignPours, Conductive, Mask
  <2> QED  BY <1>1, <1>2, <2>1, <2>2, <2>3 DEF ShortsFound
<1>3. p = <<i, j>> /\ i # j
  BY DEF ForeignPours
<1>4. CASE i < j
  <2>1. /\ ~Meets(space.pours[i].box, space.pours[j].box)
        /\ ~Nearer(space.pours[i].box, space.pours[j].box, s)
    BY <1>1, <1>2, <1>3, <1>4
  <2> QED  BY <1>1, <2>1, SpacedBoxes
<1>5. CASE j < i
  <2>1. /\ ~Meets(space.pours[j].box, space.pours[i].box)
        /\ ~Nearer(space.pours[j].box, space.pours[i].box, s)
    BY <1>1, <1>2, <1>3, <1>5
  <2>2. TwiceApart(space.pours[j].box, space.pours[i].box, IF s = 0 THEN 1 ELSE 2 * s - 1)
    BY <1>1, <2>1, SpacedBoxes
  <2> QED  BY <1>1, <2>2, ApartEitherWay
<1> QED  BY <1>1, <1>3, <1>4, <1>5

(* The die of a space on which a shape lies has its corners in order. *)
LEMMA DieHolds ==
    ASSUME SpaceTyped(space), NEW b, BoxTyped(b), Encloses(Die, b, 0)
    PROVE  BoxTyped(Die)
  BY DEF SpaceTyped, BoxTyped, Place, Die, Encloses, Exceeds, Plane

LEMMA AreaTyped == ASSUME NEW b, BoxTyped(b) PROVE Area(b) \in Int
<1>1. b.hi[1] - b.lo[1] \in Int /\ b.hi[2] - b.lo[2] \in Int
  BY DEF BoxTyped, Place
<1>2. \A x, y \in Int : x * y \in Int
  OBVIOUS
<1> QED  BY <1>1, <1>2, Zenon DEF Area

LEMMA PoursAreFine == Clean => PoursFine
<1> SUFFICES ASSUME Clean, NEW k \in DOMAIN space.pours
             PROVE  /\ Points(space.pours[k].box) \subseteq Points(Die)
                    /\ Area(space.pours[k].box) >= Material(space.pours[k]).minArea
  BY DEF PoursFine, Range, Area, Material
<1>1. BoxTyped(space.pours[k].box) /\ SpaceTyped(space)
  BY DEF Clean, Inv, SpaceTyped, PourTyped
<1>2. Encloses(Die, space.pours[k].box, 0)
  <2>1. <<"die", "pour", k>> \notin OutsideFound
    BY CleanFindsNothing
  <2> QED  BY <2>1 DEF OutsideFound
<1>3. Points(space.pours[k].box) \subseteq Points(Die)
  BY <1>1, <1>2, DieHolds, EnclosedIsInside
<1>4. ~(Area(space.pours[k].box) < Material(space.pours[k]).minArea)
  <2>1. <<"area", "pour", k>> \notin AreasFound
    BY CleanFindsNothing
  <2> QED  BY <2>1 DEF AreasFound
<1>5. Area(space.pours[k].box) \in Int
  BY <1>1, AreaTyped
<1>6. Material(space.pours[k]).minArea \in Int
  BY <1>1, MaterialsTyped, LayersTyped DEF Material, SpaceTyped, PourTyped
<1> QED  BY <1>3, <1>4, <1>5, <1>6

(* A space that the check passes has its metal and diffusion of two nets apart by
   the spacing of its profile, less half a unit, and every pour on the die and as
   large as its material asks. *)
THEOREM PassedPoursAreKept == Spec => []PoursKept
<1>1. Inv => PoursKept
  BY ForeignPoursApart, PoursAreFine DEF PoursKept, Clean
<1> QED  BY <1>1, CheckInvariant, PTL

-----------------------------------------------------------------------------
(* Holes. *)

LEMMA Halves ==
    ASSUME NEW n \in Nat
    PROVE  n \div 2 \in Nat /\ 2 * (n \div 2) \in {n, n - 1}
  OBVIOUS

LEMMA PadTyped ==
    ASSUME NEW c, Place(c.at), c.drill \in Nat
    PROVE  BoxTyped(Pad(c))
<1> DEFINE h == c.drill \div 2
<1>1. h \in Nat
  BY Halves
<1> HIDE DEF h
<1>2. Pad(c) = [lo |-> <<c.at[1] - h, c.at[2] - h>>, hi |-> <<c.at[1] + h, c.at[2] + h>>]
  BY DEF Pad, h
<1> QED  BY <1>1, <1>2 DEF BoxTyped, Place

(* Holes that are not too near keep the spacing between their rims, less a unit. *)
LEMMA SpacedHoles ==
    ASSUME NEW c, NEW d, Place(c.at), Place(d.at), c.drill \in Nat, d.drill \in Nat,
           NEW s \in Int, ~DrillsNear(c, d, s), 2 * s - 2 + c.drill + d.drill > 0
    PROVE  4 * Square(c.at, d.at)
             >= (2 * s - 2 + c.drill + d.drill) * (2 * s - 2 + c.drill + d.drill)
<1> DEFINE x == c.at[1] - d.at[1]
           y == c.at[2] - d.at[2]
           l == s + c.drill \div 2 + d.drill \div 2
           n == 2 * s - 2 + c.drill + d.drill
           q == x * x + y * y
<1>1. x \in Int /\ y \in Int
  BY DEF Place
<1>2. l \in Int /\ n \in Int /\ n > 0 /\ 2 * l >= n
  BY Halves
<1>3. ~(l > 0 /\ q < l * l) /\ Square(c.at, d.at) = q
  BY DEF DrillsNear, Square
<1> HIDE DEF x, y, l, n
<1>4. q \in Int
  BY <1>1
<1> HIDE DEF q
<1>5. l > 0 /\ l * l \in Int
  BY <1>2
<1>6. q >= l * l
  BY <1>3, <1>4, <1>5
<1>7. (2 * l) * (2 * l) >= n * n
  BY <1>2, SquareOrder
<1>8. (2 * l) * (2 * l) = 4 * (l * l) /\ n * n \in Int
  BY <1>2
<1>9. 4 * q >= n * n
  BY <1>4, <1>5, <1>6, <1>7, <1>8
<1> QED  BY <1>3, <1>9 DEF n

LEMMA SquareEitherWay ==
    ASSUME NEW p, NEW q, Place(p), Place(q)
    PROVE  Square(p, q) = Square(q, p)
<1>1. \A x, y \in Int : (x - y) * (x - y) = (y - x) * (y - x)
  OBVIOUS
<1> QED  BY <1>1 DEF Square, Place

(* A hole is related to another in either order. *)
LEMMA RelatedEitherWay ==
    ASSUME SpaceTyped(space), NEW i, NEW j, <<i, j>> \in RelatedHoles
    PROVE  /\ i \in DOMAIN space.contacts /\ j \in DOMAIN space.contacts /\ i # j
           /\ DrillsRelated(space.contacts[i], space.contacts[j])
           /\ DrillsRelated(space.contacts[j], space.contacts[i])
<1> DEFINE c == space.contacts[i]
           d == space.contacts[j]
<1>1. /\ i \in DOMAIN space.contacts /\ j \in DOMAIN space.contacts /\ i # j
      /\ \E h \in c.z[1]..c.z[2] : h \in d.z[1]..d.z[2]
      /\ \/ c.net = None \/ c.net # d.net
         \/ /\ \E h \in c.z[1]..(c.z[2] - 1) : h \in d.z[1]..(d.z[2] - 1)
            /\ c.at # d.at
  BY DEF RelatedHoles
<1>2. HeightsTyped(c.z) /\ HeightsTyped(d.z)
  BY <1>1 DEF SpaceTyped
<1> HIDE DEF c, d
<1>3. c.z[1] <= d.z[2] /\ c.z[2] >= d.z[1]
  BY <1>1, <1>2 DEF HeightsTyped
<1>4. c.net # None /\ c.net = d.net => c.z[1] < d.z[2] /\ d.z[1] < c.z[2] /\ c.at # d.at
  BY <1>1, <1>2 DEF HeightsTyped
<1>5. DrillsRelated(c, d) /\ DrillsRelated(d, c)
  BY <1>2, <1>3, <1>4 DEF DrillsRelated, HeightsTyped
<1> QED  BY <1>1, <1>5 DEF c, d

LEMMA HolesApart == Clean => HolesAtLeast(2)
<1> SUFFICES ASSUME Clean, NEW p \in RelatedHoles,
                    2 * space.profile.drillSpacing - 2
                       + space.contacts[p[1]].drill + space.contacts[p[2]].drill > 0
             PROVE  4 * Square(space.contacts[p[1]].at, space.contacts[p[2]].at)
                      >= (2 * space.profile.drillSpacing - 2
                            + space.contacts[p[1]].drill + space.contacts[p[2]].drill)
                         * (2 * space.profile.drillSpacing - 2
                              + space.contacts[p[1]].drill + space.contacts[p[2]].drill)
  BY DEF HolesAtLeast
<1> DEFINE s == space.profile.drillSpacing
           i == p[1]
           j == p[2]
           c == space.contacts[i]
           d == space.contacts[j]
<1>1. p = <<i, j>>
  BY DEF RelatedHoles
<1>2. /\ i \in DOMAIN space.contacts /\ j \in DOMAIN space.contacts /\ i # j
      /\ DrillsRelated(c, d) /\ DrillsRelated(d, c)
  BY <1>1, RelatedEitherWay DEF Clean, Inv
<1>3. /\ s \in Int /\ rules.drillSpacing = s /\ i \in Nat /\ j \in Nat
      /\ Place(c.at) /\ Place(d.at) /\ c.drill \in Nat /\ d.drill \in Nat
  BY <1>2, RulesOfTheProfile DEF SpaceTyped
<1> DEFINE m == 2 * s - 2 + c.drill + d.drill
<1>4. ASSUME i < j
      PROVE  4 * Square(c.at, d.at) >= m * m
  <2>1. <<"drill", <<i, j>>>> \notin DrillsFound
    BY CleanFindsNothing
  <2>2. ~DrillsNear(c, d, s)
    BY <1>2, <1>3, <1>4, <2>1 DEF DrillsFound
  <2> QED  BY <1>3, <2>2, SpacedHoles
<1>5. ASSUME j < i
      PROVE  4 * Square(c.at, d.at) >= m * m
  <2>1. <<"drill", <<j, i>>>> \notin DrillsFound
    BY CleanFindsNothing
  <2>2. ~DrillsNear(d, c, s)
    BY <1>2, <1>3, <1>5, <2>1 DEF DrillsFound
  <2> DEFINE n == 2 * s - 2 + d.drill + c.drill
  <2>3. n = m /\ n > 0
    BY <1>3
  <2>4. 4 * Square(d.at, c.at) >= n * n
    BY <1>3, <2>2, <2>3, SpacedHoles
  <2>5. Square(d.at, c.at) = Square(c.at, d.at)
    BY <1>3, SquareEitherWay
  <2> HIDE DEF m, n, c, d
  <2> QED  BY <2>3, <2>4, <2>5
<1>6. i < j \/ j < i
  BY <1>2, <1>3
<1> QED  BY <1>4, <1>5, <1>6

LEMMA ContactTyped ==
    ASSUME SpaceTyped(space), NEW k \in DOMAIN space.contacts
    PROVE  /\ BoxTyped(Pad(space.contacts[k])) /\ HeightsTyped(space.contacts[k].z)
           /\ space.contacts[k].drill \in Nat /\ Place(space.contacts[k].at)
  BY PadTyped DEF SpaceTyped

LEMMA PadArea ==
    ASSUME NEW c, Place(c.at), c.drill \in Nat
    PROVE  Area(Pad(c)) = (c.drill \div 2) * (c.drill \div 2) * 4
<1> DEFINE h == c.drill \div 2
<1>1. h \in Nat /\ c.at[1] \in Int /\ c.at[2] \in Int
  BY Halves DEF Place
<1>2. Area(Pad(c)) = ((c.at[1] + h) - (c.at[1] - h)) * ((c.at[2] + h) - (c.at[2] - h))
  BY DEF Area, Pad
<1> HIDE DEF h
<1>3. (c.at[1] + h) - (c.at[1] - h) = 2 * h /\ (c.at[2] + h) - (c.at[2] - h) = 2 * h
  BY <1>1
<1>4. (2 * h) * (2 * h) = h * h * 4
  BY <1>1
<1> QED  BY <1>2, <1>3, <1>4 DEF h

LEMMA HolesAreFine == Clean => HolesFine
<1> SUFFICES ASSUME Clean, NEW k \in DOMAIN space.contacts
             PROVE  LET c == space.contacts[k] IN
                    /\ Points(Pad(c)) \subseteq Points(Die)
                    /\ (c.drill \div 2) * (c.drill \div 2) * 4 >= Materials["tungsten"].minArea
                    /\ c.drill >= space.profile.diameter
  BY DEF HolesFine, Range
<1> DEFINE c == space.contacts[k]
           h == c.drill \div 2
<1>1. BoxTyped(Pad(c)) /\ SpaceTyped(space) /\ c.drill \in Nat /\ Place(c.at)
  BY ContactTyped DEF Clean, Inv
<1>2. Points(Pad(c)) \subseteq Points(Die)
  <2>1. <<"die", "contact", k>> \notin OutsideFound
    BY CleanFindsNothing
  <2>2. Encloses(Die, Pad(c), 0)
    BY <2>1 DEF OutsideFound
  <2> QED  BY <1>1, <2>2, DieHolds, EnclosedIsInside
<1>3. h * h * 4 >= Materials["tungsten"].minArea
  <2>1. <<"area", "contact", k>> \notin AreasFound
    BY CleanFindsNothing
  <2>2. ~(Area(Pad(c)) < Materials["tungsten"].minArea)
    BY <2>1 DEF AreasFound
  <2>3. Area(Pad(c)) = h * h * 4
    BY <1>1, PadArea
  <2>4. Area(Pad(c)) \in Int /\ Materials["tungsten"].minArea \in Int
    BY <1>1, AreaTyped, MaterialsTyped
  <2> QED  BY <2>2, <2>3, <2>4
<1>4. c.drill >= space.profile.diameter
  <2>1. <<"diameter", k>> \notin DiametersFound /\ rules.diameter = space.profile.diameter
    BY CleanFindsNothing, RulesOfTheProfile
  <2>2. ~(c.drill < rules.diameter)
    BY <2>1 DEF DiametersFound, SmallDrills
  <2> QED  BY <1>1, <2>1, <2>2 DEF SpaceTyped
<1> QED  BY <1>2, <1>3, <1>4

(* The pours that a contact lands on are those it has a point in common with. *)
LEMMA LandedIsLandsOn ==
    ASSUME SpaceTyped(space), NEW i \in DOMAIN space.contacts, NEW k \in DOMAIN space.pours,
           NEW layer
    PROVE  space.pours[k] \in Landed(space.contacts[i], layer)
             <=> k \in LandsOn(space.contacts[i], layer)
<1> DEFINE c == space.contacts[i]
           p == space.pours[k]
<1>1. /\ BoxTyped(p.box) /\ BoxTyped(Pad(c)) /\ HeightsTyped(c.z)
      /\ p.layer = layer => HeightsTyped(Stack[layer].z)
  BY ContactTyped, LayersTyped DEF SpaceTyped, PourTyped
<1>2. Points(p.box) \cap Points(Pad(c)) # {} <=> Meets(p.box, Pad(c))
  BY <1>1, MetBoxes
<1>3. Meets(p.box, Pad(c)) <=> Meets(Pad(c), p.box)
  BY <1>1 DEF Meets, BoxTyped, Place, Plane
<1>4. p.layer = layer =>
        ((\E h \in c.z[1]..c.z[2] : h \in Stack[layer].z[1]..Stack[layer].z[2])
           <=> c.z[1] <= Stack[layer].z[2] /\ c.z[2] >= Stack[layer].z[1])
  <2> SUFFICES ASSUME p.layer = layer
               PROVE (\E h \in c.z[1]..c.z[2] : h \in Stack[layer].z[1]..Stack[layer].z[2])
                       <=> c.z[1] <= Stack[layer].z[2] /\ c.z[2] >= Stack[layer].z[1]
    OBVIOUS
  <2> DEFINE z == c.z
             w == Stack[layer].z
  <2>1. HeightsTyped(z) /\ HeightsTyped(w)
    BY <1>1
  <2> HIDE DEF z, w
  <2>2. ASSUME z[1] <= w[2], z[2] >= w[1]
        PROVE  \E h \in z[1]..z[2] : h \in w[1]..w[2]
    <3>1. CASE z[1] <= w[1]
      <4>1. w[1] \in z[1]..z[2] /\ w[1] \in w[1]..w[2]
        BY <2>1, <2>2, <3>1 DEF HeightsTyped
      <4> QED  BY <4>1
    <3>2. CASE w[1] <= z[1]
      <4>1. z[1] \in z[1]..z[2] /\ z[1] \in w[1]..w[2]
        BY <2>1, <2>2, <3>2 DEF HeightsTyped
      <4> QED  BY <4>1
    <3> QED  BY <2>1, <3>1, <3>2 DEF HeightsTyped
  <2>3. ASSUME NEW h \in z[1]..z[2], h \in w[1]..w[2]
        PROVE  z[1] <= w[2] /\ z[2] >= w[1]
    BY <2>1, <2>3 DEF HeightsTyped
  <2>4. (\E h \in z[1]..z[2] : h \in w[1]..w[2]) <=> z[1] <= w[2] /\ z[2] >= w[1]
    BY <2>2, <2>3
  <2> QED  BY <2>4 DEF z, w
<1> QED  BY <1>2, <1>3, <1>4 DEF Landed, LandsOn, Range

LEMMA LandingsAreFine == Clean => LandingsFine
<1> SUFFICES ASSUME Clean, NEW i \in DOMAIN space.contacts,
                    NEW layer \in DOMAIN space.profile.landings,
                    space.contacts[i].net # None,
                    layer \in {space.contacts[i].from, space.contacts[i].to},
                    Landed(space.contacts[i], layer) # {}
             PROVE  \E p \in Landed(space.contacts[i], layer) :
                       Covers(p.box, Pad(space.contacts[i]), space.profile.landings[layer])
  BY DEF LandingsFine, Range
<1> DEFINE c == space.contacts[i]
           e == space.profile.landings[layer]
<1>1. SpaceTyped(space) /\ e \in Int /\ rules.landings = space.profile.landings
  BY RulesOfTheProfile DEF SpaceTyped
<1>2. LandsOn(c, layer) # {}
  <2>1. PICK k \in DOMAIN space.pours : space.pours[k] \in Landed(c, layer)
    BY DEF Landed, Range
  <2> QED  BY <1>1, <2>1, LandedIsLandsOn
<1>3. PICK k \in LandsOn(c, layer) : Encloses(space.pours[k].box, Pad(c), e)
  <2>1. <<"landing", <<i, layer>>>> \notin LandingsFound
    BY CleanFindsNothing
  <2>2. <<i, layer>> \in (DOMAIN space.contacts) \X (DOMAIN rules.landings)
    BY <1>1
  <2> QED  BY <1>1, <1>2, <2>1, <2>2 DEF LandingsFound
<1>4. k \in DOMAIN space.pours
  BY DEF LandsOn
<1>5. space.pours[k] \in Landed(c, layer)
  BY <1>1, <1>4, LandedIsLandsOn
<1>6. Covers(space.pours[k].box, Pad(c), e)
  BY <1>1, <1>3, <1>4, ContactTyped, EnclosedIsCovered DEF SpaceTyped, PourTyped
<1> QED  BY <1>5, <1>6

(* A space that the check passes has its holes apart by the drill spacing, less a
   unit, each on the die, wide enough, and landed with the margin asked for. *)
THEOREM PassedHolesAreKept == Spec => []HolesKept
<1>1. Inv => HolesKept
  BY HolesApart, HolesAreFine, LandingsAreFine DEF HolesKept, Clean
<1> QED  BY <1>1, CheckInvariant, PTL


-----------------------------------------------------------------------------
(* Rules between two layers. *)

(* From the first check on, the rules are those of the profile. *)
LEMMA RulesInUse ==
    ASSUME Inv, check # 0
    PROVE  /\ SpaceTyped(space)
           /\ rules.spacing = space.profile.spacing
           /\ rules.drillSpacing = space.profile.drillSpacing
           /\ rules.diameter = space.profile.diameter
           /\ rules.landings = space.profile.landings
           /\ rules.cuts = space.profile.cuts
           /\ rules.technology = "asic" /\ rules.tapDistance = None
           /\ DOMAIN rules.pairs = Declared(space.profile)
           /\ \A i \in Declared(space.profile) :
                 rules.pairs[i] = LoweredRule(space.profile.rules[i])
<1>1. rules = LowerProfile(space.profile) /\ SpaceTyped(space)
  BY DEF Inv, TypeOK
<1> QED  BY <1>1 DEF LowerProfile

LEMMA PoursTyped ==
    ASSUME SpaceTyped(space), NEW p \in Range(space.pours)
    PROVE  PourTyped(space, p) /\ BoxTyped(p.box)
  BY DEF SpaceTyped, PourTyped, Range

(* The elements of a layer are its pours. *)
LEMMA ElementIsPour ==
    ASSUME SpaceTyped(space), NEW layer, NEW b \in OnLayer(layer)
    PROVE  BoxTyped(b.box) /\ \E p \in PoursOf(layer) : b = [name |-> p.name, box |-> p.box]
  BY PoursTyped DEF OnLayer, PoursOf

LEMMA PourIsElement ==
    ASSUME NEW layer, NEW p \in PoursOf(layer)
    PROVE  [name |-> p.name, box |-> p.box] \in OnLayer(layer)
  BY DEF OnLayer, PoursOf

LEMMA ShapesAreElements ==
    ASSUME rules.cuts = space.profile.cuts, NEW name
    PROVE  Shapes(name) = Elements(name)
  BY DEF Shapes, Elements, OfCut, OnLayer, PoursOf

LEMMA ElementsTyped ==
    ASSUME SpaceTyped(space), NEW name, NEW b \in Elements(name)
    PROVE  BoxTyped(b.box)
<1>1. CASE b \in OnLayer(name)
  BY <1>1, ElementIsPour
<1>2. ASSUME NEW cut, b \in OfCut(cut)
      PROVE  BoxTyped(b.box)
  BY <1>2, ContactTyped DEF OfCut, Range
<1> QED  BY <1>1, <1>2 DEF Elements

(* Two intervals have points between their ends in common if each begins before
   the other ends, and only if one of them has a length. *)
LEMMA Intervals ==
    ASSUME NEW a, NEW b, BoxTyped(a), BoxTyped(b), NEW d \in Plane
    PROVE  /\ a.lo[d] < b.hi[d] /\ b.lo[d] < a.hi[d] => Between(a, d) \cap Between(b, d) # {}
           /\ b.lo[d] < b.hi[d] /\ Between(a, d) \cap Between(b, d) # {}
                => a.lo[d] < b.hi[d] /\ b.lo[d] < a.hi[d]
<1> DEFINE k == a.lo[d]
           l == a.hi[d]
           m == b.lo[d]
           n == b.hi[d]
           S == IF k = l THEN {2 * k} ELSE (2 * k + 1)..(2 * l - 1)
           T == IF m = n THEN {2 * m} ELSE (2 * m + 1)..(2 * n - 1)
<1>1. /\ k \in Int /\ l \in Int /\ k <= l
      /\ m \in Int /\ n \in Int /\ m <= n
  BY DEF BoxTyped, Place, Plane
<1>2. Between(a, d) = S /\ Between(b, d) = T
  BY DEF Between
<1> HIDE DEF k, l, m, n
<1>3. ASSUME k < n, m < l
      PROVE  S \cap T # {}
  <2> DEFINE w == IF k = l THEN 2 * k ELSE IF m = n THEN 2 * m
                  ELSE IF k < m THEN 2 * m + 1 ELSE 2 * k + 1
  <2>1. w \in S
    BY <1>1, <1>3
  <2>2. w \in T
    BY <1>1, <1>3
  <2> QED  BY <2>1, <2>2
<1>4. ASSUME m < n, NEW w \in S \cap T
      PROVE  k < n /\ m < l
  BY <1>1, <1>4
<1> QED  BY <1>2, <1>3, <1>4 DEF k, l, m, n

LEMMA OverIsOverlap ==
    ASSUME NEW a, NEW b, BoxTyped(a.box), BoxTyped(b.box)
    PROVE  /\ Overlaps(a.box, b.box) => Over(a, b)
           /\ Solid(b.box) /\ Over(a, b) => Overlaps(a.box, b.box)
  BY Intervals DEF Overlaps, Over, Solid

(* Whatever has a distance to keep is apart by it, less the half of the rounding. *)
LEMMA NotNearer ==
    ASSUME NEW a, NEW b, BoxTyped(a), BoxTyped(b), NEW s \in Int, s > 0, ~Nearer(a, b, s)
    PROVE  TwiceApart(a, b, 2 * s - 1)
<1>1. ~Meets(a, b)
  <2> SUFFICES ASSUME Meets(a, b) PROVE FALSE
    OBVIOUS
  <2>1. Gap(a, b, 1) = 0 /\ Gap(a, b, 2) = 0
    BY DEF Gap, Meets, BoxTyped, Place, Plane
  <2>2. 4 * (0 * 0 + 0 * 0) < (2 * s - 1) * (2 * s - 1)
    OBVIOUS
  <2> QED  BY <2>1, <2>2 DEF Nearer
<1>2. TwiceApart(a, b, IF s = 0 THEN 1 ELSE 2 * s - 1)
  BY <1>1, SpacedBoxes
<1> QED  BY <1>2

LEMMA SpacingHolds ==
    ASSUME SpaceTyped(space), rules.cuts = space.profile.cuts,
           NEW r, r.distance \in Int, r.distance > 0, SpacingFound(r) = {}
    PROVE  SpacingKept(r, 1)
<1> SUFFICES ASSUME NEW a \in Shapes(r.a), NEW b \in Shapes(r.b), a # b
             PROVE  TwiceApart(a.box, b.box, 2 * r.distance - 1)
  BY DEF SpacingKept
<1>1. a \in Elements(r.a) /\ b \in Elements(r.b)
  BY ShapesAreElements
<1>2. ~Nearer(a.box, b.box, r.distance)
  <2>1. <<a, b>> \notin SpacingFound(r)
    OBVIOUS
  <2> QED  BY <1>1, <2>1 DEF SpacingFound
<1> QED  BY <1>1, <1>2, ElementsTyped, NotNearer

LEMMA EnclosureHolds ==
    ASSUME SpaceTyped(space), NEW r, r.distance \in Int, EnclosureFound(r) = {}
    PROVE  EnclosureKept(r)
<1> SUFFICES ASSUME NEW p \in PoursOf(r.b)
             PROVE  \E q \in PoursOf(r.a) : Covers(q.box, p.box, r.distance)
  BY DEF EnclosureKept
<1> DEFINE b == [name |-> p.name, box |-> p.box]
<1>1. b \in OnLayer(r.b)
  BY PourIsElement
<1>2. PICK a \in Above(r.a, b) : Encloses(a.box, b.box, r.distance)
  <2>1. b \notin EnclosureFound(r)
    OBVIOUS
  <2> QED  BY <1>1, <2>1 DEF EnclosureFound
<1>3. PICK q \in PoursOf(r.a) : BoxTyped(q.box) /\ a = [name |-> q.name, box |-> q.box]
  BY ElementIsPour DEF Above
<1>4. BoxTyped(p.box)
  BY <1>1, ElementIsPour
<1> QED  BY <1>2, <1>3, <1>4, EnclosedIsCovered

LEMMA TransverseHolds ==
    ASSUME SpaceTyped(space), NEW r, r.distance \in Int, TransverseFound(r) = {}
    PROVE  TransverseKept(r)
<1> SUFFICES ASSUME NEW p \in PoursOf(r.b)
             PROVE  \E q \in PoursOf(r.a) : Over(q, p) /\
                       \E d \in Plane : \A x \in Points(p.box) :
                          q.box.lo[d] <= x[d] - r.distance /\ x[d] + r.distance <= q.box.hi[d]
  BY DEF TransverseKept
<1> DEFINE b == [name |-> p.name, box |-> p.box]
<1>1. b \in OnLayer(r.b) /\ BoxTyped(p.box)
  BY PourIsElement, ElementIsPour
<1>2. PICK a \in Above(r.a, b) : \E d \in Plane : Exceeds(a.box, b.box, d, r.distance)
  <2>1. b \notin TransverseFound(r)
    OBVIOUS
  <2> QED  BY <1>1, <2>1 DEF TransverseFound
<1>3. PICK q \in PoursOf(r.a) : BoxTyped(q.box) /\ a = [name |-> q.name, box |-> q.box]
  BY ElementIsPour DEF Above
<1>4. Over(q, p)
  <2>1. Overlaps(q.box, p.box)
    BY <1>2, <1>3 DEF Above
  <2> QED  BY <1>1, <1>3, <2>1, OverIsOverlap
<1>5. PICK d \in Plane : Exceeds(q.box, p.box, d, r.distance)
  BY <1>2, <1>3
<1>6. ASSUME NEW x \in Points(p.box)
      PROVE  q.box.lo[d] <= x[d] - r.distance /\ x[d] + r.distance <= q.box.hi[d]
  <2>1. q.box.lo[d] + r.distance <= p.box.lo[d] /\ p.box.hi[d] + r.distance <= q.box.hi[d]
    BY <1>5 DEF Exceeds
  <2>2. x[d] \in p.box.lo[d]..p.box.hi[d]
    BY DEF Points, Plane
  <2> QED  BY <1>1, <1>3, <2>1, <2>2 DEF BoxTyped, Place, Plane
<1> QED  BY <1>4, <1>6

LEMMA ExtensionHolds ==
    ASSUME SpaceTyped(space), NEW r, r.distance \in Int, ExtensionFound(r) = {}
    PROVE  ExtensionKept(r)
<1> SUFFICES ASSUME NEW p \in PoursOf(r.b), Solid(p.box), \E q \in PoursOf(r.a) : Over(q, p)
             PROVE  \E q \in PoursOf(r.a) : Over(q, p) /\
                       \E y \in Points(q.box) : \E d \in Plane : \A x \in Points(p.box) :
                          y[d] - x[d] >= r.distance \/ x[d] - y[d] >= r.distance
  BY DEF ExtensionKept
<1> DEFINE b == [name |-> p.name, box |-> p.box]
<1>1. b \in OnLayer(r.b) /\ BoxTyped(p.box)
  BY PourIsElement, ElementIsPour
<1>2. Above(r.a, b) # {}
  <2>1. PICK q \in PoursOf(r.a) : Over(q, p)
    OBVIOUS
  <2>2. [name |-> q.name, box |-> q.box] \in OnLayer(r.a) /\ BoxTyped(q.box)
    BY PourIsElement, ElementIsPour
  <2>3. Overlaps(q.box, p.box)
    BY <1>1, <2>1, <2>2, OverIsOverlap
  <2> QED  BY <2>2, <2>3 DEF Above
<1>3. PICK a \in Above(r.a, b), d \in Plane :
         ~(b.box.lo[d] - a.box.lo[d] < r.distance /\ a.box.hi[d] - b.box.hi[d] < r.distance)
  <2>1. b \notin ExtensionFound(r)
    OBVIOUS
  <2> QED  BY <1>1, <1>2, <2>1 DEF ExtensionFound
<1>4. PICK q \in PoursOf(r.a) : BoxTyped(q.box) /\ a = [name |-> q.name, box |-> q.box]
  BY ElementIsPour DEF Above
<1>5. Over(q, p)
  <2>1. Overlaps(q.box, p.box)
    BY <1>3, <1>4 DEF Above
  <2> QED  BY <1>1, <1>4, <2>1, OverIsOverlap
<1> DEFINE lo == <<q.box.lo[1], q.box.lo[2]>>
           hi == <<q.box.hi[1], q.box.hi[2]>>
<1>6. /\ lo \in Points(q.box) /\ hi \in Points(q.box)
      /\ lo[d] = q.box.lo[d] /\ hi[d] = q.box.hi[d]
  BY <1>4 DEF Points, BoxTyped, Place, Plane
<1> HIDE DEF lo, hi
<1>7. \A x \in Points(p.box) : x[d] \in p.box.lo[d]..p.box.hi[d]
  BY DEF Points, Plane
<1>8. CASE p.box.lo[d] - q.box.lo[d] >= r.distance
  <2>1. \A x \in Points(p.box) : x[d] - lo[d] >= r.distance
    BY <1>1, <1>4, <1>6, <1>7, <1>8 DEF BoxTyped, Place, Plane
  <2> QED  BY <1>5, <1>6, <2>1
<1>9. CASE q.box.hi[d] - p.box.hi[d] >= r.distance
  <2>1. \A x \in Points(p.box) : hi[d] - x[d] >= r.distance
    BY <1>1, <1>4, <1>6, <1>7, <1>9 DEF BoxTyped, Place, Plane
  <2> QED  BY <1>5, <1>6, <2>1
<1>10. p.box.lo[d] - q.box.lo[d] >= r.distance \/ q.box.hi[d] - p.box.hi[d] >= r.distance
  BY <1>1, <1>3, <1>4 DEF BoxTyped, Place, Plane
<1> QED  BY <1>8, <1>9, <1>10

LEMMA PairRulesHold == Clean => PairRulesAtLeast(1)
<1> SUFFICES ASSUME Clean, NEW i \in Declared(space.profile)
             PROVE  RuleKept(space.profile.rules[i], 1)
  BY DEF PairRulesAtLeast, Declared, Range
<1> DEFINE r == space.profile.rules[i]
           l == LoweredRule(r)
<1>1. /\ SpaceTyped(space) /\ rules.cuts = space.profile.cuts
      /\ i \in DOMAIN rules.pairs /\ rules.pairs[i] = l
  BY RulesInUse DEF Clean, Inv, TypeOK
<1>2. RuleFound(l) = {}
  <2>1. PairsFound = {}
    BY CleanFindsNothing
  <2>2. ASSUME NEW x \in RuleFound(l)
        PROVE  FALSE
    <3>1. <<i, x>> \in {i} \X RuleFound(rules.pairs[i])
      BY <1>1
    <3>2. <<"pair", <<i, x>>>> \in PairsFound
      BY <1>1, <3>1 DEF PairsFound
    <3> QED  BY <2>1, <3>2
  <2> QED  BY <2>2
<1>3. r.distance \in Int /\ r.distance > 0
  BY <1>1 DEF SpaceTyped, Declared, Range
<1>4. /\ l.a = r.a /\ l.b = r.b /\ l.distance = r.distance
      /\ l.type = IF r.type \in RuleTypes THEN r.type ELSE "enclosure"
  BY DEF LoweredRule
<1> HIDE DEF l, r
<1>5. CASE r.type \in {"clearance", "overlap"}
  <2>1. SpacingFound(l) = {}
    BY <1>2, <1>4, <1>5 DEF RuleFound, RuleTypes
  <2>2. SpacingKept(l, 1)
    BY <1>1, <1>3, <1>4, <2>1, SpacingHolds
  <2> QED  BY <1>4, <1>5, <2>2 DEF SpacingKept, RuleKept, r
<1>6. CASE r.type = "extension"
  <2>1. ExtensionFound(l) = {}
    BY <1>2, <1>4, <1>6 DEF RuleFound, RuleTypes
  <2>2. ExtensionKept(l)
    BY <1>1, <1>3, <1>4, <2>1, ExtensionHolds
  <2> QED  BY <1>4, <1>6, <2>2 DEF ExtensionKept, RuleKept, r
<1>7. CASE r.type = "transverse"
  <2>1. TransverseFound(l) = {}
    BY <1>2, <1>4, <1>7 DEF RuleFound, RuleTypes
  <2>2. TransverseKept(l)
    BY <1>1, <1>3, <1>4, <2>1, TransverseHolds
  <2> QED  BY <1>4, <1>7, <2>2 DEF TransverseKept, RuleKept, r
<1>8. CASE r.type \notin {"clearance", "overlap", "extension", "transverse"}
  <2>1. EnclosureFound(l) = {}
    BY <1>2, <1>4, <1>8 DEF RuleFound, RuleTypes
  <2>2. EnclosureKept(l)
    BY <1>1, <1>3, <1>4, <2>1, EnclosureHolds
  <2> QED  BY <1>4, <1>8, <2>2 DEF EnclosureKept, RuleKept, r
<1> QED  BY <1>5, <1>6, <1>7, <1>8 DEF r

(* A space that the check passes keeps every rule its profile declares between two
   layers, whatever its word. *)
THEOREM PassedRulesAreKept == Spec => []PairRulesKept
<1>1. Inv => PairRulesKept
  BY PairRulesHold DEF PairRulesKept, Clean
<1> QED  BY <1>1, CheckInvariant, PTL


-----------------------------------------------------------------------------
(* Junctions. *)

LEMMA LeastNumber ==
    ASSUME NEW S \in SUBSET Nat, S # {}
    PROVE  \E x \in S : \A y \in S : x <= y
<1>1. PICK x \in S : \A y \in S : ~ (<<y, x>> \in OpToRel(<, Nat))
  BY NatLessThanWellFounded, WFMin
<1>2. ASSUME NEW y \in S, y < x
      PROVE  <<y, x>> \in OpToRel(<, Nat)
  BY <1>2, Zenon DEF OpToRel
<1>3. \A y \in S : ~ (y < x)
  BY <1>1, <1>2
<1> QED  BY <1>3

LEMMA Raised == \A m, n \in Nat : m + n \in Nat /\ m <= m + n /\ n <= m + n
  OBVIOUS

LEMMA SizeTyped == ASSUME NEW v \in Int PROVE Apart(v, 0) \in Nat
  BY DEF Apart

(* Of finitely many potentials one is the largest in size. *)
LEMMA LargestPotential ==
    ASSUME NEW nets, IsFiniteSet(nets), \A n \in nets : Known(space.potential[n]),
           Volts(nets) # {}
    PROVE  \E v \in Volts(nets) : \A w \in Volts(nets) : Apart(w, 0) <= Apart(v, 0)
<1>1. PICK seq \in Seq(nets) : \A n \in nets : \E k \in 1..Len(seq) : seq[k] = n
  BY DEF IsFiniteSet
<1> DEFINE N == Len(seq)
           P(k) == \E b \in Nat : \A j \in 1..k :
                      space.potential[seq[j]] # None => Apart(space.potential[seq[j]], 0) <= b
<1>2. N \in Nat /\ \A j \in 1..N : seq[j] \in nets
  OBVIOUS
<1>3. P(N)
  <2> SUFFICES ASSUME ~P(N) PROVE FALSE
    OBVIOUS
  <2> DEFINE T == {k \in 0..N : ~P(k)}
  <2>1. T \in SUBSET Nat /\ N \in T
    BY <1>2
  <2>2. PICK k \in T : \A y \in T : k <= y
    <3> HIDE DEF T
    <3> QED  BY <2>1, LeastNumber
  <2>3. k # 0
    <3>1. P(0)
      <4>1. \A j \in 1..0 : space.potential[seq[j]] # None
                              => Apart(space.potential[seq[j]], 0) <= 0
        OBVIOUS
      <4> QED  BY <4>1
    <3> QED  BY <2>2, <3>1
  <2>4. k - 1 \in 0..N /\ k \in 1..N
    BY <1>2, <2>2, <2>3
  <2>5. P(k - 1)
    <3>1. ~(k <= k - 1)
      BY <2>4
    <3>2. k - 1 \notin T
      <4> HIDE DEF T
      <4> QED  BY <2>2, <3>1
    <3> QED  BY <2>4, <3>2
  <2>6. PICK b \in Nat : \A j \in 1..(k - 1) :
           space.potential[seq[j]] # None => Apart(space.potential[seq[j]], 0) <= b
    BY <2>5
  <2> DEFINE p == space.potential[seq[k]]
             c == IF p = None THEN b ELSE b + Apart(p, 0)
  <2>7. c \in Nat /\ b <= c /\ (p # None => Apart(p, 0) <= c)
    <3>1. Known(p)
      BY <1>2, <2>4
    <3>2. CASE p = None
      BY <3>2
    <3>3. CASE p # None
      <4>1. Apart(p, 0) \in Nat
        BY <3>1, <3>3, SizeTyped DEF Known
      <4>2. c = b + Apart(p, 0)
        BY <3>3
      <4> HIDE DEF p, c, T
      <4> QED  BY <4>1, <4>2, Raised, Zenon
    <3> QED  BY <3>2, <3>3
  <2>8. ASSUME NEW j \in 1..k, space.potential[seq[j]] # None
        PROVE  Apart(space.potential[seq[j]], 0) <= c
    <3>1. CASE j = k
      BY <2>7, <2>8, <3>1
    <3>2. CASE j # k
      <4>1. j \in 1..(k - 1) /\ j \in 1..N
        BY <2>4, <3>2
      <4> DEFINE q == space.potential[seq[j]]
      <4>2. Known(q) /\ Apart(q, 0) <= b /\ q # None
        BY <1>2, <2>6, <2>8, <4>1
      <4> HIDE DEF c, p
      <4>3. Apart(q, 0) \in Int
        <5> HIDE DEF q
        <5> QED  BY <4>2 DEF Known, Apart
      <4> QED  BY <2>7, <4>2, <4>3
    <3> QED  BY <3>1, <3>2
  <2>9. P(k)
    <3> HIDE DEF c
    <3> QED  BY <2>7, <2>8
  <2> QED  BY <2>2, <2>9
<1>4. PICK b \in Nat : \A v \in Volts(nets) : v \in Int /\ Apart(v, 0) <= b
  <2>1. PICK b \in Nat : \A j \in 1..N :
           space.potential[seq[j]] # None => Apart(space.potential[seq[j]], 0) <= b
    BY <1>3
  <2>2. ASSUME NEW v \in Volts(nets)
        PROVE  v \in Int /\ Apart(v, 0) <= b
    <3>1. PICK n \in nets : space.potential[n] # None /\ v = space.potential[n]
      BY DEF Volts
    <3>2. PICK j \in 1..N : seq[j] = n
      BY <1>1
    <3> QED  BY <2>1, <3>1, <3>2 DEF Known
  <2> QED  BY <2>2
<1> HIDE DEF P, N
<1> DEFINE T == {b - Apart(v, 0) : v \in Volts(nets)}
<1>5. T \in SUBSET Nat /\ T # {}
  <2>1. \A v \in Volts(nets) : b - Apart(v, 0) \in Nat
    BY <1>4 DEF Apart
  <2> QED  BY <2>1
<1>6. PICK t \in T : \A u \in T : t <= u
  <2> HIDE DEF T
  <2> QED  BY <1>5, LeastNumber
<1>7. PICK v \in Volts(nets) : t = b - Apart(v, 0)
  BY <1>6
<1>8. ASSUME NEW w \in Volts(nets)
      PROVE  Apart(w, 0) <= Apart(v, 0)
  <2>1. b - Apart(v, 0) <= b - Apart(w, 0)
    BY <1>6, <1>7
  <2> QED  BY <1>4, <2>1 DEF Apart
<1> QED  BY <1>8

(* A box with all its points in another is enclosed by it. *)
LEMMA InsideIsEnclosed ==
    ASSUME NEW a, NEW b, Place(a.lo), Place(a.hi), BoxTyped(b), Points(b) \subseteq Points(a)
    PROVE  Encloses(a, b, 0)
<1> DEFINE lo == <<b.lo[1], b.lo[2]>>
           hi == <<b.hi[1], b.hi[2]>>
<1>1. lo \in Points(b) /\ hi \in Points(b)
  BY DEF Points, BoxTyped, Place
<1>2. lo \in Points(a) /\ hi \in Points(a)
  BY <1>1
<1>3. /\ b.lo[1] \in a.lo[1]..a.hi[1] /\ b.lo[2] \in a.lo[2]..a.hi[2]
      /\ b.hi[1] \in a.lo[1]..a.hi[1] /\ b.hi[2] \in a.lo[2]..a.hi[2]
  BY <1>2 DEF Points
<1> QED  BY <1>3 DEF Encloses, Exceeds, Plane, BoxTyped, Place

(* The regions around one are those that hold all its points. *)
LEMMA HoldersAreAround ==
    ASSUME SpaceTyped(space), NEW i \in DOMAIN space.pours
    PROVE  Holders(i) = Around(i) /\ Around(i) \in SUBSET Nat
<1>1. Silicon = Semiconductors /\ Silicon \subseteq DOMAIN space.pours
      /\ DOMAIN space.pours \subseteq Nat
  BY DEF Silicon, Semiconductors, Material, SpaceTyped
<1>2. \A j \in DOMAIN space.pours : BoxTyped(space.pours[j].box)
  BY DEF SpaceTyped, PourTyped
<1>3. ASSUME NEW j \in Silicon
      PROVE  Points(space.pours[i].box) \subseteq Points(space.pours[j].box)
               <=> Encloses(space.pours[j].box, space.pours[i].box, 0)
  BY <1>1, <1>2, EnclosedIsInside, InsideIsEnclosed DEF BoxTyped
<1> QED  BY <1>1, <1>3 DEF Holders, Around

(* The well of a region is one of the regions around it. *)
LEMMA WellIsAround ==
    ASSUME SpaceTyped(space), NEW i \in DOMAIN space.pours, Around(i) # {}
    PROVE  Well(i) \in Around(i) /\ Well(i) # None
<1>1. PICK x \in Around(i) : \A y \in Around(i) : x <= y
  BY HoldersAreAround, LeastNumber
<1>2. Min(Around(i)) \in Around(i)
  BY <1>1 DEF Min
<1> QED  BY <1>2, HoldersAreAround, NoneIsApart DEF Well

(* The potential taken for a region is the largest of its voltages, and there is
   one if it has any. *)
LEMMA PotentialIsLargest ==
    ASSUME SpaceTyped(space), NEW i \in DOMAIN space.pours
    PROVE  /\ Voltages(i) \in SUBSET Int
           /\ Potentials(i) = {v \in Voltages(i) : \A w \in Voltages(i) : Apart(w, 0) <= Apart(v, 0)}
           /\ Voltages(i) # {} => Potentials(i) # {}
<1> DEFINE p == space.pours[i]
           nets == IF p.net # None THEN {p.net}
                   ELSE IF p.device # None THEN Range(space.devices[p.device]) ELSE {}
<1>1. PourTyped(space, p)
  BY DEF SpaceTyped
<1>2. IsFiniteSet(nets) /\ \A n \in nets : Known(space.potential[n])
  BY <1>1, FS_Singleton, FS_EmptySet DEF PourTyped
<1>3. Voltages(i) = Volts(nets)
  BY DEF Voltages, Volts
<1>4. Potentials(i) = {v \in Volts(nets) : \A w \in Volts(nets) : Apart(w, 0) <= Apart(v, 0)}
  <2>1. Volts({}) = {}
    BY DEF Volts
  <2> QED  BY <2>1 DEF Potentials
<1> HIDE DEF nets
<1>5. Volts(nets) \in SUBSET Int
  BY <1>2 DEF Volts, Known
<1>6. Volts(nets) # {} => Potentials(i) # {}
  BY <1>2, <1>4, LargestPotential
<1> QED  BY <1>3, <1>4, <1>5, <1>6

(* What the check of junctions comes to when it does not fail. *)
LEMMA JunctionResultIs ==
    ASSUME NEW r \in JunctionResults, ~r.error
    PROVE  \E g \in Grounds, v \in Selections :
              /\ ~JunctionFails(g) /\ r.found = JunctionsFound(g, v)
              /\ \A i \in Decided : v[i] \in Potentials(i)
<1>1. PICK p \in Grounds \X Selections :
         r = IF JunctionFails(p[1]) THEN Error ELSE Found(JunctionsFound(p[1], p[2]))
  BY DEF JunctionResults
<1>2. ~JunctionFails(p[1]) /\ r.found = JunctionsFound(p[1], p[2])
  BY <1>1 DEF Error, Found
<1>3. \A i \in Decided : p[2][i] \in Potentials(i)
  BY DEF Selections
<1> QED  BY <1>2, <1>3

(* When the check does not fail, a region it decides on has a rating, and a body
   among those of the model of the points, with a potential. *)
LEMMA BodyIsOne ==
    ASSUME SpaceTyped(space), NEW i \in Semiconductors, Potentials(i) # {},
           NEW g \in Grounds, ~JunctionFails(g)
    PROVE  /\ Material(space.pours[i]).rating \in Int
           /\ BodyPotential(i, g) \in Int
           /\ \E body \in Bodies(i) : body # None /\ space.potential[body] = BodyPotential(i, g)
<1>1. ~Undecided(i)
  BY DEF Undecided
<1>2. Material(space.pours[i]).rating # None /\ BodyPotential(i, g) # None
  BY <1>1 DEF JunctionFails
<1>3. i \in DOMAIN space.pours
  BY DEF Semiconductors
<1>4. Material(space.pours[i]).rating \in Int
  BY <1>2, <1>3, LayersTyped, MaterialsTyped DEF SpaceTyped, PourTyped, Material, Known
<1>5. CASE Around(i) = {}
  <2>1. Well(i) = None
    BY <1>5 DEF Well
  <2>2. g # None /\ BodyPotential(i, g) = space.potential[g]
    BY <1>2, <2>1 DEF BodyPotential
  <2>3. g \in space.grounds /\ Known(space.potential[g])
    BY <2>2 DEF SpaceTyped, Grounds
  <2>4. Bodies(i) = space.grounds
    BY <1>3, <1>5, HoldersAreAround DEF Bodies
  <2> QED  BY <1>2, <1>4, <2>2, <2>3, <2>4 DEF Known
<1>6. CASE Around(i) # {}
  <2>1. Well(i) \in Around(i) /\ Well(i) # None
    BY <1>3, <1>6, WellIsAround
  <2> DEFINE p == space.pours[Well(i)]
  <2>2. p.net # None /\ BodyPotential(i, g) = space.potential[p.net]
    BY <1>2, <2>1 DEF BodyPotential
  <2>3. Well(i) \in DOMAIN space.pours
    BY <2>1 DEF Around, Semiconductors
  <2>4. Known(space.potential[p.net])
    BY <2>2, <2>3 DEF SpaceTyped, PourTyped
  <2>5. p.net \in Bodies(i)
    BY <1>3, <1>6, <2>1, HoldersAreAround DEF Bodies
  <2> QED  BY <1>2, <1>4, <2>2, <2>4, <2>5 DEF Known
<1> QED  BY <1>5, <1>6

LEMMA JunctionsHold == Clean => JunctionsRated
<1> SUFFICES ASSUME Clean, NEW i \in Silicon, Voltages(i) # {}
             PROVE  \E v \in Voltages(i), body \in Bodies(i) :
                       /\ Rated(i, v, body)
                       /\ \A w \in Voltages(i) : Difference(w, 0) <= Difference(v, 0)
  BY DEF JunctionsRated
<1>1. SpaceTyped(space) /\ i \in DOMAIN space.pours /\ i \in Semiconductors
  BY DEF Clean, Inv, Silicon, Semiconductors, Material
<1>2. PICK r \in JunctionResults : ~r.error /\ r.found = {}
  BY CleanFindsNothing
<1>3. PICK g \in Grounds, v \in Selections : /\ ~JunctionFails(g) /\ r.found = JunctionsFound(g, v)
                                /\ \A k \in Decided : v[k] \in Potentials(k)
  BY <1>2, JunctionResultIs
<1>4. Potentials(i) # {} /\ i \in Decided /\ v[i] \in Potentials(i)
  BY <1>1, <1>3, PotentialIsLargest DEF Decided
<1>5. v[i] \in Voltages(i) /\ v[i] \in Int
      /\ \A w \in Voltages(i) : Difference(w, 0) <= Difference(v[i], 0)
  BY <1>1, <1>4, PotentialIsLargest DEF Apart, Difference
<1>6. PICK body \in Bodies(i) : body # None /\ space.potential[body] = BodyPotential(i, g)
  BY <1>1, <1>3, <1>4, BodyIsOne
<1>7. Material(space.pours[i]).rating \in Int /\ BodyPotential(i, g) \in Int
  BY <1>1, <1>3, <1>4, BodyIsOne
<1>8. ~(Apart(v[i], BodyPotential(i, g)) > Material(space.pours[i]).rating)
  <2>1. <<"junction", i>> \notin r.found
    BY <1>2
  <2> QED  BY <1>3, <1>4, <2>1 DEF JunctionsFound
<1>9. Difference(v[i], BodyPotential(i, g)) <= Material(space.pours[i]).rating
  BY <1>5, <1>7, <1>8 DEF Apart, Difference
<1>10. Rated(i, v[i], body)
  BY <1>6, <1>7, <1>9, NoneIsApart DEF Rated, Material
<1> QED  BY <1>5, <1>10

(* A space that the check passes has each region whose voltage is known within the
   rating of its material against the ground or a region around it. *)
THEOREM PassedJunctionsAreRated == Spec => []JunctionsRated
<1>1. Inv => JunctionsRated
  BY JunctionsHold DEF JunctionsRated, Clean
<1> QED  BY <1>1, CheckInvariant, PTL


-----------------------------------------------------------------------------
(* No false alarms: from the points back to the boxes. *)

(* Two boxes have points whose distance is that of their gaps. *)
LEMMA NearestOn ==
    ASSUME NEW a, NEW b, BoxTyped(a), BoxTyped(b), NEW d \in Plane
    PROVE  \E x \in a.lo[d]..a.hi[d], y \in b.lo[d]..b.hi[d] :
              x - y = Gap(a, b, d) \/ y - x = Gap(a, b, d)
<1> DEFINE k == a.lo[d]
           l == a.hi[d]
           m == b.lo[d]
           n == b.hi[d]
<1>1. /\ k \in Int /\ l \in Int /\ k <= l
      /\ m \in Int /\ n \in Int /\ m <= n
      /\ Gap(a, b, d) = IF l < m THEN m - l ELSE IF n < k THEN k - n ELSE 0
  BY DEF BoxTyped, Place, Plane, Gap
<1> DEFINE x == IF l < m THEN l ELSE IF n < k THEN k ELSE IF k < m THEN m ELSE k
           y == IF l < m THEN m ELSE IF n < k THEN n ELSE IF k < m THEN m ELSE k
<1> HIDE DEF k, l, m, n
<1>2. x \in k..l
  BY <1>1
<1>3. y \in m..n
  BY <1>1
<1>4. x - y = Gap(a, b, d) \/ y - x = Gap(a, b, d)
  BY <1>1
<1> HIDE DEF x, y
<1>5. \E u \in k..l, v \in m..n : u - v = Gap(a, b, d) \/ v - u = Gap(a, b, d)
  BY <1>2, <1>3, <1>4
<1> QED  BY <1>5 DEF k, l, m, n

LEMMA NearestPoints ==
    ASSUME NEW a, NEW b, BoxTyped(a), BoxTyped(b)
    PROVE  \E p \in Points(a), q \in Points(b) :
              Square(p, q) = Gap(a, b, 1) * Gap(a, b, 1) + Gap(a, b, 2) * Gap(a, b, 2)
<1>1. PICK x \in a.lo[1]..a.hi[1], y \in b.lo[1]..b.hi[1] :
         x - y = Gap(a, b, 1) \/ y - x = Gap(a, b, 1)
  BY NearestOn DEF Plane
<1>2. PICK u \in a.lo[2]..a.hi[2], v \in b.lo[2]..b.hi[2] :
         u - v = Gap(a, b, 2) \/ v - u = Gap(a, b, 2)
  BY NearestOn DEF Plane
<1>3. /\ a.lo[1] \in Int /\ a.hi[1] \in Int /\ b.lo[1] \in Int /\ b.hi[1] \in Int
      /\ a.lo[2] \in Int /\ a.hi[2] \in Int /\ b.lo[2] \in Int /\ b.hi[2] \in Int
  BY DEF BoxTyped, Place
<1>4. x \in Int /\ y \in Int /\ u \in Int /\ v \in Int
  BY <1>3
<1>5. \A m, n \in Int : \A g : m - n = g \/ n - m = g => (m - n) * (m - n) = g * g
  <2> TAKE m \in Int, n \in Int
  <2> TAKE g
  <2> HAVE m - n = g \/ n - m = g
  <2>1. CASE m - n = g
    BY <2>1
  <2>2. CASE n - m = g
    <3>1. (m - n) * (m - n) = (n - m) * (n - m)
      OBVIOUS
    <3> QED  BY <2>2, <3>1
  <2> QED  BY <2>1, <2>2
<1>6. (x - y) * (x - y) = Gap(a, b, 1) * Gap(a, b, 1)
      /\ (u - v) * (u - v) = Gap(a, b, 2) * Gap(a, b, 2)
  BY <1>1, <1>2, <1>4, <1>5
<1>7. <<x, u>> \in Points(a) /\ <<y, v>> \in Points(b)
  BY DEF Points
<1>8. Square(<<x, u>>, <<y, v>>) = Gap(a, b, 1) * Gap(a, b, 1) + Gap(a, b, 2) * Gap(a, b, 2)
  BY <1>6 DEF Square
<1> QED  BY <1>7, <1>8

LEMMA GapTyped ==
    ASSUME NEW a, NEW b, BoxTyped(a), BoxTyped(b)
    PROVE  Gap(a, b, 1) \in Nat /\ Gap(a, b, 2) \in Nat
  BY DEF BoxTyped, Place, Gap

(* Boxes apart by a distance are not nearer, and do not meet if there is any. *)
LEMMA ApartIsNotNearer ==
    ASSUME NEW a, NEW b, BoxTyped(a), BoxTyped(b), NEW n \in Nat, TwiceApart(a, b, n)
    PROVE  /\ n > 0 => ~Meets(a, b)
           /\ \A s \in Int : 2 * s = n => ~Nearer(a, b, s)
<1> DEFINE g == Gap(a, b, 1) * Gap(a, b, 1) + Gap(a, b, 2) * Gap(a, b, 2)
<1>1. PICK p \in Points(a), q \in Points(b) : Square(p, q) = g
  BY NearestPoints
<1>2. 4 * g >= n * n
  BY <1>1 DEF TwiceApart
<1>3. g \in Nat
  <2>1. \A m \in Nat : m * m \in Nat
    OBVIOUS
  <2> QED  BY <2>1, GapTyped
<1>4. ASSUME n > 0, Meets(a, b)
      PROVE  FALSE
  <2>1. Gap(a, b, 1) = 0 /\ Gap(a, b, 2) = 0
    BY <1>4 DEF Gap, Meets, BoxTyped, Place, Plane
  <2>2. g = 0
    BY <2>1
  <2>3. n * n >= 1 * 1
    BY <1>4, SquareOrder
  <2> HIDE DEF g
  <2> QED  BY <1>2, <2>2, <2>3
<1>5. ASSUME NEW s \in Int, 2 * s = n, Nearer(a, b, s)
      PROVE  FALSE
  <2>1. s > 0 /\ 4 * g < (2 * s - 1) * (2 * s - 1)
    BY <1>5 DEF Nearer
  <2>2. (2 * s) * (2 * s) >= (2 * s - 1) * (2 * s - 1)
    BY <2>1, SquareOrder
  <2>3. (2 * s - 1) * (2 * s - 1) \in Int /\ n * n \in Int /\ n * n = (2 * s) * (2 * s)
    BY <1>5
  <2> HIDE DEF g
  <2> QED  BY <1>2, <1>3, <2>1, <2>2, <2>3
<1> QED  BY <1>4, <1>5

(* A box covered by another with a margin is enclosed by it with that margin. *)
LEMMA CoveredIsEnclosed ==
    ASSUME NEW a, NEW b, BoxTyped(a), BoxTyped(b), NEW e \in Int, Covers(a, b, e)
    PROVE  Encloses(a, b, e)
<1> DEFINE lo == <<b.lo[1], b.lo[2]>>
           hi == <<b.hi[1], b.hi[2]>>
<1>1. lo \in Points(b) /\ hi \in Points(b)
  BY DEF Points, BoxTyped, Place
<1>2. \A d \in Plane : a.lo[d] <= lo[d] - e /\ hi[d] + e <= a.hi[d]
  BY <1>1 DEF Covers
<1>3. \A d \in Plane : lo[d] = b.lo[d] /\ hi[d] = b.hi[d]
  BY DEF Plane
<1> HIDE DEF lo, hi
<1>4. \A d \in Plane : a.lo[d] + e <= b.lo[d] /\ b.hi[d] + e <= a.hi[d]
  BY <1>2, <1>3 DEF BoxTyped, Place, Plane
<1> QED  BY <1>4 DEF Encloses, Exceeds

LEMMA SquareTyped ==
    ASSUME NEW p, NEW q, Place(p), Place(q)
    PROVE  Square(p, q) \in Int
<1> DEFINE x == p[1] - q[1]
           y == p[2] - q[2]
<1>1. x \in Int /\ y \in Int
  BY DEF Place
<1>2. Square(p, q) = x * x + y * y
  BY DEF Square
<1> HIDE DEF x, y
<1>3. x * x \in Int /\ y * y \in Int
  BY <1>1
<1> QED  BY <1>2, <1>3

(* The space under check is sound, and the rules are those of its profile. *)
Spotless == Inv /\ check # 0 /\ Sound

LEMMA SpotlessSpace ==
    ASSUME Spotless
    PROVE  /\ SpaceTyped(space)
           /\ \A k \in DOMAIN space.pours : space.pours[k] \in Range(space.pours)
           /\ \A k \in DOMAIN space.contacts : space.contacts[k] \in Range(space.contacts)
  BY DEF Spotless, Inv, Range

LEMMA SpotlessTraces ==
    ASSUME Spotless
    PROVE  DensitiesFound = {} /\ HeatFound = {} /\ CrosstalkFound = {}
<1>1. Quiet
  BY DEF Spotless, Sound
<1>2. Loaded = {}
  BY <1>1 DEF Loaded, Quiet
<1>3. DensitiesFound = {} /\ HeatFound = {}
  BY <1>2 DEF DensitiesFound, HeatFound
<1>4. ASSUME NEW p \in Neighbours
      PROVE  {space.traces[p[1]].net, space.traces[p[2]].net} \cap Clocks = {}
  BY <1>1 DEF Neighbours, Quiet
<1>5. CrosstalkFound = {}
  BY <1>4 DEF CrosstalkFound
<1> QED  BY <1>3, <1>5

LEMMA SpotlessHoles ==
    ASSUME Spotless
    PROVE  DiametersFound = {} /\ RingsFound = {} /\ DrillsFound = {}
<1> DEFINE s == space.profile.drillSpacing
<1>1. /\ rules.diameter = space.profile.diameter /\ rules.technology = "asic"
      /\ rules.drillSpacing = s /\ s \in Int
      /\ space.profile.diameter \in Int
  BY RulesInUse DEF Spotless, SpaceTyped
<1>2. HolesFine /\ HolesAtLeast(0) /\ \A c \in Range(space.contacts) : c.z[1] < c.z[2]
  BY DEF Spotless, Sound
<1>3. SmallDrills = {}
  <2> SUFFICES ASSUME NEW i \in DOMAIN space.contacts, space.contacts[i].drill < rules.diameter
               PROVE  FALSE
    BY DEF SmallDrills
  <2>1. space.contacts[i].drill >= space.profile.diameter
    BY <1>2, SpotlessSpace DEF HolesFine
  <2>2. space.contacts[i].drill \in Nat
    BY SpotlessSpace, ContactTyped
  <2> QED  BY <1>1, <2>1, <2>2
<1>4. ASSUME NEW p \in (DOMAIN space.contacts) \X (DOMAIN space.contacts), p[1] < p[2],
             DrillsRelated(space.contacts[p[1]], space.contacts[p[2]]),
             DrillsNear(space.contacts[p[1]], space.contacts[p[2]], s)
      PROVE  FALSE
  <2> DEFINE c == space.contacts[p[1]]
             e == space.contacts[p[2]]
             l == s + c.drill \div 2 + e.drill \div 2
             n == 2 * s - 0 + c.drill + e.drill
             q == Square(c.at, e.at)
  <2>1. /\ HeightsTyped(c.z) /\ HeightsTyped(e.z) /\ c.z[1] < c.z[2] /\ e.z[1] < e.z[2]
        /\ c.drill \in Nat /\ e.drill \in Nat /\ Place(c.at) /\ Place(e.at)
        /\ p[1] \in Nat /\ p[2] \in Nat
    BY <1>2, SpotlessSpace, ContactTyped DEF SpaceTyped
  <2>2. DrillsRelated(c, e)
    BY <1>4
  <2> HIDE DEF c, e
  <2>3. \E h \in c.z[1]..c.z[2] : h \in e.z[1]..e.z[2]
    <3> DEFINE h == IF c.z[1] < e.z[1] THEN e.z[1] ELSE c.z[1]
    <3>1. h \in c.z[1]..c.z[2] /\ h \in e.z[1]..e.z[2]
      BY <2>1, <2>2 DEF HeightsTyped, DrillsRelated
    <3> QED  BY <3>1
  <2>4. \/ c.net = None \/ c.net # e.net
        \/ /\ \E h \in c.z[1]..(c.z[2] - 1) : h \in e.z[1]..(e.z[2] - 1)
           /\ c.at # e.at
    <3> SUFFICES ASSUME c.net # None, c.net = e.net
                 PROVE  /\ \E h \in c.z[1]..(c.z[2] - 1) : h \in e.z[1]..(e.z[2] - 1)
                        /\ c.at # e.at
      OBVIOUS
    <3> DEFINE h == IF c.z[1] < e.z[1] THEN e.z[1] ELSE c.z[1]
    <3>1. c.z[1] < e.z[2] /\ e.z[1] < c.z[2] /\ c.at # e.at
      BY <2>2 DEF DrillsRelated
    <3>2. h \in c.z[1]..(c.z[2] - 1) /\ h \in e.z[1]..(e.z[2] - 1)
      BY <2>1, <3>1 DEF HeightsTyped
    <3> QED  BY <3>1, <3>2
  <2>5. p \in RelatedHoles
    <3>1. p[1] # p[2]
      BY <1>4, <2>1
    <3> QED  BY <2>3, <2>4, <3>1 DEF RelatedHoles, c, e
  <2>6. n > 0 => 4 * q >= n * n
    BY <1>2, <2>5 DEF HolesAtLeast, c, e
  <2>7. l > 0 /\ q < l * l
    BY <1>4 DEF DrillsNear, Square, c, e
  <2>8. l \in Int /\ n \in Int /\ n >= 2 * l
    BY <1>1, <2>1, Halves
  <2>9. q \in Int
    BY <2>1, SquareTyped
  <2> HIDE DEF l, n, q
  <2>10. n * n >= (2 * l) * (2 * l) /\ n > 0
    BY <2>7, <2>8, SquareOrder
  <2>11. (2 * l) * (2 * l) = 4 * (l * l) /\ l * l \in Int /\ n * n \in Int
    BY <2>8
  <2> QED  BY <2>6, <2>7, <2>9, <2>10, <2>11
<1>5. DrillsFound = {}
  BY <1>1, <1>4 DEF DrillsFound
<1> QED  BY <1>1, <1>3, <1>5 DEF DiametersFound, RingsFound

LEMMA SpotlessLandings ==
    ASSUME Spotless
    PROVE  LandingsFound = {}
<1>1. SpaceTyped(space) /\ rules.landings = space.profile.landings /\ LandingsFine
  BY RulesInUse DEF Spotless, Sound
<1>2. ASSUME NEW i \in DOMAIN space.contacts, NEW layer \in DOMAIN rules.landings,
             space.contacts[i].net # None,
             layer \in {space.contacts[i].from, space.contacts[i].to},
             LandsOn(space.contacts[i], layer) # {}
      PROVE  \E k \in LandsOn(space.contacts[i], layer) :
                Encloses(space.pours[k].box, Pad(space.contacts[i]), rules.landings[layer])
  <2> DEFINE c == space.contacts[i]
             e == rules.landings[layer]
  <2>1. Landed(c, layer) # {}
    <3>1. PICK k \in LandsOn(c, layer) : k \in DOMAIN space.pours
      BY <1>2 DEF LandsOn
    <3> QED  BY <1>1, <3>1, LandedIsLandsOn
  <2>2. PICK p \in Landed(c, layer) : Covers(p.box, Pad(c), e)
    BY <1>1, <1>2, <2>1, SpotlessSpace DEF LandingsFine
  <2>3. PICK k \in DOMAIN space.pours : p = space.pours[k]
    BY DEF Landed, Range
  <2>4. k \in LandsOn(c, layer)
    BY <1>1, <2>2, <2>3, LandedIsLandsOn
  <2>5. BoxTyped(p.box) /\ BoxTyped(Pad(c)) /\ e \in Int
    BY <1>1, <2>3, ContactTyped DEF SpaceTyped, PourTyped
  <2>6. Encloses(p.box, Pad(c), e)
    BY <2>2, <2>5, CoveredIsEnclosed
  <2> QED  BY <2>3, <2>4, <2>6
<1> QED  BY <1>2 DEF LandingsFound

LEMMA SpotlessShapes ==
    ASSUME Spotless
    PROVE  AreasFound = {} /\ OutsideFound = {}
<1>1. PoursFine /\ HolesFine /\ SpaceTyped(space)
  BY SpotlessSpace DEF Spotless, Sound
<1>2. Place(Die.lo) /\ Place(Die.hi)
  BY <1>1 DEF Die, SpaceTyped, Place
<1>3. ASSUME NEW k \in DOMAIN space.pours
      PROVE  /\ Encloses(Die, space.pours[k].box, 0)
             /\ ~(Area(space.pours[k].box) < Material(space.pours[k]).minArea)
  <2> DEFINE p == space.pours[k]
  <2>1. BoxTyped(p.box) /\ p.layer \in DOMAIN Stack
    BY <1>1 DEF SpaceTyped, PourTyped
  <2>2. Points(p.box) \subseteq Points(Die) /\ Area(p.box) >= Material(p).minArea
    BY <1>1, SpotlessSpace DEF PoursFine, Area, Material
  <2>3. Area(p.box) \in Int /\ Material(p).minArea \in Int
    BY <2>1, AreaTyped, MaterialsTyped, LayersTyped DEF Material
  <2> QED  BY <1>2, <2>1, <2>2, <2>3, InsideIsEnclosed
<1>4. ASSUME NEW k \in DOMAIN space.contacts
      PROVE  /\ Encloses(Die, Pad(space.contacts[k]), 0)
             /\ ~(Area(Pad(space.contacts[k])) < Materials["tungsten"].minArea)
  <2> DEFINE c == space.contacts[k]
  <2>1. BoxTyped(Pad(c)) /\ Place(c.at) /\ c.drill \in Nat
    BY <1>1, ContactTyped
  <2>2. /\ Points(Pad(c)) \subseteq Points(Die)
        /\ (c.drill \div 2) * (c.drill \div 2) * 4 >= Materials["tungsten"].minArea
    BY <1>1, SpotlessSpace DEF HolesFine
  <2>3. Area(Pad(c)) \in Int /\ Materials["tungsten"].minArea \in Int
    BY <2>1, AreaTyped, MaterialsTyped
  <2>4. Area(Pad(c)) >= Materials["tungsten"].minArea
    BY <2>1, <2>2, PadArea
  <2> QED  BY <1>2, <2>1, <2>2, <2>3, <2>4, InsideIsEnclosed
<1>5. AreasFound = {}
  BY <1>3, <1>4 DEF AreasFound
<1>6. OutsideFound = {}
  BY <1>3, <1>4 DEF OutsideFound
<1> QED  BY <1>5, <1>6

LEMMA SpotlessPours ==
    ASSUME Spotless
    PROVE  ShortsFound = {}
<1> DEFINE s == space.profile.spacing
<1>1. SpaceTyped(space) /\ rules.spacing = s /\ s \in Nat /\ PoursAtLeast(0)
  BY RulesInUse DEF Spotless, Sound, SpaceTyped
<1>2. ASSUME NEW p \in (DOMAIN space.pours) \X (DOMAIN space.pours), p[1] < p[2],
             LET a == space.pours[p[1]]
                 b == space.pours[p[2]]
             IN  /\ a.layer = b.layer /\ Conductive(a.layer)
                 /\ None \notin {a.net, b.net} /\ a.net # b.net
                 /\ ~(a.device # None /\ a.device = b.device)
      PROVE  /\ ~Meets(space.pours[p[1]].box, space.pours[p[2]].box)
             /\ ~Nearer(space.pours[p[1]].box, space.pours[p[2]].box, s)
  <2> DEFINE a == space.pours[p[1]]
             b == space.pours[p[2]]
             n == IF s = 0 THEN 1 ELSE 2 * s - 0
  <2>1. p[1] \in Nat /\ p[2] \in Nat /\ BoxTyped(a.box) /\ BoxTyped(b.box)
    BY <1>1 DEF SpaceTyped, PourTyped
  <2>2. p \in ForeignPours
    <3>1. p[1] # p[2]
      BY <1>2, <2>1
    <3> QED  BY <1>2, <3>1 DEF ForeignPours, Conductive, Mask
  <2>3. TwiceApart(a.box, b.box, n)
    BY <1>1, <2>2 DEF PoursAtLeast
  <2>4. n \in Nat /\ n > 0 /\ (s > 0 => 2 * s = n)
    BY <1>1
  <2> HIDE DEF n
  <2>5. ~Meets(a.box, b.box) /\ (s > 0 => ~Nearer(a.box, b.box, s))
    BY <1>1, <2>1, <2>3, <2>4, ApartIsNotNearer
  <2>6. ~(s > 0) => ~Nearer(a.box, b.box, s)
    BY DEF Nearer
  <2> QED  BY <2>5, <2>6
<1> QED  BY <1>1, <1>2 DEF ShortsFound


LEMMA SpotlessJunctions ==
    ASSUME Spotless, NEW r \in JunctionResults, ~r.error
    PROVE  r.found = {}
<1>1. PICK g \in Grounds, v \in Selections :
         /\ ~JunctionFails(g) /\ r.found = JunctionsFound(g, v)
         /\ \A i \in Decided : v[i] \in Potentials(i)
  BY JunctionResultIs
<1>2. SpaceTyped(space) /\ JunctionsFine
  BY DEF Spotless, Inv, Sound
<1>3. ASSUME NEW i \in Decided
      PROVE  ~(Apart(v[i], BodyPotential(i, g)) > Material(space.pours[i]).rating)
  <2>1. /\ i \in Semiconductors /\ i \in Silicon /\ i \in DOMAIN space.pours
        /\ Potentials(i) # {}
    BY DEF Decided, Semiconductors, Silicon, Material
  <2>2. v[i] \in Voltages(i) /\ v[i] \in Int
    BY <1>1, <1>2, <2>1, PotentialIsLargest
  <2>3. PICK body \in Bodies(i) : body # None /\ space.potential[body] = BodyPotential(i, g)
    BY <1>1, <1>2, <2>1, BodyIsOne
  <2>4. Material(space.pours[i]).rating \in Int /\ BodyPotential(i, g) \in Int
    BY <1>1, <1>2, <2>1, BodyIsOne
  <2>5. Rated(i, v[i], body)
    BY <1>2, <2>1, <2>2 DEF JunctionsFine
  <2>6. Difference(v[i], BodyPotential(i, g)) <= Material(space.pours[i]).rating
    BY <2>3, <2>5 DEF Rated, Material
  <2> QED  BY <2>2, <2>4, <2>6 DEF Apart, Difference
<1> QED  BY <1>1, <1>3 DEF JunctionsFound

(* The layers of a rule have no finding when their pours keep it. *)
LEMMA EnclosureFindsNothing ==
    ASSUME SpaceTyped(space), NEW r, r.distance \in Int, r.distance > 0, EnclosureKept(r)
    PROVE  EnclosureFound(r) = {}
<1> SUFFICES ASSUME NEW b \in OnLayer(r.b)
             PROVE  \E a \in Above(r.a, b) : Encloses(a.box, b.box, r.distance)
  BY DEF EnclosureFound
<1>1. PICK p \in PoursOf(r.b) : b = [name |-> p.name, box |-> p.box] /\ BoxTyped(p.box)
  BY ElementIsPour
<1>2. PICK q \in PoursOf(r.a) : Covers(q.box, p.box, r.distance)
  BY DEF EnclosureKept
<1> DEFINE a == [name |-> q.name, box |-> q.box]
<1>3. a \in OnLayer(r.a) /\ BoxTyped(q.box)
  BY PourIsElement, ElementIsPour
<1>4. Encloses(q.box, p.box, r.distance)
  BY <1>1, <1>2, <1>3, CoveredIsEnclosed
<1>5. Overlaps(q.box, p.box)
  BY <1>1, <1>3, <1>4 DEF Encloses, Exceeds, Overlaps, BoxTyped, Place, Plane
<1>6. a \in Above(r.a, b)
  BY <1>1, <1>3, <1>5 DEF Above
<1> QED  BY <1>1, <1>4, <1>6

LEMMA TransverseFindsNothing ==
    ASSUME SpaceTyped(space), NEW r, r.distance \in Int, TransverseKept(r),
           \A p \in Range(space.pours) : Solid(p.box)
    PROVE  TransverseFound(r) = {}
<1> SUFFICES ASSUME NEW b \in OnLayer(r.b)
             PROVE  \E a \in Above(r.a, b) : \E d \in Plane : Exceeds(a.box, b.box, d, r.distance)
  BY DEF TransverseFound
<1>1. PICK p \in PoursOf(r.b) : b = [name |-> p.name, box |-> p.box] /\ BoxTyped(p.box)
  BY ElementIsPour
<1>2. PICK q \in PoursOf(r.a) : Over(q, p) /\
         \E d \in Plane : \A x \in Points(p.box) :
            q.box.lo[d] <= x[d] - r.distance /\ x[d] + r.distance <= q.box.hi[d]
  BY DEF TransverseKept
<1> DEFINE a == [name |-> q.name, box |-> q.box]
<1>3. a \in OnLayer(r.a) /\ BoxTyped(q.box)
  BY PourIsElement, ElementIsPour
<1>4. Overlaps(q.box, p.box)
  <2>1. Solid(p.box)
    BY DEF PoursOf
  <2> QED  BY <1>1, <1>2, <1>3, <2>1, OverIsOverlap
<1>5. PICK d \in Plane : \A x \in Points(p.box) :
            q.box.lo[d] <= x[d] - r.distance /\ x[d] + r.distance <= q.box.hi[d]
  BY <1>2
<1>6. Exceeds(q.box, p.box, d, r.distance)
  <2> DEFINE lo == <<p.box.lo[1], p.box.lo[2]>>
             hi == <<p.box.hi[1], p.box.hi[2]>>
  <2>1. lo \in Points(p.box) /\ hi \in Points(p.box)
    BY <1>1 DEF Points, BoxTyped, Place
  <2>2. q.box.lo[d] <= lo[d] - r.distance /\ hi[d] + r.distance <= q.box.hi[d]
    BY <1>5, <2>1
  <2>3. lo[d] = p.box.lo[d] /\ hi[d] = p.box.hi[d]
    BY DEF Plane
  <2> HIDE DEF lo, hi
  <2> QED  BY <1>1, <1>3, <2>2, <2>3 DEF Exceeds, BoxTyped, Place, Plane
<1>7. a \in Above(r.a, b)
  BY <1>1, <1>3, <1>4 DEF Above
<1> QED  BY <1>1, <1>6, <1>7

LEMMA ExtensionFindsNothing ==
    ASSUME SpaceTyped(space), NEW r, r.distance \in Int, r.distance > 0, ExtensionKept(r),
           \A p \in Range(space.pours) : Solid(p.box)
    PROVE  ExtensionFound(r) = {}
<1> SUFFICES ASSUME NEW b \in OnLayer(r.b), Above(r.a, b) # {}
             PROVE  \E a \in Above(r.a, b) : \E d \in Plane :
                       ~(b.box.lo[d] - a.box.lo[d] < r.distance
                         /\ a.box.hi[d] - b.box.hi[d] < r.distance)
  BY DEF ExtensionFound
<1>1. PICK p \in PoursOf(r.b) : b = [name |-> p.name, box |-> p.box] /\ BoxTyped(p.box)
  BY ElementIsPour
<1>2. Solid(p.box)
  BY DEF PoursOf
<1>3. \E q \in PoursOf(r.a) : Over(q, p)
  <2>1. PICK a \in OnLayer(r.a) : Overlaps(a.box, b.box)
    BY DEF Above
  <2>2. PICK q \in PoursOf(r.a) : a = [name |-> q.name, box |-> q.box] /\ BoxTyped(q.box)
    BY ElementIsPour
  <2>3. Over(q, p)
    BY <1>1, <2>1, <2>2, OverIsOverlap
  <2> QED  BY <2>3
<1>4. PICK q \in PoursOf(r.a) : Over(q, p) /\
         \E y \in Points(q.box) : \E d \in Plane : \A x \in Points(p.box) :
            y[d] - x[d] >= r.distance \/ x[d] - y[d] >= r.distance
  BY <1>2, <1>3 DEF ExtensionKept
<1> DEFINE a == [name |-> q.name, box |-> q.box]
<1>5. a \in OnLayer(r.a) /\ BoxTyped(q.box)
  BY PourIsElement, ElementIsPour
<1>6. a \in Above(r.a, b)
  <2>1. Overlaps(q.box, p.box)
    BY <1>1, <1>2, <1>4, <1>5, OverIsOverlap
  <2> QED  BY <1>1, <1>5, <2>1 DEF Above
<1>7. PICK y \in Points(q.box), d \in Plane : \A x \in Points(p.box) :
         y[d] - x[d] >= r.distance \/ x[d] - y[d] >= r.distance
  BY <1>4
<1>8. p.box.lo[d] - q.box.lo[d] >= r.distance \/ q.box.hi[d] - p.box.hi[d] >= r.distance
  <2> DEFINE lo == <<p.box.lo[1], p.box.lo[2]>>
             hi == <<p.box.hi[1], p.box.hi[2]>>
             on == <<IF d = 1 THEN y[1] ELSE p.box.lo[1], IF d = 2 THEN y[2] ELSE p.box.lo[2]>>
  <2>1. y[d] \in q.box.lo[d]..q.box.hi[d]
    BY DEF Points, Plane
  <2>2. /\ p.box.lo[d] \in Int /\ p.box.hi[d] \in Int /\ p.box.lo[d] <= p.box.hi[d]
        /\ q.box.lo[d] \in Int /\ q.box.hi[d] \in Int
    BY <1>1, <1>5 DEF BoxTyped, Place, Plane
  <2>3. lo \in Points(p.box) /\ hi \in Points(p.box)
    BY <1>1 DEF Points, BoxTyped, Place
  <2>4. lo[d] = p.box.lo[d] /\ hi[d] = p.box.hi[d] /\ on[d] = y[d]
    BY DEF Plane
  <2>5. y[d] \in p.box.lo[d]..p.box.hi[d] => on \in Points(p.box)
    <3>1. CASE d = 1
      BY <1>1, <3>1 DEF Points, BoxTyped, Place
    <3>2. CASE d = 2
      BY <1>1, <3>2 DEF Points, BoxTyped, Place
    <3> QED  BY <3>1, <3>2 DEF Plane
  <2> HIDE DEF lo, hi, on
  <2>6. ~(y[d] \in p.box.lo[d]..p.box.hi[d])
    <3> SUFFICES ASSUME y[d] \in p.box.lo[d]..p.box.hi[d] PROVE FALSE
      OBVIOUS
    <3>1. y[d] - on[d] >= r.distance \/ on[d] - y[d] >= r.distance
      BY <1>7, <2>5
    <3> QED  BY <2>1, <2>2, <2>4, <3>1
  <2>7. /\ y[d] - lo[d] >= r.distance \/ lo[d] - y[d] >= r.distance
        /\ y[d] - hi[d] >= r.distance \/ hi[d] - y[d] >= r.distance
    BY <1>7, <2>3
  <2> QED  BY <2>1, <2>2, <2>4, <2>6, <2>7
<1> QED  BY <1>1, <1>5, <1>6, <1>8 DEF BoxTyped, Place, Plane

LEMMA SpacingFindsNothing ==
    ASSUME SpaceTyped(space), rules.cuts = space.profile.cuts,
           NEW r, r.distance \in Int, r.distance > 0, SpacingKept(r, 0)
    PROVE  SpacingFound(r) = {}
<1> SUFFICES ASSUME NEW a \in Elements(r.a), NEW b \in Elements(r.b), a # b
             PROVE  ~Nearer(a.box, b.box, r.distance)
  BY DEF SpacingFound
<1> DEFINE n == 2 * r.distance - 0
<1>1. TwiceApart(a.box, b.box, n)
  BY ShapesAreElements DEF SpacingKept
<1>2. BoxTyped(a.box) /\ BoxTyped(b.box)
  BY ElementsTyped
<1>3. n \in Nat /\ 2 * r.distance = n
  OBVIOUS
<1> HIDE DEF n
<1> QED  BY <1>1, <1>2, <1>3, ApartIsNotNearer

LEMMA SpotlessPairs ==
    ASSUME Spotless
    PROVE  PairsFound = {}
<1>1. /\ SpaceTyped(space) /\ rules.cuts = space.profile.cuts
      /\ DOMAIN rules.pairs = Declared(space.profile)
      /\ \A i \in Declared(space.profile) : rules.pairs[i] = LoweredRule(space.profile.rules[i])
  BY RulesInUse DEF Spotless
<1>2. PairRulesAtLeast(0) /\ \A p \in Range(space.pours) : Solid(p.box)
  BY DEF Spotless, Sound
<1>3. ASSUME NEW i \in Declared(space.profile)
      PROVE  RuleFound(rules.pairs[i]) = {}
  <2> DEFINE r == space.profile.rules[i]
             l == LoweredRule(r)
  <2>1. r.distance \in Int /\ r.distance > 0
    BY <1>1 DEF SpaceTyped, Declared, Range
  <2>2. RuleKept(r, 0)
    BY <1>2 DEF PairRulesAtLeast, Declared, Range
  <2>3. /\ l.a = r.a /\ l.b = r.b /\ l.distance = r.distance /\ rules.pairs[i] = l
        /\ l.type = IF r.type \in RuleTypes THEN r.type ELSE "enclosure"
    BY <1>1 DEF LoweredRule
  <2> HIDE DEF l, r
  <2>4. CASE r.type \in {"clearance", "overlap"}
    <3>1. SpacingKept(l, 0)
      BY <2>2, <2>3, <2>4 DEF RuleKept, SpacingKept
    <3>2. SpacingFound(l) = {}
      BY <1>1, <2>1, <2>3, <3>1, SpacingFindsNothing
    <3> QED  BY <2>3, <2>4, <3>2 DEF RuleFound, RuleTypes
  <2>5. CASE r.type = "extension"
    <3>1. ExtensionKept(l)
      BY <2>2, <2>3, <2>5 DEF RuleKept, ExtensionKept
    <3>2. ExtensionFound(l) = {}
      BY <1>1, <1>2, <2>1, <2>3, <3>1, ExtensionFindsNothing
    <3> QED  BY <2>3, <2>5, <3>2 DEF RuleFound, RuleTypes
  <2>6. CASE r.type = "transverse"
    <3>1. TransverseKept(l)
      BY <2>2, <2>3, <2>6 DEF RuleKept, TransverseKept
    <3>2. TransverseFound(l) = {}
      BY <1>1, <1>2, <2>1, <2>3, <3>1, TransverseFindsNothing
    <3> QED  BY <2>3, <2>6, <3>2 DEF RuleFound, RuleTypes
  <2>7. CASE r.type \notin {"clearance", "overlap", "extension", "transverse"}
    <3>1. EnclosureKept(l)
      BY <2>2, <2>3, <2>7 DEF RuleKept, EnclosureKept
    <3>2. EnclosureFound(l) = {}
      BY <1>1, <2>1, <2>3, <3>1, EnclosureFindsNothing
    <3> QED  BY <2>3, <2>7, <3>2 DEF RuleFound, RuleTypes
  <2> QED  BY <2>4, <2>5, <2>6, <2>7
<1>4. ASSUME NEW x \in UNION {{i} \X RuleFound(rules.pairs[i]) : i \in DOMAIN rules.pairs}
      PROVE  FALSE
  <2>1. PICK i \in DOMAIN rules.pairs : x \in {i} \X RuleFound(rules.pairs[i])
    OBVIOUS
  <2> QED  BY <1>1, <1>3, <2>1
<1> QED  BY <1>4 DEF PairsFound

LEMMA SpotlessFindings == Spotless => report = {}
<1> SUFFICES ASSUME Spotless PROVE report = {}
  OBVIOUS
<1>1. TapResult.found = {}
  <2>1. rules.tapDistance = None
    BY RulesInUse DEF Spotless
  <2> QED  BY <2>1 DEF TapResult, Found
<1>2. UNION {r.found : r \in {q \in JunctionResults : ~q.error}} = {}
  BY SpotlessJunctions
<1>3. Findings = {}
  BY <1>1, <1>2, SpotlessTraces, SpotlessHoles, SpotlessLandings, SpotlessShapes, SpotlessPours,
     SpotlessPairs DEF Findings
<1> QED  BY <1>3 DEF Spotless, Inv, NothingElse

(* A space whose shapes keep every rule point by point, without the rounding, is
   never refused: whatever is in a report is a shape that breaks a rule. *)
THEOREM NoSoundSpaceRefused == Spec => []SoundIsNotRefused
<1>1. Inv => SoundIsNotRefused
  BY SpotlessFindings DEF SoundIsNotRefused, Spotless, Inv, TypeOK
<1> QED  BY <1>1, CheckInvariant, PTL
=============================================================================
