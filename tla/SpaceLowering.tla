---------------------------- MODULE SpaceLowering ----------------------------
(* From a program's spaces to hardware spaces (hwc-compiler: eval/mod.rs,
   eval/emitter.rs and pipeline/).  Evaluation runs every space's body in turn
   against one emitter, which numbers the nets of the whole program and keeps
   one list each of polygons, contacts, devices and routes.  The pipeline then
   builds the spaces one by one: it numbers the space's own nets in the space's
   netlist, and lowers the emitter's records, in the order polygons, contacts,
   devices, routes.  Whatever carries a net carries it as an id of one of the
   two numberings.

   A shape's place is the set of spots it covers; a contact's is the square of
   its radius about its centre.  Names, materials, widths and elevations are
   left out; an error of any step ends the compilation. *)
EXTENDS NetlistArena, FiniteSetsExt

CONSTANTS Nets, Layers, Spots, None,
          Programs,        \* sequences of spaces: [nets, layers, routable]
          PolygonShapes,   \* [layer, net, area, port]
          ContactShapes,   \* [from, to, net, area]
          DeviceShapes,    \* [type, instance, terminals, ports]
          RouteShapes,     \* [bundle, legs, net, layer]
          Contract,        \* the terminals each declared device type requires
          MaxShapes        \* records the bodies may emit: the evaluation's fuel

(* Names, layers and spots are told from None; the shapes' nets are names. *)
Known(S) == S \cup {None}
End == [kind : {"port", "struct", "point"}, at : Known(Spots), instance : STRING \cup {None},
        port : STRING \cup {None}, layer : Known(Layers), net : Known(Nets)]
ASSUME NoneIsApart == None \notin Nets \cup Layers \cup Spots
ASSUME ProgramsAreSpaces ==
    \A p \in Programs : /\ p \in Seq([nets : Seq(Nets), layers : SUBSET Layers,
                                        routable : SUBSET Layers])
                          /\ p # <<>>
ASSUME ShapesAreTyped ==
    /\ \A s \in PolygonShapes \cup ContactShapes \cup RouteShapes : s.net \in Known(Nets)
    /\ \A s \in RouteShapes : s.legs \in Seq([from : End, to : End])
    /\ \A s \in DeviceShapes : IsFiniteSet(DOMAIN s.ports)

VARIABLES program, phase,
          cur,             \* the space evaluated or built
          pos,             \* position in its current loop
          ids,             \* the emitter's nets: name to id
          emitted,         \* its records, by kind
          arena, made,     \* netlist and lowered records of the space being built
          spaces           \* the spaces built

vars == <<program, phase, cur, pos, ids, emitted, arena, made, spaces>>

Nothing == [polygons |-> <<>>, contacts |-> <<>>, devices |-> <<>>, routes |-> <<>>]
Space == program[cur]
IdOf(name) == IF name \in DOMAIN ids THEN ids[name] ELSE UNCONNECTED
NameOf(id) == IF \E n \in DOMAIN ids : ids[n] = id
              THEN CHOOSE n \in DOMAIN ids : ids[n] = id ELSE None
AmountEmitted == Len(emitted.polygons) + Len(emitted.contacts)
                 + Len(emitted.devices) + Len(emitted.routes)

Init ==
    /\ program \in Programs
    /\ phase = "evaluate" /\ cur = 1 /\ pos = 0
    /\ ids = <<>> /\ emitted = Nothing
    /\ arena = NewArena /\ made = Nothing /\ spaces = <<>>

-----------------------------------------------------------------------------
(* Evaluation. *)

(* A name keeps the id it got first, in whichever space that was. *)
AllocateNet ==
    /\ phase = "evaluate" /\ pos < Len(Space.nets)
    /\ LET name == Space.nets[pos + 1] IN
       ids' = IF name \in DOMAIN ids THEN ids
              ELSE Put(ids, name, Cardinality(DOMAIN ids) + 1)
    /\ pos' = pos + 1
    /\ UNCHANGED <<program, phase, cur, emitted, arena, made, spaces>>

(* A body reaches its own space's nets only, as handles bound to their names. *)
InScope(name) == name = None \/ \E i \in DOMAIN Space.nets : Space.nets[i] = name

Emit(kind, record) ==
    /\ phase = "evaluate" /\ pos = Len(Space.nets)
    /\ AmountEmitted < MaxShapes
    /\ emitted' = [emitted EXCEPT ![kind] = Append(@, record)]
    /\ UNCHANGED <<program, phase, cur, pos, ids, arena, made, spaces>>

EmitPolygon(s) ==
    /\ InScope(s.net)
    /\ Emit("polygons", [space |-> cur, layer |-> s.layer, net |-> IdOf(s.net),
                         area |-> s.area, port |-> s.port])

EmitContact(s) ==
    /\ InScope(s.net)
    /\ Emit("contacts", [space |-> cur, from |-> s.from, to |-> s.to,
                         net |-> IdOf(s.net), area |-> s.area])

(* A device added to the space binds terminals to nets; one that comes with a
   placed cell leaves them unconnected and maps them to ports of the cell. *)
EmitDevice(s) ==
    /\ \A t \in DOMAIN s.terminals : InScope(s.terminals[t])
    /\ Emit("devices", [space |-> cur, type |-> s.type, instance |-> s.instance,
                        terminals |-> [t \in DOMAIN s.terminals |-> IdOf(s.terminals[t])],
                        ports |-> s.ports])

(* The two ends of a route, or of each matched pair of fields of a bundle. *)
EmitRoute(s) ==
    LET Stamped(e) == [e EXCEPT !.net = IdOf(@)]
    IN /\ InScope(s.net)
       /\ \A i \in DOMAIN s.legs : InScope(s.legs[i].from.net) /\ InScope(s.legs[i].to.net)
       /\ Emit("routes", [space |-> cur, bundle |-> s.bundle, net |-> IdOf(s.net),
                          layer |-> s.layer,
                          legs |-> [i \in DOMAIN s.legs |-> [from |-> Stamped(s.legs[i].from),
                                                             to |-> Stamped(s.legs[i].to)]]])

EndBody ==
    /\ phase = "evaluate" /\ pos = Len(Space.nets)
    /\ IF cur < Len(program) THEN cur' = cur + 1 /\ phase' = phase
                             ELSE cur' = 1 /\ phase' = "nets"
    /\ pos' = 0
    /\ UNCHANGED <<program, ids, emitted, arena, made, spaces>>

(* The body fails: out of fuel, a type error, a bad net property. *)
EvaluationFails ==
    /\ phase = "evaluate" /\ phase' = "failed"
    /\ UNCHANGED <<program, cur, pos, ids, emitted, arena, made, spaces>>

-----------------------------------------------------------------------------
(* Building the current space. *)


\* Mutant: the nets are registered from the last to the first.
RegisterNet_backwards ==
    /\ phase = "nets" /\ pos < Len(Space.nets)
    /\ arena' = AddNet(arena, Space.nets[Len(Space.nets) - pos])
    /\ pos' = pos + 1
    /\ UNCHANGED <<program, phase, cur, ids, emitted, made, spaces>>
RegisterNet ==
    /\ phase = "nets" /\ pos < Len(Space.nets)
    /\ arena' = AddNet(arena, Space.nets[pos + 1])
    /\ pos' = pos + 1
    /\ UNCHANGED <<program, phase, cur, ids, emitted, made, spaces>>


\* Mutant: contacts are lowered before the polygons.
NextPhase_contactsFirst == [nets |-> "contacts", contacts |-> "polygons",
                            polygons |-> "devices", devices |-> "routes"]
NextPhase == [nets |-> "polygons", polygons |-> "contacts", contacts |-> "devices",
              devices |-> "routes"]
LoopEnd == IF phase = "nets" THEN Len(Space.nets) ELSE Len(emitted[phase])

EndLoop ==
    /\ phase \in DOMAIN NextPhase /\ pos = LoopEnd
    /\ phase' = NextPhase[phase] /\ pos' = 0
    /\ UNCHANGED <<program, cur, ids, emitted, arena, made, spaces>>


EndSpace ==
    /\ phase = "routes" /\ pos = LoopEnd
    /\ spaces' = Append(spaces, [arena |-> arena, made |-> made])
    /\ arena' = NewArena /\ made' = Nothing /\ pos' = 0
    /\ IF cur < Len(program) THEN cur' = cur + 1 /\ phase' = "nets"
                             ELSE cur' = cur /\ phase' = "done"
    /\ UNCHANGED <<program, ids, emitted>>

Lower(kind, records, netlist) ==
    /\ made' = [made EXCEPT ![kind] = @ \o records]
    /\ arena' = netlist
    /\ pos' = pos + 1
    /\ UNCHANGED <<program, phase, cur, ids, emitted, spaces>>

BuildFails ==
    /\ phase' = "failed"
    /\ UNCHANGED <<program, cur, pos, ids, emitted, arena, made, spaces>>

Current(kind) == emitted[kind][pos + 1]
At(kind) == phase = kind /\ pos < Len(emitted[kind])

(* The ends of the single routes, numbered in order: the two of route i are 2i-1 and 2i. *)
Ends == 1 .. 2 * Len(emitted.routes)
RouteOf(j) == emitted.routes[(j + 1) \div 2]
EndOf(j) == IF j % 2 = 1 THEN RouteOf(j).legs[1].from ELSE RouteOf(j).legs[1].to
PortEnds == {j \in Ends : ~ RouteOf(j).bundle /\ EndOf(j).kind = "port"}
NettedEnds == {j \in PortEnds : RouteOf(j).net # UNCONNECTED}

(* A polygon without a net takes the net of a routed port inside it, one with
   the polygon's own port tag first. *)
PolygonNet(poly) ==
    LET inside == {j \in NettedEnds : EndOf(j).at \in poly.area}
        tagged == {j \in inside : EndOf(j).port = poly.port}
    IN CASE poly.net # UNCONNECTED -> NameOf(poly.net)
         [] poly.net = UNCONNECTED /\ tagged # {} -> NameOf(RouteOf(Min(tagged)).net)
         [] poly.net = UNCONNECTED /\ tagged = {} /\ inside # {} ->
              NameOf(RouteOf(Min(inside)).net)
         [] OTHER -> None

(* A component with its pins on the net: nothing when there is no net.  The name always has an
   id, because names are looked up from ids, so get_or_create_net is not reached. *)
WithPin(netlist, net) ==
    LET added == AddPin(netlist, Len(netlist.components))
    IN ConnectPin(added, Len(added.pins), IdOf(net))
WithPour(net) ==
    IF net = None THEN arena ELSE WithPin(WithPin(AddComponent(arena), net), net)
WithContact(net) == IF net = None THEN arena ELSE WithPin(AddComponent(arena), net)

LowerPolygon ==
    LET poly == Current("polygons")
        net == PolygonNet(poly)
    IN /\ At("polygons") /\ poly.layer \in Space.layers
       /\ Lower("polygons", <<[space |-> poly.space, layer |-> poly.layer, net |-> net,
                               id |-> IdOf(net), area |-> poly.area]>>, WithPour(net))

(* A contact without a net takes that of the first netted pour it meets on its layers. *)
Meets(contact, pour) ==
    /\ pour.net # None
    /\ pour.layer \in {contact.from, contact.to}
    /\ contact.area \cap pour.area # {}
ContactNet(contact) ==
    LET met == {i \in DOMAIN made.polygons : Meets(contact, made.polygons[i])}
    IN CASE contact.net # UNCONNECTED -> NameOf(contact.net)
         [] contact.net = UNCONNECTED /\ met # {} -> made.polygons[Min(met)].net
         [] OTHER -> None

LowerContact ==
    LET contact == Current("contacts")
        net == ContactNet(contact)
    IN /\ At("contacts") /\ {contact.from, contact.to} \subseteq Space.layers
       /\ Lower("contacts", <<[space |-> contact.space, from |-> contact.from,
                               to |-> contact.to, net |-> net, id |-> IdOf(net),
                               area |-> contact.area]>>, WithContact(net))


LayerMissing ==
    /\ \/ At("polygons") /\ Current("polygons").layer \notin Space.layers
       \/ At("contacts") /\ ~ {Current("contacts").from, Current("contacts").to} \subseteq Space.layers
    /\ BuildFails

(* A device's nets, by terminal and port name in one table: the nets bound to
   terminals, over them those of the routes at its ports (the last route wins),
   and then, in the order a hash map lists them, each terminal's own port. *)
DeviceEnds(device, port) ==
    {j \in NettedEnds : EndOf(j).instance = device.instance /\ EndOf(j).port = port}
RoutedPorts(device) ==
    {EndOf(j).port : j \in {k \in NettedEnds : EndOf(k).instance = device.instance}}
SeededNets(device) ==
    LET bound == {t \in DOMAIN device.terminals : device.terminals[t] # UNCONNECTED}
    IN [x \in bound \cup RoutedPorts(device) |->
           IF x \in RoutedPorts(device) THEN NameOf(RouteOf(Max(DeviceEnds(device, x))).net)
                                        ELSE NameOf(device.terminals[x])]
\* Mutant: the terminals are never mapped to the nets of their ports.
TerminalNets_unmapped(device, order) == SeededNets(device)

TerminalNets(device, order) ==
    LET nets[k \in 0 .. Len(order)] ==
            IF k = 0 THEN SeededNets(device)
            ELSE LET t == order[k] IN
                 IF device.ports[t] \in DOMAIN nets[k - 1]
                 THEN Put(nets[k - 1], t, nets[k - 1][device.ports[t]]) ELSE nets[k - 1]
    IN nets[Len(order)]
Orders(S) == {s \in [1 .. Cardinality(S) -> S] : \A x \in S : \E i \in DOMAIN s : s[i] = x}

Landed(port) == \/ \E j \in PortEnds : EndOf(j).port = port
                \/ \E i \in DOMAIN emitted.polygons : emitted.polygons[i].port = port
Complete(device) ==
    /\ device.type \in DOMAIN Contract
    /\ Contract[device.type] \subseteq DOMAIN device.terminals \cup DOMAIN device.ports

LowerDevice ==
    LET device == Current("devices") IN
    /\ At("devices") /\ Complete(device)
    /\ \E order \in Orders(DOMAIN device.ports) :
         LET nets == TerminalNets(device, order)
             Net(t) == IF t \in DOMAIN nets THEN nets[t] ELSE None
         IN Lower("devices",
                  <<[space |-> device.space, instance |-> device.instance,
                     terminals |-> DOMAIN device.terminals, ports |-> device.ports,
                     nets |-> nets,
                     bindings |-> {[terminal |-> t, port |-> device.ports[t],
                                    net |-> Net(t), id |-> IdOf(Net(t))] :
                                   t \in {u \in DOMAIN device.ports : Landed(device.ports[u])}}]>>,
                  arena)

DeviceRejected ==
    /\ At("devices") /\ ~ Complete(Current("devices"))
    /\ BuildFails

(* What a route says of its net or layer, most telling first: the route's own
   property, then a placed port at either end, then a struct at either end. *)
FirstKnown(property, leg, field, unknown) ==
    LET Of(e, kind) == IF e.kind = kind THEN e[field] ELSE unknown
        known == SelectSeq(<<property, Of(leg.from, "port"), Of(leg.to, "port"),
                             Of(leg.from, "struct"), Of(leg.to, "struct")>>,
                           LAMBDA x : x # unknown)
    IN IF known = <<>> THEN unknown ELSE Head(known)

Touched(leg) ==
    {i \in DOMAIN made.polygons :
        /\ made.polygons[i].layer \in Space.routable
        /\ leg.from.at \in made.polygons[i].area \/ leg.to.at \in made.polygons[i].area}

(* The layer and the net not said come from the pours the ends touch: each
   from the first that has one. *)
LegLayer(route, leg) ==
    LET said == FirstKnown(route.layer, leg, "layer", None)
    IN IF said # None \/ Touched(leg) = {} THEN said ELSE made.polygons[Min(Touched(leg))].layer
LegNet(route, leg) ==
    LET said == FirstKnown(route.net, leg, "net", UNCONNECTED)
        netted == {i \in Touched(leg) : made.polygons[i].net # None}
    IN IF said # UNCONNECTED \/ netted = {} THEN said ELSE made.polygons[Min(netted)].id

Routable(route, leg) ==
    /\ leg.from.at # None /\ leg.to.at # None
    /\ LegLayer(route, leg) \in Space.layers
    /\ LegNet(route, leg) # UNCONNECTED
    /\ leg.from.kind = "port" => leg.from.layer = LegLayer(route, leg)
    /\ leg.to.kind = "port" => leg.to.layer = LegLayer(route, leg)
RouteOK(route) ==
    route.legs # <<>> /\ \A i \in DOMAIN route.legs : Routable(route, route.legs[i])

LowerRoute ==
    LET route == Current("routes")
        Trace(leg) == [space |-> route.space, layer |-> LegLayer(route, leg),
                       id |-> LegNet(route, leg), net |-> NameOf(LegNet(route, leg)),
                       ends |-> {leg.from.at, leg.to.at}]
    IN /\ At("routes") /\ RouteOK(route)
       /\ Lower("routes", [i \in DOMAIN route.legs |-> Trace(route.legs[i])], arena)

RouteRejected ==
    /\ At("routes") /\ ~ RouteOK(Current("routes"))
    /\ BuildFails

-----------------------------------------------------------------------------
Evaluate ==
    \/ AllocateNet
    \/ \E s \in PolygonShapes : EmitPolygon(s)
    \/ \E s \in ContactShapes : EmitContact(s)
    \/ \E s \in DeviceShapes : EmitDevice(s)
    \/ \E s \in RouteShapes : EmitRoute(s)
    \/ EndBody
    \/ EvaluationFails

Build ==
    \/ RegisterNet \/ EndLoop \/ EndSpace \/ LayerMissing
    \/ LowerPolygon \/ LowerContact
    \/ LowerDevice \/ DeviceRejected
    \/ LowerRoute \/ RouteRejected

Next == Evaluate \/ Build
Spec == Init /\ [][Next]_vars

-----------------------------------------------------------------------------
(* Properties. *)

Kinds == {"polygons", "contacts", "devices", "routes"}

TypeOK ==
    /\ program \in Programs /\ cur \in DOMAIN program
    /\ phase \in {"evaluate", "nets", "done", "failed"} \cup Kinds
    /\ pos \in 0 .. (IF phase \in {"done", "failed"} THEN pos
                     ELSE IF phase = "evaluate" THEN Len(Space.nets) ELSE LoopEnd)
    /\ DOMAIN ids \subseteq Nets /\ \A n \in DOMAIN ids : ids[n] \in Nat \ {0}
    /\ DOMAIN emitted = Kinds /\ DOMAIN made = Kinds
    /\ \A i \in DOMAIN made.polygons : made.polygons[i].net \in Known(Nets)
    /\ Len(spaces) <= Len(program)

(* The spaces of a program that has one, or whose spaces declare the same nets in one order. *)
Aligned ==
    \A s, t \in DOMAIN program :
        /\ program[s].nets = program[t].nets
        /\ \A i, j \in DOMAIN program[s].nets :
              program[s].nets[i] = program[s].nets[j] => i = j

NamedIn(netlist, shape) ==
    shape.net # None => /\ shape.id \in DOMAIN netlist.nets
                        /\ netlist.nets[shape.id].name = shape.net
AgreeIn(netlist, lowered) ==
    /\ \A i \in DOMAIN lowered.polygons : NamedIn(netlist, lowered.polygons[i])
    /\ \A i \in DOMAIN lowered.contacts : NamedIn(netlist, lowered.contacts[i])
    /\ \A i \in DOMAIN lowered.routes : NamedIn(netlist, lowered.routes[i])

(* The emitter and the space number nets independently, and the pipeline writes
   the emitter's number where the space's is read.  With aligned spaces the two
   numberings are one: the id on every lowered shape is, in the space's own
   netlist, the net the shape is named for. *)
NetIdsAgree ==
    Aligned => /\ AgreeIn(arena, made)
               /\ \A k \in DOMAIN spaces : AgreeIn(spaces[k].arena, spaces[k].made)

(* The same of the bindings of a device's terminals, whose nets went through names. *)
BindingsAgree ==
    Aligned => \A i \in DOMAIN made.devices : \A b \in made.devices[i].bindings :
        NamedIn(arena, b)

(* Two nets of the program never share an id, though they are allocated space by
   space: a handle held by one body never names another body's net. *)
HandlesAreDistinct == \A m, n \in DOMAIN ids : ids[m] = ids[n] => m = n

(* The two directions of a connection agree: a net lists exactly the pins that name it. *)
PinsOnTheirNets ==
    \A n \in DOMAIN arena.nets :
        arena.nets[n].pins = {p \in DOMAIN arena.pins : arena.pins[p].net = n}

(* A component's window covers exactly its own pins: its pins are added before
   the next component exists, which is all that keeps the windows apart. *)
ComponentWindows ==
    \A c \in DOMAIN arena.components :
        ComponentPins(arena, c) = {p \in DOMAIN arena.pins : arena.pins[p].parent = c}

(* A contact stays without a net only if no netted pour meets it on its layers,
   among all the pours of the space and not just those lowered before it. *)
NoStrayContact ==
    \A i \in DOMAIN made.contacts : \A k \in DOMAIN made.polygons :
        made.contacts[i].net = None => ~ Meets(made.contacts[i], made.polygons[k])

(* A terminal mapped to a port has the net routed to that port of the instance. *)
OnItsPort(device, b) ==
    LET landing == {RouteOf(j).net : j \in DeviceEnds(device, b.port)}
    IN landing # {} => \E id \in landing : b.net = NameOf(id)

(* Every terminal of a device is on its port if a port's name is a terminal's only
   when that terminal is on it: the one table of terminals and ports then keeps them
   apart, in whatever order the map is walked.  (Where they cross, P on Q and Q on
   P, one overwrites what the other reads; nothing need land on Q for that, if its
   name too is a terminal's.) *)
PortsApart(device) ==
    \A t \in DOMAIN device.ports :
        device.ports[t] \in DOMAIN device.ports => device.ports[device.ports[t]] = device.ports[t]
SeparatePortsKeepTheirNets ==
    \A i \in DOMAIN made.devices : PortsApart(made.devices[i]) =>
        \A b \in made.devices[i].bindings : OnItsPort(made.devices[i], b)
=============================================================================
