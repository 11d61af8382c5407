-------------------------- MODULE MCSpaceLowering --------------------------
(* Programs and shapes for model checking: the shapes are few and chosen to
   overlap, so that nets are taken from ports, pours and routes and refused. *)
EXTENDS SpaceLowering

Board(nets, layers) == [nets |-> nets, layers |-> layers, routable |-> {"M1", "M2"}]
OneSpace == {<<Board(<<"a", "b">>, {"M1", "M2"})>>}
TwoSpaces == {<<Board(<<"a">>, {"M1", "M2"}), Board(<<"a">>, {"M1"})>>,
              <<Board(<<"a">>, {"M1", "M2"}), Board(<<"b">>, {"M1", "M2"})>>}
TwinNets == {<<Board(<<"a", "a", "b">>, {"M1", "M2"})>>}
ManySpaces == TwoSpaces \cup TwinNets
    \cup {<<Board(<<"a", "b">>, {"M1", "M2"}), Board(<<"a", "b">>, {"M1", "M2"})>>}
AllPrograms == OneSpace \cup ManySpaces

Polygon(layer, net, area, port) == [layer |-> layer, net |-> net, area |-> area, port |-> port]
Polygons == {Polygon("M1", None, {"p"}, "P"), Polygon("M1", None, {"p", "q"}, "Q"),
             Polygon("M2", "a", {"q"}, None), Polygon("M1", "b", {"p"}, None)}
FewPolygons == {Polygon("M1", None, {"p"}, "P"), Polygon("M2", "a", {"q"}, None),
                Polygon("M1", "b", {"p"}, None)}

Contacts == {[from |-> "M1", to |-> "M2", net |-> None, area |-> {"p"}],
             [from |-> "M1", to |-> "M2", net |-> None, area |-> {"q"}],
             [from |-> "M1", to |-> "M3", net |-> "a", area |-> {"p"}]}

PlacedPort(at, port, layer, net) ==
    [kind |-> "port", at |-> at, instance |-> "X", port |-> port, layer |-> layer, net |-> net]
Point(at) ==
    [kind |-> "point", at |-> at, instance |-> None, port |-> None, layer |-> None, net |-> None]
Field(at, layer, net) ==
    [kind |-> "struct", at |-> at, instance |-> None, port |-> None, layer |-> layer, net |-> net]
Single(from, to, net, layer) ==
    [bundle |-> FALSE, legs |-> <<[from |-> from, to |-> to]>>, net |-> net, layer |-> layer]
Bundle(legs, net) == [bundle |-> TRUE, legs |-> legs, net |-> net, layer |-> None]
Routes == {Single(PlacedPort("p", "P", "M1", None), PlacedPort("q", "Q", "M1", None), "a", None),
           Single(PlacedPort("q", "Q", "M1", None), Point("p"), "b", None),
           Single(Point("p"), Point("q"), None, None),
           Bundle(<<[from |-> Field("p", "M1", "b"), to |-> Point("q")],
                    [from |-> Point("p"), to |-> Point("q")]>>, None)}
PortRoutes == {Single(PlacedPort("p", "P", "M1", None), Point("q"), "a", None),
               Single(PlacedPort("q", "Q", "M1", None), Point("p"), "b", None)}

(* A device of a placed cell, with its terminals at ports of other names; one
   bound to nets; one without a net at a required terminal; and one of a placed
   cell whose terminal P is at port Q and Q at P. *)
Placed(type, ports) ==
    [type |-> type, instance |-> "X", terminals |-> [t \in DOMAIN ports |-> None], ports |-> ports]
Bound(terminals) ==
    [type |-> "fet", instance |-> "Y", terminals |-> terminals, ports |-> <<>>]
Devices == {Placed("fet", [G |-> "P", S |-> "Q"]), Bound([G |-> "a", S |-> "b"]),
            Bound([G |-> "a"])}
SwappedDevices == {Placed("res", [P |-> "Q", Q |-> "P"])}
(* The port of T is a terminal too, through a port X that nothing lands on. *)
ChainedDevices == {Placed("div", [T |-> "P", P |-> "X", X |-> "Q"])}
AllDevices == Devices \cup SwappedDevices \cup ChainedDevices
Contracts == [fet |-> {"G", "S"}, res |-> {"P", "Q"}, div |-> {"T"}]

NoShapes == {}
=============================================================================
