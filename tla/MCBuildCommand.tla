--------------------------- MODULE MCBuildCommand ---------------------------
(* Jobs for BuildCommand: every short source under every limit; one good source
   under every combination of options and faults; and one space of every small
   arrangement of metal. *)
EXTENDS BuildCommand

Unlimited == 99
Upto(S, n) == UNION {[1..k -> S] : k \in 0..n}

Bar(net, material, lo, hi, kind, device) ==
    [net |-> net, material |-> material, kind |-> kind, device |-> device, mask |-> FALSE,
     regions |-> <<[lo |-> lo, hi |-> hi]>>]
NoMetal == [pours |-> <<>>, contacts |-> <<>>, traces |-> <<>>, vias |-> <<>>]
TwoPieces == [NoMetal EXCEPT !.pours = <<Bar("a", "cu", <<0, 0, 0>>, <<2, 2, 1>>, "pour", None),
                                         Bar("a", "cu", <<6, 6, 0>>, <<8, 8, 1>>, "pour", None)>>]

Sound0 == [implements |-> TRUE, extracts |-> TRUE, constrained |-> TRUE, clean |-> TRUE,
           metal |-> NoMetal]
Artistic == [Sound0 EXCEPT !.implements = FALSE, !.clean = FALSE, !.metal = TwoPieces]
Unextracted == [Sound0 EXCEPT !.extracts = FALSE]
Unclean == [Sound0 EXCEPT !.clean = FALSE]
Unconstrained == [Unclean EXCEPT !.constrained = FALSE]
Disjoint == [Sound0 EXCEPT !.metal = TwoPieces]

Plain == [command |-> "build", source |-> <<"import", "x", "semicolon", "space", "x", "space", "x">>,
          readable |-> TRUE, unresolved |-> {}, duplicates |-> 0, evaluates |-> TRUE,
          spaces |-> <<Sound0, Sound0>>, unwritable |-> {}, asked |-> <<"glb">>,
          limit |-> Unlimited, only |-> NoSpace, skipDrc |-> FALSE, skipContinuity |-> FALSE,
          force |-> FALSE, verifyOnly |-> FALSE, lock |-> "absent"]

(* Every source of up to four tokens. *)
Alphabet == {"import", "space", "let", "const", "x", "brace", "semicolon", "hash"}
SourceJobs ==
    {[Plain EXCEPT !.command = c, !.source = s, !.limit = l, !.spaces = [i \in 1..4 |-> Sound0]] :
        c \in {"check", "build"}, s \in Upto(Alphabet, 4), l \in {0, 1, 2, Unlimited}}

(* Faults before the spaces. *)
FrontJobs ==
    {[Plain EXCEPT !.command = c, !.readable = r, !.unresolved = u, !.duplicates = d,
                   !.evaluates = e, !.limit = l, !.only = o, !.asked = w] :
        c \in {"check", "build"}, r \in BOOLEAN, u \in {{}, {1}, {2}}, d \in 0..2,
        e \in BOOLEAN, l \in {0, 1, Unlimited}, o \in {NoSpace, 1, 3},
        w \in {<<"glb">>, <<"sp", "gdsii", "all">>}}

(* Two spaces under every option. *)
SpaceFacts == {Sound0, Artistic, Unextracted, Unclean, Unconstrained, Disjoint}
OptionJobs ==
    {[Plain EXCEPT !.spaces = <<a, b>>, !.skipDrc = d, !.skipContinuity = c, !.force = f,
                   !.verifyOnly = v, !.lock = k] :
        a \in SpaceFacts, b \in SpaceFacts, d \in BOOLEAN, c \in BOOLEAN, f \in BOOLEAN,
        v \in BOOLEAN, k \in {"off", "absent", "present", "ignored"}}

(* Files that cannot be written.  An unknown word after "all" is not looked at. *)
Asked == {<<>>, <<"netlist">>, <<"glb", "dxf", "spice">>, <<"bom", "glb">>,
          <<"drill", "glb", "bom">>, <<"excellon", "all", "gdsii">>}
FileJobs ==
    {[Plain EXCEPT !.spaces = <<a, Sound0>>, !.unwritable = u, !.asked = w, !.only = o,
                   !.verifyOnly = v] :
        a \in {Sound0, Artistic}, w \in Asked,
        u \in {{}} \cup {{file} : file \in (1..2) \X {"dir", "glb", "bom", "excellon"}},
        o \in {NoSpace, 1, 2}, v \in BOOLEAN}

(* Metal: two bars that make an L, one above its open side, one above that,
   one of another material over its foot, device terminals, one of another net, one of none. *)
Pours ==
    {Bar("a", "cu", <<0, 0, 0>>, <<8, 1, 1>>, "pour", None),
     Bar("a", "cu", <<0, 0, 0>>, <<1, 8, 1>>, "pour", None),
     Bar("a", "cu", <<6, 0, 3>>, <<8, 8, 4>>, "pour", None),
     Bar("a", "al", <<6, 0, 5>>, <<8, 1, 6>>, "pour", None),
     Bar("a", "al", <<4, 0, 0>>, <<8, 1, 1>>, "pour", None),
     Bar("a", "al", <<0, 8, 0>>, <<1, 9, 1>>, "pour", "q"),
     Bar("a", "al", <<6, 6, 4>>, <<7, 7, 6>>, "terminal", "q"),
     Bar("b", "cu", <<7, 7, 0>>, <<9, 9, 1>>, "pour", None),
     Bar("a", "cu", <<7, 0, 1>>, <<7, 0, 3>>, "contact", None),
     Bar(None, "ox", <<0, 0, 1>>, <<9, 9, 3>>, "pour", None)}
Contacts ==
    {[net |-> "a", material |-> "w", box |-> [lo |-> <<7, 7, 1>>, hi |-> <<7, 7, 3>>]],
     [net |-> "a", material |-> "w", box |-> [lo |-> <<7, 0, 1>>, hi |-> <<7, 0, 5>>]],
     [net |-> "a", material |-> "ox", box |-> [lo |-> <<4, 4, 0>>, hi |-> <<7, 7, 3>>]],
     [net |-> None, material |-> "w", box |-> [lo |-> <<0, 0, 1>>, hi |-> <<8, 8, 3>>]]}
Vias == {[net |-> "a", material |-> "cu", at |-> <<8, 1>>, z |-> <<1, 4>>, radius |-> 1]}
Traces ==
    {[net |-> "a", material |-> "cu", z |-> <<3, 4>>, half |-> 1,
      segments |-> <<<<<<8, 0>>, <<8, 6>>>>>>],
     [net |-> "a", material |-> "cu", z |-> <<3, 4>>, half |-> 0,
      segments |-> <<<<<<8, 1>>, <<8, 1>>>>, <<<<8, 1>>, <<8, 6>>>>>>]}

Orders(S, n) == UNION {SetToSeqs(T) : T \in {U \in SUBSET S : Cardinality(U) <= n}}
Metals ==
    {m \in [pours : Orders(Pours, 3), contacts : Orders(Contacts, 1), traces : Orders(Traces, 1),
            vias : Orders(Vias, 1)] :
        Len(m.pours) <= 1 \/ Len(m.contacts) + Len(m.traces) + Len(m.vias) <= 1}
MetalJobs ==
    {[Plain EXCEPT !.source = <<"space", "x">>, !.lock = "off",
                   !.spaces = <<[Sound0 EXCEPT !.metal = m]>>] : m \in Metals}

AllJobs == [source |-> SourceJobs, front |-> FrontJobs, options |-> OptionJobs,
            files |-> FileJobs, metal |-> MetalJobs]
MetalAlone == [metal |-> MetalJobs]
=============================================================================
