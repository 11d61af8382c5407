---------------------------- MODULE NetlistArena ----------------------------
(* The netlist of one hardware space (hwc-engine/src/netlist.rs): components,
   pins and nets in three vectors, tied together by index.  A component owns a
   window of the pin vector, given by its first pin and a count; a net lists
   its pins, and a pin names its net.  The links are written by separate calls,
   so nothing but the callers' order keeps them consistent.

   A component or pin is known here by its position, one more than the id the
   code gives it; net ids start at 1 in the code too, and 0 is UNCONNECTED.
   Names of components and pins, positions and pad shapes are left out.  A net's pin list
   is a set: connect_pin appends a pin only when it is not there. *)
EXTENDS Integers, Sequences

UNCONNECTED == 0

Put(f, key, value) == [k \in DOMAIN f \cup {key} |-> IF k = key THEN value ELSE f[k]]

NewArena == [nets |-> <<>>, netNames |-> <<>>, components |-> <<>>, pins |-> <<>>]

(* The second net of a name takes the name over and leaves the first in place. *)
AddNet(arena, name) ==
    [arena EXCEPT !.nets = Append(@, [name |-> name, pins |-> {}]),
                  !.netNames = Put(@, name, Len(arena.nets) + 1)]


\* Mutant: the first pin is the last pin of the component before.
AddComponent_early(arena) ==
    [arena EXCEPT !.components = Append(@, [first |-> Len(arena.pins), count |-> 0])]
AddComponent(arena) ==
    [arena EXCEPT !.components = Append(@, [first |-> Len(arena.pins) + 1, count |-> 0])]

AddPin(arena, c) ==
    [arena EXCEPT !.pins = Append(@, [parent |-> c, net |-> UNCONNECTED]),
                  !.components[c].count = @ + 1]

\* Mutant: the net after the one with the id, as if ids started at 0.
ListPin_shifted(nets, p, n) ==
    [i \in DOMAIN nets |-> IF i = n + 1 THEN [nets[i] EXCEPT !.pins = @ \cup {p}] ELSE nets[i]]

ListPin(nets, p, n) ==
    [i \in DOMAIN nets |-> IF i = n THEN [nets[i] EXCEPT !.pins = @ \cup {p}] ELSE nets[i]]

(* The pin records the net whether or not the arena has it. *)
ConnectPin(arena, p, n) ==
    [arena EXCEPT !.pins[p].net = n, !.nets = ListPin(@, p, n)]

ComponentPins(arena, c) ==
    LET comp == arena.components[c] IN comp.first .. comp.first + comp.count - 1
=============================================================================
