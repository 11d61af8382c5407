-------------------------- MODULE SpaceLoweringProofs --------------------------
(* What is proved of the lowering, for every set of programs and shapes: the
   netlist's links hold together, handles are distinct, with aligned spaces the
   emitter's ids are the space's own, no contact misses a pour it meets, and a
   device's terminals carry the nets of their ports. *)
EXTENDS SpaceLowering, FiniteSetTheorems, TLAPS

-----------------------------------------------------------------------------
(* The least of a set of naturals is one of its elements. *)
LEMMA MinIsIn ==
    ASSUME NEW S \in SUBSET Nat, S # {}
    PROVE  Min(S) \in S
<1>1. \E x \in S : \A y \in S : ~ (<<y, x>> \in OpToRel(<, Nat))
  BY NatLessThanWellFounded, WFMin
<1>2. PICK x \in S : \A y \in S : ~ (<<y, x>> \in OpToRel(<, Nat))
  BY <1>1
<1>3. ASSUME NEW y \in S, y < x
      PROVE  <<y, x>> \in OpToRel(<, Nat)
  BY <1>3, Zenon DEF OpToRel
<1>4. \A y \in S : ~ (y < x)
  BY <1>2, <1>3
<1>5. \A y \in S : x =< y
  BY <1>4
<1> QED  BY <1>5 DEF Min

(* The greatest of a bounded set of naturals is one of its elements. *)
LEMMA MaxIsIn ==
    ASSUME NEW N \in Nat, NEW S \in SUBSET (1 .. N), S # {}
    PROVE  Max(S) \in S
<1> DEFINE T == {n \in Nat : \E x \in S : n = N - x}
<1>1. T \in SUBSET Nat
  OBVIOUS
<1>2. T # {}
  <2>1. PICK x \in S : TRUE
    OBVIOUS
  <2>2. N - x \in T
    OBVIOUS
  <2> QED  BY <2>2
<1>3. PICK n \in T : \A y \in T : ~ (<<y, n>> \in OpToRel(<, Nat))
  <2> HIDE DEF T
  <2>1. \E n \in T : \A y \in T : ~ (<<y, n>> \in OpToRel(<, Nat))
    BY <1>1, <1>2, NatLessThanWellFounded, WFMin
  <2> QED  BY <2>1
<1>4. ASSUME NEW y \in T, y < n
      PROVE  <<y, n>> \in OpToRel(<, Nat)
  BY <1>1, <1>4, Zenon DEF OpToRel
<1>5. \A y \in T : ~ (y < n)
  BY <1>3, <1>4
<1>6. PICK x \in S : n = N - x
  OBVIOUS
<1>7. \A y \in S : N - y \in T
  OBVIOUS
<1>8. \A y \in S : y =< x
  <2> HIDE DEF T
  <2> QED  BY <1>5, <1>6, <1>7
<1> QED  BY <1>8 DEF Max

(* What holds of a position when it holds of all before it, holds of all. *)
LEMMA Climb ==
    ASSUME NEW N \in Nat, NEW S,
           \A n \in 0 .. N : (\A m \in 0 .. n - 1 : m \in S) => n \in S
    PROVE  \A n \in 0 .. N : n \in S
<1> DEFINE T == {n \in Nat : n =< N /\ n \notin S}
<1>1. CASE T = {}
  BY <1>1
<1>2. CASE T # {}
  <2>1. \E x \in T : \A y \in T : ~ (<<y, x>> \in OpToRel(<, Nat))
    <3>1. T \in SUBSET Nat
      OBVIOUS
    <3> HIDE DEF T
    <3> QED  BY <1>2, <3>1, NatLessThanWellFounded, WFMin
  <2>2. PICK x \in T : \A y \in T : ~ (<<y, x>> \in OpToRel(<, Nat))
    BY <2>1
  <2>3. ASSUME NEW y \in T, y < x
        PROVE  <<y, x>> \in OpToRel(<, Nat)
    <3>1. x \in Nat /\ y \in Nat
      OBVIOUS
    <3> QED  BY <2>3, <3>1, Zenon DEF OpToRel
  <2>4. \A y \in T : ~ (y < x)
    BY <2>2, <2>3
  <2> QED  BY <2>4
<1> QED  BY <1>1, <1>2

-----------------------------------------------------------------------------
(* The netlist. *)

ArenaType ==
    [nets : Seq([name : Nets, pins : SUBSET (Nat \ {0})]),
     netNames : UNION {[S -> Nat] : S \in SUBSET Nets},
     components : Seq([first : Nat \ {0}, count : Nat]),
     pins : Seq([parent : Nat, net : Nat])]

(* The two connections of the netlist, with what keeps them: a pin belongs to a
   component there is, and the last component's window ends with the pins. *)
Connected(a) ==
    \A n \in DOMAIN a.nets : a.nets[n].pins = {p \in DOMAIN a.pins : a.pins[p].net = n}
Windowed(a) ==
    /\ \A c \in DOMAIN a.components :
          ComponentPins(a, c) = {p \in DOMAIN a.pins : a.pins[p].parent = c}
    /\ \A p \in DOMAIN a.pins : a.pins[p].parent \in DOMAIN a.components
    /\ \A c \in DOMAIN a.components : c = Len(a.components) =>
          a.components[c].first + a.components[c].count = Len(a.pins) + 1
ArenaOK(a) == a \in ArenaType /\ Connected(a) /\ Windowed(a)

(* The names of the nets, in order. *)
NetList(a) == [i \in DOMAIN a.nets |-> a.nets[i].name]

LEMMA NewArenaOK == ArenaOK(NewArena)
<1>1. NewArena \in ArenaType
  BY DEF NewArena, ArenaType
<1> QED  BY <1>1 DEF ArenaOK, NewArena, Connected, Windowed

LEMMA AddNetOK ==
    ASSUME NEW a, ArenaOK(a), a.pins = <<>>, NEW name \in Nets
    PROVE  /\ ArenaOK(AddNet(a, name))
           /\ AddNet(a, name).pins = <<>>
           /\ Len(AddNet(a, name).nets) = Len(a.nets) + 1
           /\ \A i \in DOMAIN a.nets : AddNet(a, name).nets[i].name = a.nets[i].name
           /\ AddNet(a, name).nets[Len(a.nets) + 1].name = name
<1> DEFINE b == AddNet(a, name)
<1>1. a \in ArenaType
  BY DEF ArenaOK
<1>2. /\ b.nets = Append(a.nets, [name |-> name, pins |-> {}])
      /\ b.netNames = Put(a.netNames, name, Len(a.nets) + 1)
      /\ b.components = a.components /\ b.pins = a.pins
  BY <1>1 DEF AddNet, ArenaType
<1>3. /\ a.nets \in Seq([name : Nets, pins : SUBSET (Nat \ {0})])
      /\ a.netNames \in UNION {[S -> Nat] : S \in SUBSET Nets}
      /\ a.components \in Seq([first : Nat \ {0}, count : Nat])
      /\ a.pins \in Seq([parent : Nat, net : Nat])
  BY <1>1 DEF ArenaType
<1>4. b.netNames \in UNION {[S -> Nat] : S \in SUBSET Nets}
  <2>1. PICK S \in SUBSET Nets : a.netNames \in [S -> Nat]
    BY <1>3
  <2>2. Len(a.nets) + 1 \in Nat
    BY <1>3
  <2>3. Put(a.netNames, name, Len(a.nets) + 1) \in [S \cup {name} -> Nat]
    BY <2>1, <2>2 DEF Put
  <2> QED  BY <1>2, <2>3
<1>5. b.nets \in Seq([name : Nets, pins : SUBSET (Nat \ {0})])
  BY <1>2, <1>3
<1> HIDE DEF b
<1>6. b \in ArenaType
  <2>1. b \in [nets : {b.nets}, netNames : {b.netNames}, components : {a.components},
              pins : {a.pins}]
    BY <1>1 DEF b, AddNet, ArenaType
  <2> QED  BY <1>2, <1>3, <1>4, <1>5, <2>1 DEF ArenaType
<1>7. /\ Len(b.nets) = Len(a.nets) + 1
      /\ \A i \in DOMAIN a.nets : b.nets[i] = a.nets[i]
      /\ b.nets[Len(a.nets) + 1] = [name |-> name, pins |-> {}]
      /\ DOMAIN b.nets = DOMAIN a.nets \cup {Len(a.nets) + 1}
  BY <1>2, <1>3
<1>8. Connected(b)
  BY <1>2, <1>7 DEF Connected, ArenaOK
<1>9. Windowed(b)
  BY <1>2 DEF Windowed, ArenaOK, ComponentPins
<1> QED  BY <1>2, <1>6, <1>7, <1>8, <1>9 DEF ArenaOK, b

LEMMA AddComponentOK ==
    ASSUME NEW a, ArenaOK(a)
    PROVE  /\ ArenaOK(AddComponent(a))
           /\ AddComponent(a).components # <<>>
           /\ AddComponent(a).nets = a.nets
<1> DEFINE b == AddComponent(a)
           new == [first |-> Len(a.pins) + 1, count |-> 0]
<1>1. a \in ArenaType
  BY DEF ArenaOK
<1>2. /\ b.components = Append(a.components, new)
      /\ b.nets = a.nets /\ b.netNames = a.netNames /\ b.pins = a.pins
  BY <1>1 DEF AddComponent, ArenaType
<1>3. /\ a.components \in Seq([first : Nat \ {0}, count : Nat])
      /\ a.pins \in Seq([parent : Nat, net : Nat])
      /\ Len(a.pins) \in Nat /\ Len(a.components) \in Nat
  BY <1>1 DEF ArenaType
<1>4. new \in [first : Nat \ {0}, count : Nat]
  BY <1>3
<1>5. b \in ArenaType
  <2>1. b \in [nets : {a.nets}, netNames : {a.netNames}, components : {b.components},
              pins : {a.pins}]
    BY <1>1 DEF AddComponent, ArenaType
  <2>2. b.components \in Seq([first : Nat \ {0}, count : Nat])
    BY <1>2, <1>3, <1>4
  <2>3. a.nets \in Seq([name : Nets, pins : SUBSET (Nat \ {0})])
        /\ a.netNames \in UNION {[S -> Nat] : S \in SUBSET Nets}
    BY <1>1 DEF ArenaType
  <2> HIDE DEF b
  <2> QED  BY <1>3, <2>1, <2>2, <2>3 DEF ArenaType
<1> HIDE DEF b
<1>6. /\ Len(b.components) = Len(a.components) + 1
      /\ \A c \in DOMAIN a.components : b.components[c] = a.components[c]
      /\ b.components[Len(a.components) + 1] = new
      /\ DOMAIN b.components = DOMAIN a.components \cup {Len(a.components) + 1}
      /\ Len(a.components) + 1 \notin DOMAIN a.components
  BY <1>2, <1>3
<1>7. Connected(b)
  BY <1>2 DEF Connected, ArenaOK
<1>8. \A c \in DOMAIN b.components :
          ComponentPins(b, c) = {p \in DOMAIN b.pins : b.pins[p].parent = c}
  <2>1. ASSUME NEW c \in DOMAIN a.components
        PROVE  ComponentPins(b, c) = {p \in DOMAIN b.pins : b.pins[p].parent = c}
    BY <1>2, <1>6 DEF ArenaOK, Windowed, ComponentPins
  <2>2. {p \in DOMAIN b.pins : b.pins[p].parent = Len(a.components) + 1} = {}
    BY <1>2, <1>6 DEF ArenaOK, Windowed
  <2>3. ComponentPins(b, Len(a.components) + 1) = {}
    BY <1>3, <1>6 DEF ComponentPins
  <2> QED  BY <1>6, <2>1, <2>2, <2>3
<1>9. \A p \in DOMAIN b.pins : b.pins[p].parent \in DOMAIN b.components
  BY <1>2, <1>6 DEF ArenaOK, Windowed
<1>10. \A c \in DOMAIN b.components : c = Len(b.components) =>
          b.components[c].first + b.components[c].count = Len(b.pins) + 1
  BY <1>2, <1>3, <1>6
<1>11. Windowed(b)
  BY <1>8, <1>9, <1>10 DEF Windowed
<1>12. b.components # <<>>
  BY <1>6, <1>3
<1> QED  BY <1>2, <1>5, <1>7, <1>11, <1>12 DEF ArenaOK, b

(* What b has over a: the last of the components owns one pin more, on net n. *)
PinAdded(a, b, m, n) ==
    /\ m \in Nat
    /\ DOMAIN a.pins = 1 .. m /\ DOMAIN b.pins = 1 .. m + 1
    /\ Len(a.pins) = m /\ Len(b.pins) = m + 1
    /\ \A k \in 1 .. m : b.pins[k] = a.pins[k]
    /\ b.pins[m + 1].net = n
PinOwned(a, b, m, last) ==
    /\ m \in Nat /\ last \in Nat \ {0}
    /\ b.pins[m + 1].parent = last
    /\ DOMAIN a.components = 1 .. last /\ DOMAIN b.components = 1 .. last
    /\ Len(a.components) = last /\ Len(b.components) = last
    /\ \A c \in 1 .. last : c # last => b.components[c] = a.components[c]
    /\ a.components[last].first \in Nat /\ a.components[last].count \in Nat
    /\ b.components[last].first = a.components[last].first
    /\ b.components[last].count = a.components[last].count + 1
PinListed(a, b, m, n) ==
    /\ DOMAIN b.nets = DOMAIN a.nets
    /\ \A i \in DOMAIN a.nets :
          b.nets[i].pins = a.nets[i].pins \cup (IF i = n THEN {m + 1} ELSE {})

LEMMA PinnedNets ==
    ASSUME NEW a, NEW b, NEW m, NEW n, Connected(a), PinAdded(a, b, m, n), PinListed(a, b, m, n)
    PROVE  Connected(b)
<1>1. m \in Nat /\ 1 .. m + 1 = 1 .. m \cup {m + 1} /\ m + 1 \notin 1 .. m
  BY DEF PinAdded
<1> SUFFICES ASSUME NEW i \in DOMAIN a.nets
             PROVE  b.nets[i].pins = {k \in 1 .. m + 1 : b.pins[k].net = i}
  BY DEF Connected, PinAdded, PinListed
<1>2. a.nets[i].pins = {k \in 1 .. m : a.pins[k].net = i}
  BY DEF Connected, PinAdded
<1>3. {k \in 1 .. m + 1 : b.pins[k].net = i}
        = {k \in 1 .. m : a.pins[k].net = i} \cup (IF i = n THEN {m + 1} ELSE {})
  BY <1>1 DEF PinAdded
<1> QED  BY <1>2, <1>3 DEF PinListed

LEMMA PinnedWindows ==
    ASSUME NEW a, NEW b, NEW m, NEW n, NEW last,
           Windowed(a), PinAdded(a, b, m, n), PinOwned(a, b, m, last)
    PROVE  Windowed(b)
<1>1. m \in Nat /\ 1 .. m + 1 = 1 .. m \cup {m + 1} /\ m + 1 \notin 1 .. m
  BY DEF PinAdded
<1>2. last \in Nat \ {0} /\ last \in 1 .. last
  BY DEF PinOwned
<1>3. a.components[last].first + a.components[last].count = m + 1
  BY <1>2, Zenon DEF Windowed, PinAdded, PinOwned
<1> DEFINE f == a.components[last].first
           c0 == a.components[last].count
<1>4. /\ f \in Nat /\ c0 \in Nat
      /\ b.components[last].first = f /\ b.components[last].count = c0 + 1
  BY Zenon DEF PinOwned
<1>4b. ComponentPins(a, last) = f .. f + c0 - 1 /\ ComponentPins(b, last) = f .. f + (c0 + 1) - 1
  BY <1>4, Zenon DEF ComponentPins
<1>4c. f + c0 = m + 1
  BY <1>3
<1> HIDE DEF f, c0
<1>5. b.components[last].first + b.components[last].count = (m + 1) + 1
  <2>1. f + (c0 + 1) = (m + 1) + 1
    BY <1>1, <1>4, <1>4c
  <2> QED  BY <1>4, <2>1
<1>6. ComponentPins(b, last) = ComponentPins(a, last) \cup {m + 1}
  <2>1. f .. f + (c0 + 1) - 1 = f .. f + c0 - 1 \cup {m + 1}
    BY <1>1, <1>4, <1>4c
  <2> QED  BY <1>4b, <2>1
<1>7. ASSUME NEW c \in 1 .. last
      PROVE  ComponentPins(b, c) = {k \in 1 .. m + 1 : b.pins[k].parent = c}
  <2>1. ComponentPins(a, c) = {k \in 1 .. m : a.pins[k].parent = c}
    BY Zenon DEF Windowed, PinAdded, PinOwned
  <2>2. \A k \in 1 .. m : b.pins[k].parent = a.pins[k].parent
    BY DEF PinAdded
  <2>3. b.pins[m + 1].parent = last
    BY DEF PinOwned
  <2>4. {k \in 1 .. m + 1 : b.pins[k].parent = c}
          = {k \in 1 .. m : a.pins[k].parent = c} \cup (IF c = last THEN {m + 1} ELSE {})
    BY <1>1, <2>2, <2>3
  <2>5. CASE c # last
    <3>1. ComponentPins(b, c) = ComponentPins(a, c)
      BY <2>5, Zenon DEF ComponentPins, PinOwned
    <3> QED  BY <2>1, <2>4, <2>5, <3>1
  <2>6. CASE c = last
    BY <1>6, <2>1, <2>4, <2>6
  <2> QED  BY <2>5, <2>6
<1>8. \A k \in 1 .. m + 1 : b.pins[k].parent \in 1 .. last
  <2>1. \A k \in 1 .. m : a.pins[k].parent \in 1 .. last
    BY Zenon DEF Windowed, PinAdded, PinOwned
  <2>2. b.pins[m + 1].parent = last /\ \A k \in 1 .. m : b.pins[k].parent = a.pins[k].parent
    BY DEF PinAdded, PinOwned
  <2> QED  BY <1>1, <1>2, <2>1, <2>2
<1>9. DOMAIN b.components = 1 .. last /\ DOMAIN b.pins = 1 .. m + 1
      /\ Len(b.components) = last /\ Len(b.pins) = m + 1
  BY DEF PinAdded, PinOwned
<1> QED  BY <1>5, <1>7, <1>8, <1>9, Zenon DEF Windowed

LEMMA Appended ==
    ASSUME NEW T, NEW s \in Seq(T), NEW e \in T
    PROVE  /\ Append(s, e) \in Seq(T)
           /\ Len(Append(s, e)) = Len(s) + 1
           /\ DOMAIN Append(s, e) = 1 .. Len(s) + 1 /\ DOMAIN s = 1 .. Len(s)
           /\ \A k \in 1 .. Len(s) : Append(s, e)[k] = s[k]
           /\ Append(s, e)[Len(s) + 1] = e
           /\ Len(s) \in Nat
  OBVIOUS

LEMMA Updated ==
    ASSUME NEW T, NEW s \in Seq(T), NEW i \in 1 .. Len(s), NEW e \in T
    PROVE  /\ [s EXCEPT ![i] = e] \in Seq(T)
           /\ Len([s EXCEPT ![i] = e]) = Len(s)
           /\ DOMAIN [s EXCEPT ![i] = e] = 1 .. Len(s)
           /\ \A k \in 1 .. Len(s) : k # i => [s EXCEPT ![i] = e][k] = s[k]
           /\ [s EXCEPT ![i] = e][i] = e
  OBVIOUS

NetType == [name : Nets, pins : SUBSET (Nat \ {0})]
ComponentType == [first : Nat \ {0}, count : Nat]
PinType == [parent : Nat, net : Nat]

(* An arena as its four parts, and its parts replaced one by one. *)
ArenaOf(N, M, C, P) == [nets |-> N, netNames |-> M, components |-> C, pins |-> P]

LEMMA SetPins ==
    ASSUME NEW N, NEW M, NEW C, NEW P, NEW X
    PROVE  [ArenaOf(N, M, C, P) EXCEPT !.pins = X] = ArenaOf(N, M, C, X)
  BY DEF ArenaOf

LEMMA SetComponents ==
    ASSUME NEW N, NEW M, NEW C, NEW P, NEW X
    PROVE  [ArenaOf(N, M, C, P) EXCEPT !.components = X] = ArenaOf(N, M, X, P)
  BY DEF ArenaOf

LEMMA SetNets ==
    ASSUME NEW N, NEW M, NEW C, NEW P, NEW X
    PROVE  [ArenaOf(N, M, C, P) EXCEPT !.nets = X] = ArenaOf(X, M, C, P)
  BY DEF ArenaOf

LEMMA PinOfRecord ==
    ASSUME NEW N, NEW M, NEW C, NEW P, NEW last
    PROVE  AddPin(ArenaOf(N, M, C, P), last) = ArenaOf(N, M, [C EXCEPT ![last].count = @ + 1], Append(P, [parent |-> last, net |-> UNCONNECTED]))
<1> DEFINE a == ArenaOf(N, M, C, P)
           X == Append(P, [parent |-> last, net |-> UNCONNECTED])
           Y == [C EXCEPT ![last].count = @ + 1]
<1>1. a.pins = P /\ a.components = C
  BY DEF ArenaOf
<1>2. AddPin(a, last) = [a EXCEPT !.pins = Append(a.pins, [parent |-> last, net |-> UNCONNECTED]), !.components = [a.components EXCEPT ![last].count = @ + 1]]
  BY DEF AddPin
<1>3. AddPin(a, last) = [a EXCEPT !.pins = X, !.components = Y]
  BY <1>1, <1>2
<1> HIDE DEF X, Y
<1>4. [a EXCEPT !.pins = X, !.components = Y] = [[a EXCEPT !.pins = X] EXCEPT !.components = Y]
  BY DEF ArenaOf
<1>5. [a EXCEPT !.pins = X] = ArenaOf(N, M, C, X)
  BY SetPins
<1>6. [ArenaOf(N, M, C, X) EXCEPT !.components = Y] = ArenaOf(N, M, Y, X)
  BY SetComponents
<1>7. AddPin(a, last) = ArenaOf(N, M, Y, X)
  BY <1>3, <1>4, <1>5, <1>6
<1> QED BY <1>7 DEF X, Y

LEMMA ConnectedRecord ==
    ASSUME NEW N, NEW M, NEW C, NEW P, NEW p, NEW n
    PROVE  ConnectPin(ArenaOf(N, M, C, P), p, n) = ArenaOf(ListPin(N, p, n), M, C, [P EXCEPT ![p].net = n])
<1> DEFINE a == ArenaOf(N, M, C, P)
           X == [P EXCEPT ![p].net = n]
           Y == ListPin(N, p, n)
<1>1. a.pins = P /\ a.nets = N
  BY DEF ArenaOf
<1>2. ConnectPin(a, p, n) = [a EXCEPT !.pins = [a.pins EXCEPT ![p].net = n], !.nets = ListPin(a.nets, p, n)]
  BY DEF ConnectPin
<1>3. ConnectPin(a, p, n) = [a EXCEPT !.pins = X, !.nets = Y]
  BY <1>1, <1>2
<1> HIDE DEF X, Y
<1>4. [a EXCEPT !.pins = X, !.nets = Y] = [[a EXCEPT !.pins = X] EXCEPT !.nets = Y]
  BY DEF ArenaOf
<1>5. [a EXCEPT !.pins = X] = ArenaOf(N, M, C, X)
  BY SetPins
<1>6. [ArenaOf(N, M, C, X) EXCEPT !.nets = Y] = ArenaOf(Y, M, C, X)
  BY SetNets
<1>7. ConnectPin(a, p, n) = ArenaOf(Y, M, C, X)
  BY <1>3, <1>4, <1>5, <1>6
<1> QED BY <1>7 DEF X, Y

LEMMA WithPinOK ==
    ASSUME NEW a, ArenaOK(a), a.components # <<>>, NEW name, IdOf(name) \in Nat
    PROVE  /\ ArenaOK(WithPin(a, name))
           /\ WithPin(a, name).components # <<>>
           /\ NetList(WithPin(a, name)) = NetList(a)
<1> DEFINE b == WithPin(a, name)
           m == Len(a.pins)
           last == Len(a.components)
           n == IdOf(name)
           bare == [parent |-> last, net |-> UNCONNECTED]
           pin == [parent |-> last, net |-> n]
           owner == [first |-> a.components[last].first, count |-> a.components[last].count + 1]
           Listed(i) == [name |-> a.nets[i].name,
                         pins |-> a.nets[i].pins \cup (IF i = n THEN {m + 1} ELSE {})]
<1>1. a \in ArenaType /\ Connected(a) /\ Windowed(a)
  BY DEF ArenaOK
<1>2. a = [nets |-> a.nets, netNames |-> a.netNames, components |-> a.components, pins |-> a.pins]
      /\ a.nets \in Seq(NetType) /\ a.netNames \in UNION {[S -> Nat] : S \in SUBSET Nets}
      /\ a.components \in Seq(ComponentType) /\ a.pins \in Seq(PinType)
  BY <1>1 DEF ArenaType, NetType, ComponentType, PinType
<1>3. m \in Nat /\ last \in Nat \ {0} /\ last \in 1 .. last
  BY <1>2
<1>4. bare \in PinType /\ pin \in PinType
  BY <1>3 DEF PinType, UNCONNECTED
<1>5. a.components[last] \in ComponentType
  BY <1>2, <1>3
<1>6. owner \in ComponentType /\ owner = [a.components[last] EXCEPT !.count = @ + 1]
  BY <1>5 DEF ComponentType
<1>7. b = [nets |-> ListPin(a.nets, m + 1, n),
           netNames |-> a.netNames,
           components |-> [a.components EXCEPT ![last] = owner],
           pins |-> [Append(a.pins, bare) EXCEPT ![m + 1] = pin]]
  <2> DEFINE C == [a.components EXCEPT ![last] = owner]
             P == Append(a.pins, bare)
  <2>1. [a.components EXCEPT ![last].count = @ + 1] = C
    BY <1>6
  <2>2. a = ArenaOf(a.nets, a.netNames, a.components, a.pins)
    BY <1>2 DEF ArenaOf
  <2>3. AddPin(a, last) = ArenaOf(a.nets, a.netNames, C, P)
    <3> HIDE DEF bare, C
    <3>1. AddPin(ArenaOf(a.nets, a.netNames, a.components, a.pins), last)
            = ArenaOf(a.nets, a.netNames, [a.components EXCEPT ![last].count = @ + 1],
                      Append(a.pins, [parent |-> last, net |-> UNCONNECTED]))
      BY PinOfRecord
    <3> QED  BY <2>1, <2>2, <3>1 DEF bare
  <2>4. Len(P) = m + 1 /\ P[m + 1] = bare /\ m + 1 \in DOMAIN P
    BY <1>2, <1>3, <1>4
  <2>5. [bare EXCEPT !.net = n] = pin
    OBVIOUS
  <2>6. [P EXCEPT ![m + 1].net = n] = [P EXCEPT ![m + 1] = pin]
    BY <2>4, <2>5
  <2> HIDE DEF P, C, pin, n
  <2>7. ArenaOf(a.nets, a.netNames, C, P).pins = P
    BY DEF ArenaOf
  <2>8. b = ConnectPin(ArenaOf(a.nets, a.netNames, C, P), m + 1, n)
    BY <2>3, <2>4, <2>7 DEF WithPin, n
  <2>9. b = ArenaOf(ListPin(a.nets, m + 1, n), a.netNames, C, [P EXCEPT ![m + 1] = pin])
    BY <2>6, <2>8, ConnectedRecord
  <2> QED  BY <2>9 DEF ArenaOf, P, C
<1> HIDE DEF b, bare, pin, owner, n
<1>8. /\ b.components = [a.components EXCEPT ![last] = owner]
      /\ b.pins = [Append(a.pins, bare) EXCEPT ![m + 1] = pin]
      /\ b.netNames = a.netNames
      /\ b = [nets |-> b.nets, netNames |-> b.netNames, components |-> b.components,
              pins |-> b.pins]
  BY <1>7
<1>9. DOMAIN b.nets = DOMAIN a.nets /\ DOMAIN a.nets = 1 .. Len(a.nets) /\ Len(a.nets) \in Nat
  BY <1>2, <1>7 DEF ListPin
<1>10. \A i \in DOMAIN a.nets : b.nets[i] = Listed(i) /\ Listed(i) \in NetType
  <2> SUFFICES ASSUME NEW i \in DOMAIN a.nets
               PROVE  b.nets[i] = Listed(i) /\ Listed(i) \in NetType
    OBVIOUS
  <2>1. a.nets[i] \in NetType
    BY <1>2
  <2>2. b.nets[i] = IF i = n THEN [a.nets[i] EXCEPT !.pins = @ \cup {m + 1}] ELSE a.nets[i]
    BY <1>7 DEF ListPin
  <2>3. b.nets[i] = Listed(i)
    BY <2>1, <2>2 DEF NetType
  <2> QED  BY <1>3, <2>1, <2>3 DEF NetType
<1>11. b.nets \in Seq(NetType)
  <2>1. b.nets = [i \in DOMAIN b.nets |-> b.nets[i]]
    BY <1>7 DEF ListPin
  <2>2. \A i \in 1 .. Len(a.nets) : b.nets[i] \in NetType
    <3> HIDE DEF Listed
    <3> QED  BY <1>9, <1>10
  <2>3. b.nets \in [1 .. Len(a.nets) -> NetType]
    <3> HIDE DEF Listed, NetType
    <3> QED  BY <1>9, <2>1, <2>2
  <2> QED  BY <1>9, <2>3
<1>12. /\ b.pins \in Seq(PinType) /\ Len(b.pins) = m + 1 /\ DOMAIN b.pins = 1 .. m + 1
       /\ DOMAIN a.pins = 1 .. m
       /\ \A k \in 1 .. m : b.pins[k] = a.pins[k]
       /\ b.pins[m + 1] = pin
  <2> DEFINE t == Append(a.pins, bare)
  <2>1. /\ t \in Seq(PinType) /\ Len(t) = m + 1 /\ DOMAIN a.pins = 1 .. m
        /\ \A k \in 1 .. m : t[k] = a.pins[k]
    BY <1>2, <1>4, Appended
  <2> HIDE DEF t
  <2>2. m + 1 \in 1 .. Len(t)
    BY <1>3, <2>1
  <2>3. /\ [t EXCEPT ![m + 1] = pin] \in Seq(PinType) /\ Len([t EXCEPT ![m + 1] = pin]) = Len(t)
        /\ DOMAIN [t EXCEPT ![m + 1] = pin] = 1 .. Len(t)
        /\ \A k \in 1 .. Len(t) : k # m + 1 => [t EXCEPT ![m + 1] = pin][k] = t[k]
        /\ [t EXCEPT ![m + 1] = pin][m + 1] = pin
    BY <1>4, <2>1, <2>2, Updated
  <2>4. b.pins = [t EXCEPT ![m + 1] = pin]
    BY <1>8 DEF t
  <2>5. \A k \in 1 .. m : k \in 1 .. m + 1 /\ k # m + 1
    BY <1>3
  <2> QED  BY <2>1, <2>3, <2>4, <2>5
<1>13. /\ b.components \in Seq(ComponentType) /\ Len(b.components) = last
       /\ DOMAIN b.components = 1 .. last /\ DOMAIN a.components = 1 .. last
       /\ \A c \in 1 .. last : c # last => b.components[c] = a.components[c]
       /\ b.components[last] = owner
  <2>1. DOMAIN a.components = 1 .. last
    BY <1>2
  <2> QED  BY <1>2, <1>3, <1>6, <1>8, <2>1, Updated
<1>14. b \in ArenaType
  <2>1. b.netNames \in UNION {[S -> Nat] : S \in SUBSET Nets}
    BY <1>2, <1>8
  <2> QED  BY <1>8, <1>11, <1>12, <1>13, <2>1 DEF ArenaType, NetType, ComponentType, PinType
<1>15. PinAdded(a, b, m, n)
  <2>1. b.pins[m + 1].net = n
    BY <1>12 DEF pin
  <2> QED  BY <1>3, <1>12, <2>1 DEF PinAdded
<1>16. PinOwned(a, b, m, last)
  <2>1. b.pins[m + 1].parent = last
    BY <1>12 DEF pin
  <2>2. /\ b.components[last].first = a.components[last].first
        /\ b.components[last].count = a.components[last].count + 1
    BY <1>13 DEF owner
  <2>3. a.components[last].first \in Nat /\ a.components[last].count \in Nat
    BY <1>5 DEF ComponentType
  <2> QED  BY <1>3, <1>13, <2>1, <2>2, <2>3 DEF PinOwned
<1>17. PinListed(a, b, m, n)
  <2>1. \A i \in DOMAIN a.nets : Listed(i).pins = a.nets[i].pins \cup (IF i = n THEN {m + 1} ELSE {})
    OBVIOUS
  <2> HIDE DEF Listed
  <2> QED  BY <1>9, <1>10, <2>1 DEF PinListed
<1>18. Connected(b) /\ Windowed(b)
  <2> HIDE DEF m, last
  <2> QED  BY <1>1, <1>15, <1>16, <1>17, PinnedNets, PinnedWindows
<1>19. NetList(b) = NetList(a)
  <2>1. \A i \in DOMAIN a.nets : Listed(i).name = a.nets[i].name
    OBVIOUS
  <2> HIDE DEF Listed
  <2> QED  BY <1>9, <1>10, <2>1, Zenon DEF NetList
<1>20. b.components # <<>>
  BY <1>3, <1>13
<1> QED  BY <1>14, <1>18, <1>19, <1>20 DEF ArenaOK, b

-----------------------------------------------------------------------------
(* Sequences, whatever their elements. *)
IsSeq(s) == s \in Seq({s[i] : i \in DOMAIN s})

LEMMA SeqFacts ==
    ASSUME NEW s, IsSeq(s)
    PROVE  Len(s) \in Nat /\ DOMAIN s = 1 .. Len(s) /\ DOMAIN s \subseteq Nat
  BY DEF IsSeq

LEMMA EmptySeq == IsSeq(<<>>) /\ Len(<<>>) = 0 /\ DOMAIN <<>> = {}
  BY DEF IsSeq

LEMMA OneSeq ==
    ASSUME NEW e
    PROVE  IsSeq(<<e>>) /\ DOMAIN <<e>> = {1} /\ <<e>>[1] = e
  BY DEF IsSeq

LEMMA SameDomainSeq ==
    ASSUME NEW s, NEW t, IsSeq(s), t = [i \in DOMAIN s |-> t[i]]
    PROVE  IsSeq(t)
<1>1. Len(s) \in Nat /\ DOMAIN s = 1 .. Len(s)
  BY SeqFacts
<1>2. t \in [1 .. Len(s) -> {t[i] : i \in DOMAIN t}]
  BY <1>1
<1> QED  BY <1>1, <1>2 DEF IsSeq

LEMMA AppendSeq ==
    ASSUME NEW s, NEW e, IsSeq(s)
    PROVE  /\ IsSeq(Append(s, e)) /\ Len(Append(s, e)) = Len(s) + 1
           /\ \A i \in DOMAIN Append(s, e) : \/ Append(s, e)[i] = e
                                             \/ i \in DOMAIN s /\ Append(s, e)[i] = s[i]
<1> DEFINE T == {s[i] : i \in DOMAIN s} \cup {e}
           t == Append(s, e)
<1>1. s \in Seq(T) /\ e \in T
  BY DEF IsSeq
<1> HIDE DEF T
<1>2. /\ t \in Seq(T) /\ Len(t) = Len(s) + 1 /\ Len(s) \in Nat
      /\ DOMAIN t = 1 .. Len(s) + 1 /\ DOMAIN s = 1 .. Len(s)
      /\ \A k \in 1 .. Len(s) : t[k] = s[k]
      /\ t[Len(s) + 1] = e
  BY <1>1, Appended
<1> HIDE DEF t
<1>3. IsSeq(t)
  BY <1>2 DEF IsSeq
<1>4. \A i \in DOMAIN t : t[i] = e \/ (i \in DOMAIN s /\ t[i] = s[i])
  BY <1>2
<1> QED  BY <1>2, <1>3, <1>4 DEF t

LEMMA ConcatSeq ==
    ASSUME NEW s, NEW t, IsSeq(s), IsSeq(t)
    PROVE  /\ IsSeq(s \o t) /\ Len(s \o t) = Len(s) + Len(t)
           /\ \A i \in DOMAIN (s \o t) : \/ \E j \in DOMAIN s : (s \o t)[i] = s[j]
                                         \/ \E j \in DOMAIN t : (s \o t)[i] = t[j]
<1> DEFINE T == {s[i] : i \in DOMAIN s} \cup {t[i] : i \in DOMAIN t}
           u == s \o t
<1>1. s \in Seq(T) /\ t \in Seq(T)
  BY DEF IsSeq
<1> HIDE DEF T
<1>2. u \in Seq(T) /\ Len(u) = Len(s) + Len(t)
  BY <1>1
<1> HIDE DEF u
<1>3. IsSeq(u)
  BY <1>2 DEF IsSeq
<1>4. \A i \in DOMAIN u : u[i] \in T
  BY <1>2
<1> QED  BY <1>2, <1>3, <1>4 DEF u, T

-----------------------------------------------------------------------------
(* A device's table of terminals and ports. *)

(* One turn of the walk over the terminals' ports. *)
Mapped(device, t, nets) ==
    IF device.ports[t] \in DOMAIN nets THEN Put(nets, t, nets[device.ports[t]]) ELSE nets
(* The tables of the walk, turn by turn. *)
Walked(device, order, m, n) ==
    /\ m[0] = SeededNets(device)
    /\ \A k \in 1 .. n : m[k] = Mapped(device, order[k], m[k - 1])

LEMMA WalkExists ==
    ASSUME NEW device, NEW order, Len(order) \in Nat
    PROVE  \E m : Walked(device, order, m, Len(order)) /\ TerminalNets(device, order) = m[Len(order)]
<1> DEFINE N == Len(order)
           At2(m, k) == IF k = 0 THEN SeededNets(device) ELSE Mapped(device, order[k], m[k - 1])
           Upto(m, n) == m = [k \in 0 .. n |-> At2(m, k)]
           S == {n \in 0 .. N : \E m : Upto(m, n)}
<1>1. ASSUME NEW n \in 0 .. N, \A j \in 0 .. n - 1 : j \in S
      PROVE  n \in S
  <2>1. CASE n = 0
    <3> DEFINE m == [k \in 0 .. 0 |-> SeededNets(device)]
    <3>1. Upto(m, 0)
      OBVIOUS
    <3> QED  BY <2>1, <3>1
  <2>2. CASE n # 0
    <3>1. n - 1 \in S
      <4>1. n - 1 \in 0 .. n - 1
        BY <2>2
      <4> HIDE DEF S
      <4> QED  BY <4>1, <1>1
    <3>2. PICK m : Upto(m, n - 1)
      BY <3>1
    <3> DEFINE more == [k \in 0 .. n |-> At2(m, k)]
    <3>3. \A k \in 0 .. n - 1 : m[k] = At2(m, k)
      BY <3>2
    <3>4. \A k \in 0 .. n - 1 : more[k] = m[k]
      BY <3>3
    <3>5. \A k \in 0 .. n : At2(more, k) = At2(m, k)
      <4>1. \A k \in 0 .. n : k = 0 \/ more[k - 1] = m[k - 1]
        <5> HIDE DEF more
        <5> QED  BY <3>4
      <4> HIDE DEF more
      <4> QED  BY <4>1
    <3>6. Upto(more, n)
      BY <3>5
    <3> QED  BY <3>6
  <2> QED  BY <2>1, <2>2
<1> HIDE DEF S
<1>2. N \in S
  <2>1. \A n \in 0 .. N : n \in S
    BY <1>1, Climb
  <2> QED  BY <2>1
<1>3. PICK m : Upto(m, N)
  BY <1>2 DEF S
<1> DEFINE M == CHOOSE f : Upto(f, N)
<1>4. Upto(M, N)
  BY <1>3
<1>5. TerminalNets(device, order) = M[N]
  BY DEF TerminalNets, Mapped
<1> HIDE DEF M
<1>6. \A k \in 0 .. N : M[k] = At2(M, k)
  BY <1>4
<1>7. Walked(device, order, M, N)
  BY <1>6 DEF Walked
<1> QED  BY <1>5, <1>7

LEMMA NameIsKnown ==
    ASSUME NEW id
    PROVE  NameOf(id) \in Known(DOMAIN ids)
  BY DEF NameOf, Known

(* Every net of the table is None or a name the emitter knows. *)
LEMMA TableNets ==
    ASSUME NEW device, NEW order, Len(order) \in Nat
    PROVE  \A x \in DOMAIN TerminalNets(device, order) :
              TerminalNets(device, order)[x] \in Known(DOMAIN ids)
<1> DEFINE N == Len(order)
<1>1. PICK m : Walked(device, order, m, N) /\ TerminalNets(device, order) = m[N]
  BY WalkExists
<1> DEFINE S == {k \in 0 .. N : \A x \in DOMAIN m[k] : m[k][x] \in Known(DOMAIN ids)}
<1>2. \A x \in DOMAIN SeededNets(device) : SeededNets(device)[x] \in Known(DOMAIN ids)
  BY NameIsKnown, Zenon DEF SeededNets
<1>3. ASSUME NEW k \in 0 .. N, \A j \in 0 .. k - 1 : j \in S
      PROVE  k \in S
  <2>1. CASE k = 0
    BY <1>1, <1>2, <2>1 DEF Walked
  <2>2. CASE k # 0
    <3>1. k - 1 \in S /\ m[k] = Mapped(device, order[k], m[k - 1])
      BY <1>1, <1>3, <2>2 DEF Walked
    <3> DEFINE before == m[k - 1]
               p == device.ports[order[k]]
    <3>2. \A x \in DOMAIN before : before[x] \in Known(DOMAIN ids)
      BY <3>1
    <3>3. m[k] = IF p \in DOMAIN before THEN Put(before, order[k], before[p]) ELSE before
      BY <3>1 DEF Mapped
    <3> HIDE DEF before, p
    <3>4. \A x \in DOMAIN m[k] : m[k][x] \in Known(DOMAIN ids)
      <4> DEFINE after == Put(before, order[k], before[p])
      <4>1. /\ DOMAIN after = DOMAIN before \cup {order[k]} /\ after[order[k]] = before[p]
            /\ \A y \in DOMAIN before : y # order[k] => after[y] = before[y]
        BY DEF Put
      <4>2. m[k] = IF p \in DOMAIN before THEN after ELSE before
        BY <3>3
      <4> HIDE DEF after
      <4> QED  BY <3>2, <4>1, <4>2
    <3> QED  BY <3>4
  <2> QED  BY <2>1, <2>2
<1> HIDE DEF S
<1>4. N \in S
  <2>1. \A k \in 0 .. N : k \in S
    BY <1>3, Climb
  <2> QED  BY <2>1
<1> QED  BY <1>1, <1>4 DEF S

LEMMA OrderFacts ==
    ASSUME NEW T, IsFiniteSet(T), NEW order \in Orders(T)
    PROVE  /\ Len(order) \in Nat /\ DOMAIN order = 1 .. Len(order)
           /\ \A i \in 1 .. Len(order) : order[i] \in T
           /\ \A x \in T : \E i \in 1 .. Len(order) : order[i] = x
<1>1. Cardinality(T) \in Nat
  BY FS_CardinalityType
<1>2. order \in [1 .. Cardinality(T) -> T] /\ \A x \in T : \E i \in DOMAIN order : order[i] = x
  BY DEF Orders
<1>3. order \in Seq(T) /\ Len(order) = Cardinality(T)
  BY <1>1, <1>2
<1> QED  BY <1>1, <1>2, <1>3

(* A routed port keeps its net through the walk, and gives it to its terminals,
   if no other terminal bears its name. *)
LEMMA TableOnPorts ==
    ASSUME NEW device, IsFiniteSet(DOMAIN device.ports), PortsApart(device),
           NEW order \in Orders(DOMAIN device.ports), NEW t \in DOMAIN device.ports,
           device.ports[t] \in DOMAIN SeededNets(device)
    PROVE  /\ t \in DOMAIN TerminalNets(device, order)
           /\ TerminalNets(device, order)[t] = SeededNets(device)[device.ports[t]]
<1> DEFINE N == Len(order)
           P == device.ports[t]
           net == SeededNets(device)[P]
<1>1. /\ N \in Nat /\ \A i \in 1 .. N : order[i] \in DOMAIN device.ports
      /\ \E i \in 1 .. N : order[i] = t
  BY OrderFacts
<1>2. PICK m : Walked(device, order, m, N) /\ TerminalNets(device, order) = m[N]
  BY <1>1, WalkExists
<1> DEFINE Holds(k) == /\ P \in DOMAIN m[k] /\ m[k][P] = net
                       /\ \A i \in 1 .. k : order[i] = t => t \in DOMAIN m[k] /\ m[k][t] = net
           S == {k \in 0 .. N : Holds(k)}
<1>3. ASSUME NEW k \in 0 .. N, \A j \in 0 .. k - 1 : j \in S
      PROVE  k \in S
  <2>1. CASE k = 0
    <3>1. m[k] = SeededNets(device)
      BY <1>2, <2>1 DEF Walked
    <3> QED  BY <2>1, <3>1
  <2>2. CASE k # 0
    <3> DEFINE before == m[k - 1]
               u == order[k]
               q == device.ports[u]
    <3>1. k - 1 \in S /\ k \in 1 .. N
      <4>1. k - 1 \in 0 .. k - 1 /\ k \in 1 .. N
        BY <1>1, <2>2
      <4> HIDE DEF S
      <4> QED  BY <1>3, <4>1
    <3>2. m[k] = IF q \in DOMAIN before THEN Put(before, u, before[q]) ELSE before
      BY <1>2, <3>1 DEF Walked, Mapped
    <3>3. /\ P \in DOMAIN before /\ before[P] = net
          /\ \A i \in 1 .. k - 1 : order[i] = t => t \in DOMAIN before /\ before[t] = net
      BY <3>1
    <3>4. u \in DOMAIN device.ports
      BY <1>1, <3>1
    <3>5. u = P => q = P
      BY <3>4 DEF PortsApart
    <3>6. u = t => q = P
      OBVIOUS
    <3>7. \A i \in 1 .. k : i \in 1 .. k - 1 \/ (i = k /\ order[i] = u)
      BY <3>1
    <3> DEFINE after == Put(before, u, before[q])
    <3>8. /\ DOMAIN after = DOMAIN before \cup {u} /\ after[u] = before[q]
           /\ \A y \in DOMAIN before : y # u => after[y] = before[y]
      BY DEF Put
    <3>9. m[k] = IF q \in DOMAIN before THEN after ELSE before
      BY <3>2
    <3> HIDE DEF before, u, q, P, net, after
    <3>10. P \in DOMAIN m[k] /\ m[k][P] = net
      BY <3>3, <3>5, <3>8, <3>9
    <3>11. u = t => t \in DOMAIN m[k] /\ m[k][t] = net
      BY <3>3, <3>6, <3>8, <3>9
    <3>12. u # t /\ t \in DOMAIN before => t \in DOMAIN m[k] /\ m[k][t] = before[t]
      BY <3>8, <3>9
    <3>13. Holds(k)
      BY <3>3, <3>7, <3>10, <3>11, <3>12
    <3> QED  BY <3>13
  <2> QED  BY <2>1, <2>2
<1> HIDE DEF S
<1>4. N \in S
  <2>1. \A k \in 0 .. N : k \in S
    BY <1>1, <1>3, Climb
  <2> QED  BY <1>1, <2>1
<1>5. Holds(N)
  BY <1>4 DEF S
<1> QED  BY <1>1, <1>2, <1>5

(* What the seeded table has at a port with netted ends: the net of one of them. *)
LEMMA SeededPorts ==
    ASSUME IsSeq(emitted["routes"]), NEW device, NEW port, DeviceEnds(device, port) # {}
    PROVE  /\ port \in DOMAIN SeededNets(device)
           /\ \E j \in DeviceEnds(device, port) : SeededNets(device)[port] = NameOf(RouteOf(j).net)
<1> DEFINE E == DeviceEnds(device, port)
<1>1. 2 * Len(emitted["routes"]) \in Nat
  <2>1. Len(emitted["routes"]) \in Nat
    BY SeqFacts
  <2> QED  BY <2>1
<1>2. E \in SUBSET (1 .. 2 * Len(emitted["routes"]))
  BY DEF DeviceEnds, NettedEnds, PortEnds, Ends
<1>3. port \in RoutedPorts(device)
  BY DEF DeviceEnds, RoutedPorts
<1> HIDE DEF E
<1>4. Max(E) \in E
  BY <1>1, <1>2, MaxIsIn DEF E
<1>5. /\ port \in DOMAIN SeededNets(device)
      /\ SeededNets(device)[port] = NameOf(RouteOf(Max(E)).net)
  BY <1>3 DEF SeededNets, E
<1> QED  BY <1>4, <1>5 DEF E

-----------------------------------------------------------------------------
(* The inductive invariant, in parts. *)

Building == {"nets"} \cup Kinds

Control ==
    /\ program \in Programs /\ cur \in DOMAIN program
    /\ phase \in {"evaluate", "done", "failed"} \cup Building /\ pos \in Nat
    /\ phase = "evaluate" => pos =< Len(Space.nets)
    /\ phase \in Building => pos =< LoopEnd
Records ==
    /\ DOMAIN emitted = Kinds /\ \A kind \in Kinds : IsSeq(emitted[kind])
    /\ \A i \in DOMAIN emitted["routes"] : IsSeq(emitted["routes"][i].legs)
    /\ \A i \in DOMAIN emitted["devices"] : IsFiniteSet(DOMAIN emitted["devices"][i].ports)
    /\ DOMAIN made = Kinds /\ \A kind \in Kinds : IsSeq(made[kind])
Handles ==
    /\ IsFiniteSet(DOMAIN ids) /\ DOMAIN ids \subseteq Nets
    /\ \A n \in DOMAIN ids : ids[n] \in 1 .. Cardinality(DOMAIN ids)
    /\ HandlesAreDistinct
Finished ==
    /\ IsSeq(spaces) /\ Len(spaces) =< Len(program)
    /\ phase = "evaluate" => Len(spaces) = 0
    /\ phase \in Building => Len(spaces) = cur - 1

(* Every shape but a device's terminals carries the emitter's id for its net's name. *)
Named(shape) == shape.net # None => shape.net \in DOMAIN ids /\ shape.id = ids[shape.net]
ShapesNamed ==
    \A kind \in Kinds \ {"devices"} : \A i \in DOMAIN made[kind] : Named(made[kind][i])

(* The contacts carry ids that were allocated, and are lowered only when no more
   pours will be. *)
Allocated(id) == id = UNCONNECTED \/ \E n \in DOMAIN ids : ids[n] = id
Contacts ==
    /\ \A i \in DOMAIN emitted["contacts"] : Allocated(emitted["contacts"][i].net)
    /\ phase = "polygons" => made["contacts"] = <<>>
    /\ NoStrayContact

(* The bindings of a device carry the emitter's ids, and the nets of their ports. *)
DeviceOK(device) ==
    /\ \A b \in device.bindings : Named(b)
    /\ PortsApart(device) => \A b \in device.bindings : OnItsPort(device, b)
Devices == \A i \in DOMAIN made["devices"] : DeviceOK(made["devices"][i])

(* The netlist has the space's nets, up to k of them. *)
NetsRead(k) ==
    /\ Len(arena.nets) = k
    /\ \A i \in DOMAIN arena.nets : arena.nets[i].name = Space.nets[i]
Netlist ==
    /\ ArenaOK(arena)
    /\ phase = "evaluate" => arena = NewArena
    /\ phase \in {"evaluate", "nets"} => arena.pins = <<>> /\ made = Nothing
    /\ phase = "nets" => NetsRead(pos)
    /\ phase \in Kinds => NetsRead(Len(Space.nets))

(* The emitter numbers the first k nets of the space as the space does. *)
Numbered(k) ==
    /\ DOMAIN ids = {Space.nets[i] : i \in 1 .. k} /\ Cardinality(DOMAIN ids) = k
    /\ \A i \in 1 .. k : ids[Space.nets[i]] = i
Numbering ==
    Aligned => /\ phase = "evaluate" /\ cur = 1 => Numbered(pos)
               /\ phase = "evaluate" /\ cur # 1 => Numbered(Len(Space.nets))
               /\ phase \in Building => Numbered(Len(Space.nets))

IInv == Control /\ Records /\ Handles /\ Finished /\ ShapesNamed /\ Netlist /\ Numbering
        /\ NetIdsAgree /\ BindingsAgree /\ Contacts /\ Devices

-----------------------------------------------------------------------------
(* What the steps are, for the invariant: a lowering step of any kind appends
   named shapes, and leaves the nets' names alone. *)

(* No pour lowered so far meets a contact that has no net. *)
NotStray(contact) ==
    \A k \in DOMAIN made["polygons"] : contact.net = None => ~ Meets(contact, made["polygons"][k])

Emitted ==
    \E kind, record :
        /\ kind \in Kinds
        /\ Emit(kind, record)
        /\ kind = "routes" => IsSeq(record.legs)
        /\ kind = "devices" => IsFiniteSet(DOMAIN record.ports)
        /\ kind = "contacts" => Allocated(record.net)
Lowered ==
    \E kind, records, netlist :
        /\ kind \in Kinds
        /\ phase = kind /\ pos < Len(emitted[kind])
        /\ Lower(kind, records, netlist)
        /\ IsSeq(records) /\ ArenaOK(netlist) /\ NetList(netlist) = NetList(arena)
        /\ kind # "devices" => \A i \in DOMAIN records : Named(records[i])
        /\ kind = "devices" => \A i \in DOMAIN records : DeviceOK(records[i])
        /\ kind = "contacts" => \A i \in DOMAIN records : NotStray(records[i])

LEMMA ProgramFacts ==
    ASSUME Control
    PROVE  /\ Space.nets \in Seq(Nets) /\ Len(Space.nets) \in Nat
           /\ DOMAIN Space.nets = 1 .. Len(Space.nets)
           /\ Len(program) \in Nat /\ DOMAIN program = 1 .. Len(program)
           /\ cur \in 1 .. Len(program)
           /\ \A s \in DOMAIN program : Len(program[s].nets) \in Nat
<1> DEFINE S == [nets : Seq(Nets), layers : SUBSET Layers, routable : SUBSET Layers]
<1>1. program \in Seq(S) /\ cur \in DOMAIN program
  BY ProgramsAreSpaces DEF Control
<1> HIDE DEF S
<1>2. Space \in S /\ Len(program) \in Nat /\ DOMAIN program = 1 .. Len(program)
  BY <1>1 DEF Space
<1>3. Space.nets \in Seq(Nets)
  BY <1>2 DEF S
<1>4. Len(Space.nets) \in Nat /\ DOMAIN Space.nets = 1 .. Len(Space.nets)
  BY <1>3
<1>5. \A s \in DOMAIN program : program[s] \in S
  BY <1>1
<1>6. \A s \in DOMAIN program : Len(program[s].nets) \in Nat
  BY <1>5 DEF S
<1> QED  BY <1>1, <1>2, <1>3, <1>4, <1>6

LEMMA IdFacts ==
    ASSUME Handles
    PROVE  /\ \A name : IdOf(name) \in Nat
           /\ \A name \in DOMAIN ids : IdOf(name) = ids[name]
<1>1. Cardinality(DOMAIN ids) \in Nat
  BY FS_CardinalityType DEF Handles
<1> QED  BY <1>1 DEF Handles, IdOf, UNCONNECTED

(* A name looked up from an id is the name the id was allocated to. *)
LEMMA NameFacts ==
    ASSUME NEW id, NameOf(id) # None
    PROVE  NameOf(id) \in DOMAIN ids /\ ids[NameOf(id)] = id
  BY DEF NameOf

LEMMA WithPourOK ==
    ASSUME Handles, ArenaOK(arena), NEW net
    PROVE  /\ ArenaOK(WithPour(net)) /\ NetList(WithPour(net)) = NetList(arena)
           /\ ArenaOK(WithContact(net)) /\ NetList(WithContact(net)) = NetList(arena)
<1> DEFINE a == AddComponent(arena)
           b == WithPin(a, net)
           c == WithPin(b, net)
<1>1. IdOf(net) \in Nat
  BY IdFacts
<1>2. ArenaOK(a) /\ a.components # <<>> /\ a.nets = arena.nets
  BY AddComponentOK
<1>3. NetList(a) = NetList(arena)
  BY <1>2 DEF NetList
<1> HIDE DEF a
<1>4. ArenaOK(b) /\ b.components # <<>> /\ NetList(b) = NetList(a)
  BY <1>1, <1>2, WithPinOK
<1> HIDE DEF b
<1>5. ArenaOK(c) /\ NetList(c) = NetList(b)
  BY <1>1, <1>4, WithPinOK
<1> HIDE DEF c
<1>6. /\ WithPour(net) = IF net = None THEN arena ELSE c
      /\ WithContact(net) = IF net = None THEN arena ELSE b
  BY DEF WithPour, WithContact, a, b, c
<1> QED  BY <1>3, <1>4, <1>5, <1>6

LEMMA PolygonLowered ==
    ASSUME IInv, LowerPolygon
    PROVE  Lowered
<1> DEFINE net == PolygonNet(Current("polygons"))
           poly == Current("polygons")
           record == [space |-> poly.space, layer |-> poly.layer, net |-> net,
                      id |-> IdOf(net), area |-> poly.area]
<1>1. phase = "polygons" /\ pos < Len(emitted["polygons"])
  BY DEF LowerPolygon, At
<1>2. Lower("polygons", <<record>>, WithPour(net))
  BY DEF LowerPolygon
<1>3. net # None => net \in DOMAIN ids
  <2> SUFFICES ASSUME net # None PROVE net \in DOMAIN ids
    OBVIOUS
  <2>1. \E id : net = NameOf(id)
    BY Zenon DEF PolygonNet
  <2> QED  BY <2>1, NameFacts
<1>4. Named(record)
  BY <1>3, IdFacts DEF IInv, Named
<1>5. ArenaOK(WithPour(net)) /\ NetList(WithPour(net)) = NetList(arena)
  BY WithPourOK DEF IInv, Netlist
<1> HIDE DEF record, net
<1>6. IsSeq(<<record>>) /\ \A i \in DOMAIN <<record>> : Named(<<record>>[i])
  BY <1>4, OneSeq
<1>7. "polygons" \in Kinds
  BY DEF Kinds
<1> QED  BY <1>1, <1>2, <1>5, <1>6, <1>7 DEF Lowered

LEMMA ContactLowered ==
    ASSUME IInv, LowerContact
    PROVE  Lowered
<1> DEFINE contact == Current("contacts")
           net == ContactNet(contact)
           record == [space |-> contact.space, from |-> contact.from, to |-> contact.to,
                      net |-> net, id |-> IdOf(net), area |-> contact.area]
           met == {i \in DOMAIN made.polygons : Meets(contact, made.polygons[i])}
<1>1. phase = "contacts" /\ pos < Len(emitted["contacts"])
  BY DEF LowerContact, At
<1>2. Lower("contacts", <<record>>, WithContact(net))
  BY DEF LowerContact
<1>3. net # None => net \in DOMAIN ids
  <2> SUFFICES ASSUME net # None PROVE net \in DOMAIN ids
    OBVIOUS
  <2>1. CASE contact.net # UNCONNECTED
    <3>1. net = NameOf(contact.net)
      BY <2>1 DEF ContactNet
    <3> QED  BY <3>1, NameFacts
  <2>2. CASE contact.net = UNCONNECTED /\ met # {}
    <3>1. net = made.polygons[Min(met)].net
      BY <2>2 DEF ContactNet
    <3>2. met \subseteq Nat
      BY SeqFacts DEF IInv, Records, Kinds
    <3>3. Min(met) \in met
      <4> HIDE DEF met
      <4> QED  BY <2>2, <3>2, MinIsIn
    <3>4. Named(made.polygons[Min(met)])
      BY <3>3 DEF IInv, ShapesNamed, Kinds
    <3> QED  BY <3>1, <3>4 DEF Named
  <2>3. CASE contact.net = UNCONNECTED /\ met = {}
    BY <2>3 DEF ContactNet
  <2> QED  BY <2>1, <2>2, <2>3
<1>4. Named(record)
  BY <1>3, IdFacts DEF IInv, Named
<1>5. NotStray(record)
  <2> SUFFICES ASSUME NEW k \in DOMAIN made.polygons, net = None, Meets(contact, made.polygons[k])
               PROVE  FALSE
    BY DEF NotStray, Meets
  <2>1. contact.net = UNCONNECTED
    <3> SUFFICES ASSUME contact.net # UNCONNECTED PROVE FALSE
      OBVIOUS
    <3>1. pos + 1 \in DOMAIN emitted["contacts"]
      BY <1>1, SeqFacts DEF IInv, Control, Records, Kinds
    <3>2. \E n \in DOMAIN ids : ids[n] = contact.net
      BY <3>1 DEF IInv, Contacts, Allocated, Current
    <3>3. NameOf(contact.net) \in DOMAIN ids
      BY <3>2 DEF NameOf
    <3>4. None \notin DOMAIN ids
      BY NoneIsApart DEF IInv, Handles
    <3>5. net = NameOf(contact.net)
      BY DEF ContactNet
    <3> QED  BY <3>3, <3>4, <3>5
  <2>2. k \in met
    OBVIOUS
  <2>3. net = made.polygons[Min(met)].net
    BY <2>1, <2>2 DEF ContactNet
  <2>4. met \subseteq Nat
    BY SeqFacts DEF IInv, Records, Kinds
  <2>5. Min(met) \in met
    <3> HIDE DEF met
    <3> QED  BY <2>2, <2>4, MinIsIn
  <2>6. made.polygons[Min(met)].net # None
    BY <2>5 DEF Meets
  <2> QED  BY <2>3, <2>6
<1>6. ArenaOK(WithContact(net)) /\ NetList(WithContact(net)) = NetList(arena)
  BY WithPourOK DEF IInv, Netlist
<1> HIDE DEF record, net
<1>7. IsSeq(<<record>>) /\ \A i \in DOMAIN <<record>> : Named(<<record>>[i]) /\ NotStray(<<record>>[i])
  BY <1>4, <1>5, OneSeq
<1>8. "contacts" \in Kinds
  BY DEF Kinds
<1> QED  BY <1>1, <1>2, <1>6, <1>7, <1>8 DEF Lowered

LEMMA DeviceLowered ==
    ASSUME IInv, LowerDevice
    PROVE  Lowered
<1> DEFINE device == Current("devices")
<1>1. phase = "devices" /\ pos < Len(emitted["devices"])
  BY DEF LowerDevice, At
<1>2. pos + 1 \in DOMAIN emitted["devices"]
  BY <1>1, SeqFacts DEF IInv, Control, Records, Kinds
<1>3. IsFiniteSet(DOMAIN device.ports) /\ IsSeq(emitted["routes"])
  BY <1>2 DEF IInv, Records, Current, Kinds
<1> HIDE DEF device
<1>4. PICK order \in Orders(DOMAIN device.ports) :
         LET nets == TerminalNets(device, order)
             Net(t) == IF t \in DOMAIN nets THEN nets[t] ELSE None
         IN Lower("devices",
                  <<[space |-> device.space, instance |-> device.instance,
                     terminals |-> DOMAIN device.terminals, ports |-> device.ports,
                     nets |-> nets,
                     bindings |-> {[terminal |-> t, port |-> device.ports[t],
                                    net |-> Net(t), id |-> IdOf(Net(t))] :
                                   t \in {u \in DOMAIN device.ports : Landed(device.ports[u])}}]>>,
                  arena)
  BY Zenon DEF LowerDevice, device
<1> DEFINE nets == TerminalNets(device, order)
           Net(t) == IF t \in DOMAIN nets THEN nets[t] ELSE None
           Binding(t) == [terminal |-> t, port |-> device.ports[t], net |-> Net(t), id |-> IdOf(Net(t))]
           landed == {u \in DOMAIN device.ports : Landed(device.ports[u])}
           bindings == {Binding(t) : t \in landed}
           record == [space |-> device.space, instance |-> device.instance,
                      terminals |-> DOMAIN device.terminals, ports |-> device.ports,
                      nets |-> nets, bindings |-> bindings]
<1>5. Lower("devices", <<record>>, arena)
  BY <1>4
<1>6. \A t : Net(t) \in Known(DOMAIN ids)
  <2>1. Len(order) \in Nat
    BY <1>3, OrderFacts
  <2>2. \A x \in DOMAIN nets : nets[x] \in Known(DOMAIN ids)
    BY <2>1, TableNets
  <2> HIDE DEF nets
  <2> QED  BY <2>2 DEF Known
<1>7. \A t : Named(Binding(t))
  <2> HIDE DEF Net
  <2>1. \A t : Binding(t).net = Net(t) /\ Binding(t).id = IdOf(Net(t))
    OBVIOUS
  <2> HIDE DEF Binding
  <2> QED  BY <1>6, <2>1, IdFacts DEF IInv, Named, Known
<1>8. ASSUME PortsApart(record), NEW t \in landed
      PROVE  OnItsPort(record, Binding(t))
  <2> DEFINE P == device.ports[t]
  <2>1. DeviceEnds(record, P) = DeviceEnds(device, P)
    BY DEF DeviceEnds
  <2>2. PortsApart(device)
    BY <1>8 DEF PortsApart
  <2>3. Binding(t).port = P /\ Binding(t).net = Net(t)
    OBVIOUS
  <2>4. CASE DeviceEnds(device, P) = {}
    <3> HIDE DEF Binding, record
    <3> QED  BY <2>1, <2>3, <2>4 DEF OnItsPort
  <2>5. CASE DeviceEnds(device, P) # {}
    <3>1. PICK j \in DeviceEnds(device, P) :
              P \in DOMAIN SeededNets(device) /\ SeededNets(device)[P] = NameOf(RouteOf(j).net)
      BY <1>3, <2>5, SeededPorts
    <3>2. t \in DOMAIN nets /\ nets[t] = SeededNets(device)[P]
      BY <1>3, <2>2, <3>1, TableOnPorts
    <3>3. Binding(t).net = NameOf(RouteOf(j).net)
      BY <2>3, <3>1, <3>2
    <3> HIDE DEF Binding, record, P
    <3> QED  BY <2>1, <2>3, <3>1, <3>3 DEF OnItsPort
  <2> QED  BY <2>4, <2>5
<1>9. DeviceOK(record)
  <2>1. record.bindings = bindings
    OBVIOUS
  <2> HIDE DEF Binding, record, landed
  <2> QED  BY <1>7, <1>8, <2>1, Zenon DEF DeviceOK
<1> HIDE DEF record
<1>10. IsSeq(<<record>>) /\ \A i \in DOMAIN <<record>> : DeviceOK(<<record>>[i])
  BY <1>9, OneSeq
<1>11. ArenaOK(arena) /\ "devices" \in Kinds
  BY DEF IInv, Netlist, Kinds
<1> QED  BY <1>1, <1>5, <1>10, <1>11 DEF Lowered

LEMMA RouteLowered ==
    ASSUME IInv, LowerRoute
    PROVE  Lowered
<1> DEFINE route == Current("routes")
           Trace(leg) == [space |-> route.space, layer |-> LegLayer(route, leg),
                          id |-> LegNet(route, leg), net |-> NameOf(LegNet(route, leg)),
                          ends |-> {leg.from.at, leg.to.at}]
           records == [i \in DOMAIN route.legs |-> Trace(route.legs[i])]
<1>1. phase = "routes" /\ pos < Len(emitted["routes"])
  BY DEF LowerRoute, At
<1>2. Lower("routes", records, arena)
  BY DEF LowerRoute
<1>3. IsSeq(records)
  <2>1. pos + 1 \in DOMAIN emitted["routes"]
    BY <1>1, SeqFacts DEF IInv, Control, Records, Kinds
  <2>2. IsSeq(route.legs)
    BY <2>1 DEF IInv, Records, Current
  <2>3. records = [i \in DOMAIN route.legs |-> records[i]]
    OBVIOUS
  <2> HIDE DEF records, route
  <2> QED  BY <2>2, <2>3, SameDomainSeq
<1>4. \A leg : Named(Trace(leg))
  BY NameFacts DEF Named
<1>5. \A i \in DOMAIN records : Named(records[i])
  <2> SUFFICES ASSUME NEW i \in DOMAIN records PROVE Named(records[i])
    OBVIOUS
  <2>1. records[i] = Trace(route.legs[i])
    OBVIOUS
  <2> HIDE DEF records, Trace
  <2> QED  BY <1>4, <2>1
<1>6. ArenaOK(arena) /\ "routes" \in Kinds
  BY DEF IInv, Netlist, Kinds
<1> HIDE DEF records
<1> QED  BY <1>1, <1>2, <1>3, <1>5, <1>6 DEF Lowered

LEMMA RouteEmitted ==
    ASSUME NEW s \in RouteShapes, EmitRoute(s)
    PROVE  Emitted
<1> DEFINE Stamped(e) == [e EXCEPT !.net = IdOf(@)]
           legs == [i \in DOMAIN s.legs |-> [from |-> Stamped(s.legs[i].from),
                                             to |-> Stamped(s.legs[i].to)]]
           record == [space |-> cur, bundle |-> s.bundle, net |-> IdOf(s.net),
                      layer |-> s.layer, legs |-> legs]
<1>1. Emit("routes", record)
  BY DEF EmitRoute
<1>2. IsSeq(s.legs)
  <2> DEFINE T == [from : End, to : End]
  <2>1. s.legs \in Seq(T)
    BY ShapesAreTyped
  <2> HIDE DEF T
  <2> QED  BY <2>1 DEF IsSeq
<1>3. legs = [i \in DOMAIN s.legs |-> legs[i]]
  OBVIOUS
<1>4. record.legs = legs /\ "routes" \in Kinds
  BY DEF Kinds
<1> HIDE DEF legs, record
<1>5. IsSeq(legs)
  BY <1>2, <1>3, SameDomainSeq
<1> QED  BY <1>1, <1>4, <1>5 DEF Emitted

LEMMA StepKinds ==
    ASSUME IInv, [Next]_vars
    PROVE  \/ AllocateNet \/ Emitted \/ EndBody
           \/ RegisterNet \/ EndLoop \/ EndSpace \/ Lowered
           \/ BuildFails \/ UNCHANGED vars
<1>1. ASSUME NEW s, EmitPolygon(s)
      PROVE  Emitted
  <2>1. PICK record : Emit("polygons", record)
    BY <1>1, Zenon DEF EmitPolygon
  <2>2. "polygons" \in Kinds \ {"routes", "devices", "contacts"}
    BY DEF Kinds
  <2> QED  BY <2>1, <2>2 DEF Emitted
<1>2. ASSUME NEW s, EmitContact(s)
      PROVE  Emitted
  <2> DEFINE record == [space |-> cur, from |-> s.from, to |-> s.to,
                        net |-> IdOf(s.net), area |-> s.area]
  <2>1. Emit("contacts", record)
    BY <1>2 DEF EmitContact
  <2>2. Allocated(record.net)
    BY DEF Allocated, IdOf
  <2>3. "contacts" \in Kinds \ {"routes", "devices"}
    BY DEF Kinds
  <2> HIDE DEF record
  <2> QED  BY <2>1, <2>2, <2>3 DEF Emitted
<1>3. ASSUME NEW s \in DeviceShapes, EmitDevice(s)
      PROVE  Emitted
  <2> DEFINE record == [space |-> cur, type |-> s.type, instance |-> s.instance,
                        terminals |-> [t \in DOMAIN s.terminals |-> IdOf(s.terminals[t])],
                        ports |-> s.ports]
  <2>1. Emit("devices", record)
    BY <1>3 DEF EmitDevice
  <2>2. IsFiniteSet(DOMAIN record.ports)
    BY ShapesAreTyped
  <2>3. "devices" \in Kinds \ {"routes", "contacts"}
    BY DEF Kinds
  <2> HIDE DEF record
  <2> QED  BY <2>1, <2>2, <2>3 DEF Emitted
<1>4. EvaluationFails => BuildFails
  BY DEF EvaluationFails, BuildFails
<1>5. LayerMissing \/ DeviceRejected \/ RouteRejected => BuildFails
  BY DEF LayerMissing, DeviceRejected, RouteRejected
<1> QED  BY <1>1, <1>4, <1>5, <1>2, <1>3, RouteEmitted, PolygonLowered, ContactLowered, DeviceLowered,
            RouteLowered DEF Next, Evaluate, Build

-----------------------------------------------------------------------------
(* The parts of the invariant, kept one by one. *)

LEMMA ControlKept ==
    ASSUME IInv, [Next]_vars
    PROVE  Control'
<1> USE DEF Building, Kinds
<1>1. Control /\ Records
  BY DEF IInv
<1>2. Len(Space.nets) \in Nat /\ cur \in 1 .. Len(program) /\ Len(program) \in Nat
      /\ DOMAIN program = 1 .. Len(program)
  BY <1>1, ProgramFacts
<1>3. \A kind \in Kinds : Len(emitted[kind]) \in Nat
  BY <1>1, SeqFacts DEF Records
<1>4. CASE AllocateNet
  BY <1>1, <1>2, <1>4 DEF AllocateNet, Control, Space
<1>5. CASE Emitted
  BY <1>1, <1>2, <1>5 DEF Emitted, Emit, Control, Space
<1>6. CASE EndBody
  <2>1. cur' \in DOMAIN program /\ program' = program /\ pos' = 0
        /\ phase' \in {"evaluate", "nets"}
    BY <1>1, <1>2, <1>6 DEF EndBody, Control
  <2>2. Len(Space'.nets) \in Nat
    BY <1>1, <2>1, ProgramFacts DEF Space
  <2> QED  BY <1>1, <2>1, <2>2 DEF Control, LoopEnd
<1>7. CASE RegisterNet
  BY <1>1, <1>2, <1>7 DEF RegisterNet, Control, Space, LoopEnd
<1>8. CASE EndLoop
  BY <1>1, <1>2, <1>3, <1>8 DEF EndLoop, Control, Space, LoopEnd, NextPhase
<1>9. CASE EndSpace
  <2>1. cur' \in DOMAIN program /\ program' = program /\ pos' = 0 /\ phase' \in {"nets", "done"}
    BY <1>1, <1>2, <1>9 DEF EndSpace, Control
  <2>2. Len(Space'.nets) \in Nat
    BY <1>1, <2>1, ProgramFacts DEF Space
  <2> QED  BY <1>1, <2>1, <2>2 DEF Control, LoopEnd
<1>10. CASE Lowered
  BY <1>1, <1>2, <1>3, <1>10 DEF Lowered, Lower, Control, Space, LoopEnd
<1>11. CASE BuildFails
  BY <1>1, <1>11 DEF BuildFails, Control
<1>12. CASE UNCHANGED vars
  BY <1>1, <1>12 DEF vars, Control, Space, LoopEnd
<1> QED  BY <1>4, <1>5, <1>6, <1>7, <1>8, <1>9, <1>10, <1>11, <1>12, StepKinds

LEMMA RecordsKept ==
    ASSUME IInv, [Next]_vars
    PROVE  Records'
<1>1. Records
  BY DEF IInv
<1>2. IsSeq(<<>>) /\ DOMAIN Nothing = Kinds /\ \A kind \in Kinds : Nothing[kind] = <<>>
  BY EmptySeq DEF Nothing, Kinds
<1>3. ASSUME UNCHANGED emitted, UNCHANGED made \/ made' = Nothing
      PROVE  Records'
  BY <1>1, <1>2, <1>3 DEF Records
<1>4. CASE Emitted
  <2>1. PICK kind, record :
            /\ kind \in Kinds /\ Emit(kind, record)
            /\ kind = "routes" => IsSeq(record.legs)
            /\ kind = "devices" => IsFiniteSet(DOMAIN record.ports)
    BY <1>4 DEF Emitted
  <2>2. made' = made /\ emitted' = [emitted EXCEPT ![kind] = Append(@, record)]
    BY <2>1 DEF Emit
  <2>3. /\ DOMAIN emitted' = Kinds /\ emitted'[kind] = Append(emitted[kind], record)
        /\ \A k \in Kinds : k # kind => emitted'[k] = emitted[k]
    BY <1>1, <2>1, <2>2 DEF Records
  <2>4. IsSeq(emitted[kind])
    BY <1>1, <2>1 DEF Records
  <2>5. /\ IsSeq(emitted'[kind])
        /\ \A i \in DOMAIN emitted'[kind] :
              \/ emitted'[kind][i] = record
              \/ i \in DOMAIN emitted[kind] /\ emitted'[kind][i] = emitted[kind][i]
    BY <2>3, <2>4, AppendSeq
  <2>6. \A k \in Kinds : IsSeq(emitted'[k])
    BY <1>1, <2>3, <2>5 DEF Records
  <2>7. \A i \in DOMAIN emitted'["routes"] : IsSeq(emitted'["routes"][i].legs)
    <3>1. CASE kind = "routes"
      BY <1>1, <2>1, <2>5, <3>1 DEF Records
    <3>2. CASE kind # "routes"
      BY <1>1, <2>3, <3>2 DEF Records, Kinds
    <3> QED  BY <3>1, <3>2
  <2>8. \A i \in DOMAIN emitted'["devices"] : IsFiniteSet(DOMAIN emitted'["devices"][i].ports)
    <3>1. CASE kind = "devices"
      BY <1>1, <2>1, <2>5, <3>1 DEF Records
    <3>2. CASE kind # "devices"
      BY <1>1, <2>3, <3>2 DEF Records, Kinds
    <3> QED  BY <3>1, <3>2
  <2> QED  BY <1>1, <2>2, <2>3, <2>6, <2>7, <2>8 DEF Records
<1>5. CASE Lowered
  <2>1. PICK kind, records, netlist :
            kind \in Kinds /\ Lower(kind, records, netlist) /\ IsSeq(records)
    BY <1>5 DEF Lowered
  <2>2. emitted' = emitted /\ made' = [made EXCEPT ![kind] = @ \o records]
    BY <2>1 DEF Lower
  <2>3. /\ DOMAIN made' = Kinds /\ made'[kind] = made[kind] \o records
        /\ \A k \in Kinds : k # kind => made'[k] = made[k]
    BY <1>1, <2>1, <2>2 DEF Records
  <2>4. IsSeq(made[kind])
    BY <1>1, <2>1 DEF Records
  <2>5. IsSeq(made'[kind])
    BY <2>1, <2>3, <2>4, ConcatSeq
  <2>6. \A k \in Kinds : IsSeq(made'[k])
    BY <1>1, <2>3, <2>5 DEF Records
  <2> QED  BY <1>1, <2>2, <2>3, <2>6 DEF Records
<1>6. CASE AllocateNet \/ EndBody \/ RegisterNet \/ EndLoop \/ EndSpace \/ BuildFails
  BY <1>3, <1>6 DEF AllocateNet, EndBody, RegisterNet, EndLoop, EndSpace, BuildFails
<1>7. CASE UNCHANGED vars
  BY <1>3, <1>7 DEF vars
<1> QED  BY <1>4, <1>5, <1>6, <1>7, StepKinds

LEMMA ShapesNamedKept ==
    ASSUME IInv, [Next]_vars
    PROVE  ShapesNamed'
<1>1. ShapesNamed /\ Records /\ Netlist
  BY DEF IInv
<1>2. ASSUME UNCHANGED <<ids, made>>
      PROVE  ShapesNamed'
  BY <1>1, <1>2 DEF ShapesNamed, Named
<1>3. ASSUME made' = Nothing
      PROVE  ShapesNamed'
  <2>1. \A kind \in Kinds : DOMAIN Nothing[kind] = {}
    BY EmptySeq DEF Nothing, Kinds
  <2> QED  BY <1>3, <2>1 DEF ShapesNamed
<1>4. CASE AllocateNet
  <2>1. made' = Nothing
    BY <1>1, <1>4 DEF AllocateNet, Netlist
  <2> QED  BY <1>3, <2>1
<1>5. CASE Lowered
  <2>1. PICK kind, records, netlist :
            /\ kind \in Kinds
            /\ Lower(kind, records, netlist) /\ IsSeq(records)
            /\ kind # "devices" => \A i \in DOMAIN records : Named(records[i])
    BY <1>5 DEF Lowered
  <2>2. ids' = ids /\ made' = [made EXCEPT ![kind] = @ \o records]
    BY <2>1 DEF Lower
  <2>3. /\ made'[kind] = made[kind] \o records
        /\ \A k \in Kinds : k # kind => made'[k] = made[k]
    BY <1>1, <2>1, <2>2 DEF Records
  <2>4. IsSeq(made[kind])
    BY <1>1, <2>1 DEF Records
  <2>5. \A i \in DOMAIN made'[kind] : \/ \E j \in DOMAIN made[kind] : made'[kind][i] = made[kind][j]
                                     \/ \E j \in DOMAIN records : made'[kind][i] = records[j]
    BY <2>1, <2>3, <2>4, ConcatSeq
  <2>6. kind # "devices" => \A i \in DOMAIN made'[kind] : Named(made'[kind][i])
    BY <1>1, <2>1, <2>5 DEF ShapesNamed
  <2>7. \A k \in Kinds \ {"devices"} : \A i \in DOMAIN made'[k] : Named(made'[k][i])
    BY <1>1, <2>3, <2>6 DEF ShapesNamed
  <2> QED  BY <2>2, <2>7 DEF ShapesNamed, Named
<1>6. CASE Emitted
  BY <1>2, <1>6 DEF Emitted, Emit
<1>7. CASE EndBody \/ RegisterNet \/ EndLoop \/ BuildFails
  BY <1>2, <1>7 DEF EndBody, RegisterNet, EndLoop, BuildFails
<1>8. CASE EndSpace
  BY <1>3, <1>8 DEF EndSpace
<1>9. CASE UNCHANGED vars
  BY <1>2, <1>9 DEF vars
<1> QED  BY <1>4, <1>5, <1>6, <1>7, <1>8, <1>9, StepKinds

LEMMA HandlesKept ==
    ASSUME IInv, [Next]_vars
    PROVE  Handles'
<1>1. Handles /\ Control
  BY DEF IInv
<1>2. ASSUME UNCHANGED ids
      PROVE  Handles'
  BY <1>1, <1>2 DEF Handles, HandlesAreDistinct
<1>3. CASE AllocateNet
  <2> DEFINE name == Space.nets[pos + 1]
             size == Cardinality(DOMAIN ids)
  <2>1. name \in Nets
    BY <1>1, <1>3, ProgramFacts DEF AllocateNet, Control
  <2>2. ids' = IF name \in DOMAIN ids THEN ids ELSE Put(ids, name, size + 1)
    BY <1>3 DEF AllocateNet
  <2> HIDE DEF name
  <2>3. CASE name \in DOMAIN ids
    BY <1>2, <2>2, <2>3
  <2>4. CASE name \notin DOMAIN ids
    <3>1. size \in Nat
      BY <1>1, FS_CardinalityType DEF Handles
    <3>2. DOMAIN ids' = DOMAIN ids \cup {name} /\ ids'[name] = size + 1
          /\ \A n \in DOMAIN ids : ids'[n] = ids[n]
      BY <2>2, <2>4 DEF Put
    <3>3. IsFiniteSet(DOMAIN ids') /\ Cardinality(DOMAIN ids') = size + 1
      BY <1>1, <2>4, <3>2, FS_AddElement DEF Handles
    <3>4. \A n \in DOMAIN ids : ids[n] \in 1 .. size
      BY <1>1 DEF Handles
    <3> HIDE DEF size
    <3>5. \A n \in DOMAIN ids' : ids'[n] \in 1 .. size + 1
      BY <3>1, <3>2, <3>4
    <3>6. HandlesAreDistinct'
      <4>1. \A n \in DOMAIN ids : ids'[n] # ids'[name]
        BY <3>1, <3>2, <3>4
      <4>2. \A m, n \in DOMAIN ids : ids'[m] = ids'[n] => m = n
        BY <1>1, <3>2 DEF Handles, HandlesAreDistinct
      <4> QED  BY <3>2, <4>1, <4>2 DEF HandlesAreDistinct
    <3>7. DOMAIN ids' \subseteq Nets
      BY <1>1, <2>1, <3>2 DEF Handles
    <3> QED  BY <3>3, <3>5, <3>6, <3>7 DEF Handles
  <2> QED  BY <2>3, <2>4
<1>4. CASE Emitted \/ Lowered
  BY <1>2, <1>4 DEF Emitted, Emit, Lowered, Lower
<1>5. CASE EndBody \/ RegisterNet \/ EndLoop \/ EndSpace \/ BuildFails
  BY <1>2, <1>5 DEF EndBody, RegisterNet, EndLoop, EndSpace, BuildFails
<1>6. CASE UNCHANGED vars
  BY <1>2, <1>6 DEF vars
<1> QED  BY <1>3, <1>4, <1>5, <1>6, StepKinds

LEMMA FinishedKept ==
    ASSUME IInv, [Next]_vars
    PROVE  Finished'
<1> USE DEF Building, Kinds
<1>1. Finished /\ Control
  BY DEF IInv
<1>2. Len(spaces) \in Nat /\ Len(program) \in Nat /\ cur \in 1 .. Len(program)
  BY <1>1, SeqFacts, ProgramFacts DEF Finished
<1>3. CASE EndSpace
  <2>1. PICK e : spaces' = Append(spaces, e)
    BY <1>3 DEF EndSpace
  <2>2. IsSeq(spaces') /\ Len(spaces') = Len(spaces) + 1
    BY <1>1, <2>1, AppendSeq DEF Finished
  <2>3. Len(spaces) = cur - 1
    BY <1>1, <1>3 DEF Finished, EndSpace
  <2>4. program' = program
        /\ (phase' = "done" \/ (phase' = "nets" /\ cur' = cur + 1))
    BY <1>2, <1>3 DEF EndSpace
  <2> QED  BY <1>2, <2>2, <2>3, <2>4 DEF Finished
<1>4. CASE AllocateNet \/ RegisterNet
  BY <1>1, <1>4 DEF AllocateNet, RegisterNet, Finished
<1>5. CASE Emitted \/ Lowered
  BY <1>1, <1>5 DEF Emitted, Emit, Lowered, Lower, Finished
<1>6. CASE EndBody
  BY <1>1, <1>2, <1>6 DEF EndBody, Finished
<1>7. CASE EndLoop
  BY <1>1, <1>7 DEF EndLoop, NextPhase, Finished
<1>8. CASE BuildFails
  BY <1>1, <1>8 DEF BuildFails, Finished
<1>9. CASE UNCHANGED vars
  BY <1>1, <1>9 DEF vars, Finished
<1> QED  BY <1>3, <1>4, <1>5, <1>6, <1>7, <1>8, <1>9, StepKinds

LEMMA NetlistKept ==
    ASSUME IInv, [Next]_vars
    PROVE  Netlist'
<1> USE DEF Building, Kinds
<1>1. Netlist /\ Control
  BY DEF IInv
<1>2. Len(Space.nets) \in Nat
  BY <1>1, ProgramFacts
<1>3. ArenaOK(NewArena) /\ NewArena.pins = <<>> /\ Len(NewArena.nets) = 0 /\ DOMAIN NewArena.nets = {}
  BY NewArenaOK, EmptySeq DEF NewArena
<1>4. CASE AllocateNet
  BY <1>1, <1>4 DEF AllocateNet, Netlist
<1>5. CASE Emitted
  BY <1>1, <1>5 DEF Emitted, Emit, Netlist
<1>6. CASE EndBody
  <2>1. arena' = NewArena /\ made' = Nothing /\ pos' = 0 /\ phase' \in {"evaluate", "nets"}
    BY <1>1, <1>6 DEF EndBody, Netlist
  <2> HIDE DEF Nothing, NewArena
  <2> QED  BY <1>3, <2>1 DEF Netlist, NetsRead
<1>7. CASE RegisterNet
  <2> DEFINE name == Space.nets[pos + 1]
  <2>1. name \in Nets /\ pos \in Nat
    BY <1>1, <1>7, ProgramFacts DEF RegisterNet, Control
  <2>2. arena' = AddNet(arena, name) /\ made' = Nothing /\ phase = "nets" /\ phase' = "nets"
        /\ pos' = pos + 1 /\ Space' = Space
    BY <1>1, <1>7 DEF RegisterNet, Netlist, Space
  <2>3. ArenaOK(arena) /\ arena.pins = <<>> /\ NetsRead(pos)
    BY <1>1, <2>2 DEF Netlist
  <2>4. /\ ArenaOK(arena') /\ arena'.pins = <<>> /\ Len(arena'.nets) = pos + 1
        /\ \A i \in DOMAIN arena.nets : arena'.nets[i].name = arena.nets[i].name
        /\ arena'.nets[pos + 1].name = name
    <3> HIDE DEF name
    <3> QED  BY <2>1, <2>2, <2>3, AddNetOK DEF NetsRead
  <2>5. DOMAIN arena.nets = 1 .. pos /\ DOMAIN arena'.nets = 1 .. pos + 1
    BY <2>3, <2>4 DEF ArenaOK, ArenaType, NetsRead
  <2>6. \A i \in 1 .. pos + 1 : arena'.nets[i].name = Space.nets[i]
    <3>1. \A i \in 1 .. pos + 1 : i \in 1 .. pos \/ i = pos + 1
      BY <2>1
    <3> QED  BY <2>3, <2>4, <2>5, <3>1 DEF NetsRead
  <2> QED  BY <2>2, <2>4, <2>5, <2>6 DEF Netlist, NetsRead
<1>8. CASE EndLoop
  <2>1. /\ UNCHANGED <<arena, made, program, cur>> /\ phase \in DOMAIN NextPhase
        /\ phase' \in Kinds /\ (phase = "nets" => pos = Len(Space.nets))
        /\ Space' = Space
    BY <1>8 DEF EndLoop, NextPhase, LoopEnd, Space
  <2>2. NetsRead(Len(Space.nets))
    BY <1>1, <2>1 DEF Netlist, NextPhase
  <2> QED  BY <1>1, <2>1, <2>2 DEF Netlist, NetsRead
<1>9. CASE EndSpace
  <2>1. arena' = NewArena /\ made' = Nothing /\ pos' = 0 /\ phase' \in {"nets", "done"}
    BY <1>9 DEF EndSpace
  <2> HIDE DEF Nothing, NewArena
  <2> QED  BY <1>3, <2>1 DEF Netlist, NetsRead
<1>10. CASE Lowered
  <2>1. /\ phase' = phase /\ phase \in Kinds /\ Space' = Space
        /\ ArenaOK(arena') /\ NetList(arena') = NetList(arena)
    BY <1>10 DEF Lowered, Lower, Space
  <2>2. ArenaOK(arena) /\ NetsRead(Len(Space.nets))
    BY <1>1, <2>1 DEF Netlist
  <2>3. DOMAIN arena'.nets = DOMAIN arena.nets /\ Len(arena'.nets) = Len(arena.nets)
    BY <2>1, <2>2 DEF NetList, ArenaOK, ArenaType
  <2>4. \A i \in DOMAIN arena.nets : arena'.nets[i].name = arena.nets[i].name
    BY <2>1, <2>3 DEF NetList
  <2> QED  BY <2>1, <2>2, <2>3, <2>4 DEF Netlist, NetsRead
<1>11. CASE BuildFails
  BY <1>1, <1>11 DEF BuildFails, Netlist
<1>12. CASE UNCHANGED vars
  BY <1>1, <1>12 DEF vars, Netlist, NetsRead, Space
<1> QED  BY <1>4, <1>5, <1>6, <1>7, <1>8, <1>9, <1>10, <1>11, <1>12, StepKinds

(* The spaces of an aligned program declare the same nets, each once. *)
LEMMA AlignedFacts ==
    ASSUME Control, Aligned
    PROVE  /\ \A s \in DOMAIN program : program[s].nets = Space.nets
           /\ \A i, j \in DOMAIN Space.nets : Space.nets[i] = Space.nets[j] => i = j
  BY DEF Control, Aligned, Space

LEMMA NumberingKept ==
    ASSUME IInv, [Next]_vars
    PROVE  Numbering'
<1> USE DEF Building, Kinds
<1>1. Numbering /\ Control /\ Handles
  BY DEF IInv
<1>2. program' = program
  BY StepKinds DEF AllocateNet, Emitted, Emit, EndBody, RegisterNet, EndLoop, EndSpace,
                   Lowered, Lower, BuildFails, vars
<1> SUFFICES ASSUME Aligned
             PROVE  Numbering'
  BY <1>2 DEF Numbering, Aligned
<1>3. /\ Len(Space.nets) \in Nat /\ DOMAIN Space.nets = 1 .. Len(Space.nets)
      /\ \A i, j \in 1 .. Len(Space.nets) : Space.nets[i] = Space.nets[j] => i = j
      /\ \A s \in DOMAIN program : program[s].nets = Space.nets
      /\ cur \in 1 .. Len(program) /\ Len(program) \in Nat /\ DOMAIN program = 1 .. Len(program)
      /\ pos \in Nat
  BY <1>1, AlignedFacts, ProgramFacts DEF Control
<1>4. CASE AllocateNet
  <2> DEFINE name == Space.nets[pos + 1]
             size == Cardinality(DOMAIN ids)
  <2>1. /\ phase = "evaluate" /\ phase' = "evaluate" /\ pos' = pos + 1 /\ cur' = cur
        /\ pos + 1 \in 1 .. Len(Space.nets)
        /\ ids' = IF name \in DOMAIN ids THEN ids ELSE Put(ids, name, size + 1)
        /\ Space' = Space
    BY <1>3, <1>4 DEF AllocateNet, Space
  <2>2. CASE cur = 1
    <3>1. DOMAIN ids = {Space.nets[i] : i \in 1 .. pos} /\ size = pos
          /\ \A i \in 1 .. pos : ids[Space.nets[i]] = i
      BY <1>1, <2>1, <2>2 DEF Numbering, Numbered
    <3>2. name \notin DOMAIN ids
      BY <1>3, <2>1, <3>1
    <3>3. DOMAIN ids' = DOMAIN ids \cup {name} /\ ids'[name] = pos + 1
          /\ \A n \in DOMAIN ids : ids'[n] = ids[n]
      <4> HIDE DEF name, size
      <4> QED  BY <2>1, <3>1, <3>2 DEF Put
    <3>4. 1 .. pos + 1 = 1 .. pos \cup {pos + 1}
      BY <1>3
    <3>5. DOMAIN ids' = {Space.nets[i] : i \in 1 .. pos + 1}
      BY <3>1, <3>3, <3>4
    <3>6. \A i \in 1 .. pos + 1 : ids'[Space.nets[i]] = i
      <4>1. \A i \in 1 .. pos : Space.nets[i] \in DOMAIN ids
        BY <3>1
      <4> QED  BY <3>1, <3>3, <3>4, <4>1
    <3>7. Cardinality(DOMAIN ids') = pos + 1
      <4>1. IsFiniteSet(DOMAIN ids)
        BY <1>1 DEF Handles
      <4> HIDE DEF name
      <4>2. Cardinality(DOMAIN ids \cup {name}) = Cardinality(DOMAIN ids) + 1
        BY <3>2, <4>1, FS_AddElement
      <4> QED  BY <3>1, <3>3, <4>2
    <3> HIDE DEF name, size
    <3>8. Numbered(pos)'
      BY <2>1, <3>5, <3>6, <3>7, Zenon DEF Numbered
    <3> QED  BY <2>1, <2>2, <3>8 DEF Numbering
  <2>3. CASE cur # 1
    <3>1. Numbered(Len(Space.nets))
      BY <1>1, <2>1, <2>3 DEF Numbering
    <3>2. name \in DOMAIN ids
      BY <2>1, <3>1 DEF Numbered
    <3>3. ids' = ids
      BY <2>1, <3>2
    <3> QED  BY <2>1, <2>3, <3>1, <3>3 DEF Numbering, Numbered
  <2> QED  BY <2>2, <2>3
<1>5. CASE EndBody
  <2>1. /\ phase = "evaluate" /\ pos = Len(Space.nets) /\ ids' = ids
        /\ \/ phase' = "evaluate" /\ cur' = cur + 1 /\ cur < Len(program)
           \/ phase' = "nets" /\ cur' = 1
    BY <1>5 DEF EndBody
  <2>2. Numbered(Len(Space.nets))
    BY <1>1, <2>1 DEF Numbering
  <2>3. Space'.nets = Space.nets /\ cur + 1 # 1
    BY <1>2, <1>3, <2>1 DEF Space
  <2> QED  BY <1>3, <2>1, <2>2, <2>3 DEF Numbering, Numbered
<1>6. CASE EndSpace
  <2>1. /\ phase = "routes" /\ ids' = ids
        /\ \/ phase' = "nets" /\ cur' = cur + 1 /\ cur < Len(program)
           \/ phase' = "done" /\ cur' = cur
    BY <1>6 DEF EndSpace
  <2>2. Numbered(Len(Space.nets))
    BY <1>1, <2>1 DEF Numbering
  <2>3. Space'.nets = Space.nets
    BY <1>2, <1>3, <2>1 DEF Space
  <2> QED  BY <2>1, <2>2, <2>3 DEF Numbering, Numbered
<1>7. CASE RegisterNet \/ EndLoop
  <2>1. phase \in Building /\ phase' \in Building /\ UNCHANGED <<program, cur, ids>>
    BY <1>7 DEF RegisterNet, EndLoop, NextPhase
  <2> QED  BY <1>1, <2>1 DEF Numbering, Numbered, Space
<1>8. CASE Emitted \/ Lowered
  <2>1. /\ phase' = phase /\ UNCHANGED <<program, cur, ids>>
        /\ phase \in Kinds \/ pos' = pos
    BY <1>8 DEF Emitted, Emit, Lowered, Lower
  <2> QED  BY <1>1, <2>1 DEF Numbering, Numbered, Space
<1>9. CASE BuildFails
  BY <1>9 DEF BuildFails, Numbering
<1>10. CASE UNCHANGED vars
  BY <1>1, <1>10 DEF vars, Numbering, Numbered, Space
<1> QED  BY <1>4, <1>5, <1>6, <1>7, <1>8, <1>9, <1>10, StepKinds

(* A shape named through the emitter is named the same in the space's netlist. *)
LEMMA NamedInSpace ==
    ASSUME IInv, Aligned, phase \in Kinds, NEW shape, Named(shape)
    PROVE  NamedIn(arena, shape)
<1> SUFFICES ASSUME shape.net # None
             PROVE  shape.id \in DOMAIN arena.nets /\ arena.nets[shape.id].name = shape.net
  BY DEF NamedIn
<1>1. shape.net \in DOMAIN ids /\ shape.id = ids[shape.net]
  BY DEF Named
<1>2. Numbered(Len(Space.nets)) /\ NetsRead(Len(Space.nets)) /\ ArenaOK(arena)
  BY DEF IInv, Numbering, Netlist, Building
<1>3. PICK i \in 1 .. Len(Space.nets) : shape.net = Space.nets[i] /\ ids[shape.net] = i
  BY <1>1, <1>2 DEF Numbered
<1>4. DOMAIN arena.nets = 1 .. Len(Space.nets)
  BY <1>2 DEF NetsRead, ArenaOK, ArenaType
<1> QED  BY <1>1, <1>2, <1>3, <1>4 DEF NetsRead

LEMMA SameNames ==
    ASSUME NEW a, NEW b, NetList(a) = NetList(b), NEW shape, NamedIn(a, shape)
    PROVE  NamedIn(b, shape)
<1>1. DOMAIN a.nets = DOMAIN b.nets
  BY DEF NetList
<1>2. \A i \in DOMAIN a.nets : a.nets[i].name = b.nets[i].name
  BY <1>1 DEF NetList
<1> QED  BY <1>1, <1>2 DEF NamedIn

LEMMA AgreementKept ==
    ASSUME IInv, [Next]_vars
    PROVE  NetIdsAgree'
<1>1. program' = program
  BY StepKinds DEF AllocateNet, Emitted, Emit, EndBody, RegisterNet, EndLoop, EndSpace,
                   Lowered, Lower, BuildFails, vars
<1> SUFFICES ASSUME Aligned
             PROVE  NetIdsAgree'
  BY <1>1 DEF NetIdsAgree, Aligned
<1>2. /\ AgreeIn(arena, made)
      /\ \A k \in DOMAIN spaces : AgreeIn(spaces[k].arena, spaces[k].made)
      /\ Netlist /\ Records /\ Finished /\ ShapesNamed
  BY DEF IInv, NetIdsAgree
<1>3. \A netlist : AgreeIn(netlist, Nothing)
  BY EmptySeq DEF AgreeIn, Nothing
<1>4. ASSUME UNCHANGED spaces, UNCHANGED <<arena, made>> \/ made' = Nothing
      PROVE  NetIdsAgree'
  BY <1>2, <1>3, <1>4 DEF NetIdsAgree
<1>5. CASE EndSpace
  <2>1. spaces' = Append(spaces, [arena |-> arena, made |-> made]) /\ made' = Nothing
    BY <1>5 DEF EndSpace
  <2>2. \A k \in DOMAIN spaces' : \/ spaces'[k] = [arena |-> arena, made |-> made]
                                  \/ k \in DOMAIN spaces /\ spaces'[k] = spaces[k]
    BY <1>2, <2>1, AppendSeq DEF Finished
  <2>3. \A k \in DOMAIN spaces' : AgreeIn(spaces'[k].arena, spaces'[k].made)
    BY <1>2, <2>2
  <2> QED  BY <1>3, <2>1, <2>3 DEF NetIdsAgree
<1>6. CASE Lowered
  <2>1. PICK kind, records, netlist :
            /\ kind \in Kinds
            /\ Lower(kind, records, netlist) /\ IsSeq(records) /\ phase = kind
            /\ NetList(netlist) = NetList(arena)
            /\ kind # "devices" => \A i \in DOMAIN records : Named(records[i])
    BY <1>6 DEF Lowered
  <2>2. /\ spaces' = spaces /\ arena' = netlist
        /\ made' = [made EXCEPT ![kind] = @ \o records]
    BY <2>1 DEF Lower
  <2>3. /\ made'[kind] = made[kind] \o records
        /\ \A k \in Kinds : k # kind => made'[k] = made[k]
    BY <2>1, <1>2, <2>2 DEF Records
  <2>4. IsSeq(made[kind])
    BY <2>1, <1>2 DEF Records
  <2>5. \A i \in DOMAIN made'[kind] : \/ \E j \in DOMAIN made[kind] : made'[kind][i] = made[kind][j]
                                     \/ \E j \in DOMAIN records : made'[kind][i] = records[j]
    BY <2>1, <2>3, <2>4, ConcatSeq
  <2>6. \A shape : Named(shape) => NamedIn(arena', shape)
    BY <2>1, <2>2, NamedInSpace, SameNames
  <2>7. \A k \in Kinds \ {"devices"} : \A i \in DOMAIN made'[k] : Named(made'[k][i])
    <3>1. kind # "devices" => \A i \in DOMAIN made'[kind] : Named(made'[kind][i])
      BY <1>2, <2>1, <2>5 DEF ShapesNamed
    <3> QED  BY <1>2, <2>3, <3>1 DEF ShapesNamed
  <2>8. AgreeIn(arena', made')
    BY <2>6, <2>7 DEF AgreeIn, Kinds
  <2> QED  BY <1>2, <2>2, <2>8 DEF NetIdsAgree
<1>7. CASE AllocateNet \/ RegisterNet
  BY <1>2, <1>4, <1>7 DEF AllocateNet, RegisterNet, Netlist
<1>8. CASE Emitted
  BY <1>4, <1>8 DEF Emitted, Emit
<1>9. CASE EndBody \/ EndLoop \/ BuildFails
  BY <1>4, <1>9 DEF EndBody, EndLoop, BuildFails
<1>10. CASE UNCHANGED vars
  BY <1>4, <1>10 DEF vars
<1> QED  BY <1>5, <1>6, <1>7, <1>8, <1>9, <1>10, StepKinds

(* A contact that no lowered pour meets stays so: pours are lowered first. *)
LEMMA ContactsKept ==
    ASSUME IInv, [Next]_vars
    PROVE  Contacts'
<1>1. Contacts /\ Records /\ Netlist
  BY DEF IInv
<1>2. ASSUME UNCHANGED <<ids, emitted>>
      PROVE  \A i \in DOMAIN emitted'["contacts"] : Allocated(emitted["contacts"][i].net)'
  BY <1>1, <1>2 DEF Contacts, Allocated
<1>3. ASSUME made' = Nothing
      PROVE  made'["contacts"] = <<>> /\ NoStrayContact'
  BY <1>3, EmptySeq DEF NoStrayContact, Nothing
<1>4. CASE AllocateNet
  <2> DEFINE name == Space.nets[pos + 1]
  <2>1. /\ phase = "evaluate" /\ phase' = phase /\ UNCHANGED <<emitted, made>>
        /\ ids' = IF name \in DOMAIN ids THEN ids ELSE Put(ids, name, Cardinality(DOMAIN ids) + 1)
    BY <1>4 DEF AllocateNet
  <2> HIDE DEF name
  <2>2. \A n \in DOMAIN ids : n \in DOMAIN ids' /\ ids'[n] = ids[n]
    BY <2>1 DEF Put
  <2>3. \A i \in DOMAIN emitted'["contacts"] : Allocated(emitted["contacts"][i].net)'
    BY <1>1, <2>1, <2>2 DEF Contacts, Allocated
  <2>4. made' = Nothing
    BY <1>1, <2>1 DEF Netlist
  <2> QED  BY <1>3, <2>1, <2>3, <2>4 DEF Contacts
<1>5. CASE Emitted
  <2>1. PICK kind, record :
            kind \in Kinds /\ Emit(kind, record) /\ (kind = "contacts" => Allocated(record.net))
    BY <1>5 DEF Emitted
  <2>2. /\ UNCHANGED <<ids, made, phase>>
        /\ emitted' = [emitted EXCEPT ![kind] = Append(@, record)]
    BY <2>1 DEF Emit
  <2>3. /\ emitted'[kind] = Append(emitted[kind], record)
        /\ \A k \in Kinds : k # kind => emitted'[k] = emitted[k]
    BY <1>1, <2>1, <2>2 DEF Records
  <2>4. IsSeq(emitted[kind])
    BY <1>1, <2>1 DEF Records
  <2>5. \A i \in DOMAIN emitted'[kind] :
              \/ emitted'[kind][i] = record
              \/ i \in DOMAIN emitted[kind] /\ emitted'[kind][i] = emitted[kind][i]
    BY <2>3, <2>4, AppendSeq
  <2>6. \A i \in DOMAIN emitted'["contacts"] : Allocated(emitted'["contacts"][i].net)
    <3>1. CASE kind = "contacts"
      BY <1>1, <2>1, <2>5, <3>1 DEF Contacts
    <3>2. CASE kind # "contacts"
      BY <1>1, <2>3, <3>2 DEF Contacts, Kinds
    <3> QED  BY <3>1, <3>2
  <2> QED  BY <1>1, <2>2, <2>6 DEF Contacts, Allocated, NoStrayContact, Meets
<1>6. CASE Lowered
  <2>1. PICK kind, records, netlist :
            /\ kind \in Kinds /\ phase = kind /\ Lower(kind, records, netlist) /\ IsSeq(records)
            /\ kind = "contacts" => \A i \in DOMAIN records : NotStray(records[i])
    BY <1>6 DEF Lowered
  <2>2. UNCHANGED <<ids, emitted, phase>> /\ made' = [made EXCEPT ![kind] = @ \o records]
    BY <2>1 DEF Lower
  <2>3. /\ made'[kind] = made[kind] \o records
        /\ \A k \in Kinds : k # kind => made'[k] = made[k]
    BY <1>1, <2>1, <2>2 DEF Records
  <2>4. {"contacts", "polygons"} \subseteq Kinds
    BY DEF Kinds
  <2>5. phase = "polygons" => made'["contacts"] = <<>>
    BY <1>1, <2>1, <2>3, <2>4 DEF Contacts
  <2>6. CASE kind = "polygons"
    <3>1. NoStrayContact'
      BY <2>1, <2>5, <2>6, EmptySeq DEF NoStrayContact
    <3> QED  BY <1>2, <2>2, <2>5, <3>1 DEF Contacts
  <2>7. CASE kind = "contacts"
    <3>1. IsSeq(made[kind]) /\ made'["polygons"] = made["polygons"]
      BY <1>1, <2>1, <2>3, <2>4, <2>7 DEF Records
    <3>2. \A i \in DOMAIN made'[kind] : \/ \E j \in DOMAIN made[kind] : made'[kind][i] = made[kind][j]
                                       \/ \E j \in DOMAIN records : made'[kind][i] = records[j]
      <4>1. IsSeq(records) /\ IsSeq(made[kind]) /\ made'[kind] = made[kind] \o records
        BY <2>1, <2>3, <3>1
      <4> QED  BY <4>1, ConcatSeq
    <3>3. \A i \in DOMAIN made["contacts"] : NotStray(made["contacts"][i])
      BY <1>1 DEF Contacts, NoStrayContact, NotStray
    <3>4. \A i \in DOMAIN made'["contacts"] : NotStray(made'["contacts"][i])
      BY <2>1, <2>7, <3>2, <3>3
    <3>5. NoStrayContact'
      BY <3>1, <3>4 DEF NoStrayContact, NotStray, Meets
    <3> QED  BY <1>2, <2>2, <2>5, <3>5 DEF Contacts
  <2>8. CASE kind \notin {"polygons", "contacts"}
    <3>1. made'["polygons"] = made["polygons"] /\ made'["contacts"] = made["contacts"]
      BY <2>3, <2>4, <2>8
    <3>2. NoStrayContact'
      BY <1>1, <3>1 DEF Contacts, NoStrayContact, Meets
    <3> QED  BY <1>2, <2>2, <2>5, <3>2 DEF Contacts
  <2> QED  BY <2>6, <2>7, <2>8
<1>7. CASE EndBody \/ RegisterNet
  <2>1. UNCHANGED <<ids, emitted, made>> /\ phase \in {"evaluate", "nets"}
    BY <1>7 DEF EndBody, RegisterNet
  <2>2. made' = Nothing
    BY <1>1, <2>1 DEF Netlist
  <2> QED  BY <1>2, <1>3, <2>1, <2>2 DEF Contacts
<1>8. CASE EndLoop
  <2>1. /\ UNCHANGED <<ids, emitted, made>> /\ phase \in DOMAIN NextPhase
        /\ phase' = "polygons" => phase = "nets"
    BY <1>8 DEF EndLoop, NextPhase
  <2>2. phase' = "polygons" => made'["contacts"] = <<>>
    BY <1>1, <2>1 DEF Netlist, Nothing
  <2>3. NoStrayContact'
    BY <1>1, <2>1 DEF Contacts, NoStrayContact, Meets
  <2> QED  BY <1>2, <2>1, <2>2, <2>3 DEF Contacts
<1>9. CASE EndSpace
  BY <1>2, <1>3, <1>9 DEF EndSpace, Contacts
<1>10. CASE BuildFails
  BY <1>1, <1>10 DEF BuildFails, Contacts, Allocated, NoStrayContact, Meets
<1>11. CASE UNCHANGED vars
  BY <1>1, <1>11 DEF vars, Contacts, Allocated, NoStrayContact, Meets
<1> QED  BY <1>4, <1>5, <1>6, <1>7, <1>8, <1>9, <1>10, <1>11, StepKinds

LEMMA DeviceStays ==
    ASSUME NEW CONSTANT device, DeviceOK(device), UNCHANGED <<ids, emitted>>
    PROVE  DeviceOK(device)'
<1>1. \A id : NameOf(id)' = NameOf(id)
  BY DEF NameOf
<1>2. \A j : RouteOf(j)' = RouteOf(j)
  BY DEF RouteOf
<1>3. \A p : DeviceEnds(device, p)' = DeviceEnds(device, p)
  BY DEF DeviceEnds, NettedEnds, PortEnds, Ends, EndOf, RouteOf
<1>4. PortsApart(device)' = PortsApart(device)
  BY DEF PortsApart
<1>5. \A b : Named(b) => Named(b)'
  BY DEF Named
<1>6. \A b : OnItsPort(device, b) => OnItsPort(device, b)'
  BY <1>1, <1>2, <1>3 DEF OnItsPort
<1> QED  BY <1>4, <1>5, <1>6 DEF DeviceOK

LEMMA DevicesKept ==
    ASSUME IInv, [Next]_vars
    PROVE  Devices'
<1>1. Devices /\ Records /\ Netlist
  BY DEF IInv
<1>2. ASSUME UNCHANGED <<ids, emitted, made>>
      PROVE  Devices'
  <2> SUFFICES ASSUME NEW i \in DOMAIN made["devices"]
               PROVE  DeviceOK(made["devices"][i])'
    BY <1>2 DEF Devices
  <2>1. PICK device : device = made["devices"][i]
    OBVIOUS
  <2>2. DeviceOK(device)
    BY <1>1, <2>1 DEF Devices
  <2>3. DeviceOK(device)'
    BY <1>2, <2>2, DeviceStays
  <2>4. made["devices"][i]' = device
    BY <1>2, <2>1
  <2> QED  BY <2>3, <2>4
<1>3. ASSUME made' = Nothing
      PROVE  Devices'
  BY <1>3, EmptySeq DEF Devices, Nothing
<1>4. CASE Lowered
  <2>1. PICK kind, records, netlist :
            /\ kind \in Kinds /\ Lower(kind, records, netlist) /\ IsSeq(records)
            /\ kind = "devices" => \A i \in DOMAIN records : DeviceOK(records[i])
    BY <1>4 DEF Lowered
  <2>2. UNCHANGED <<ids, emitted>> /\ made' = [made EXCEPT ![kind] = @ \o records]
    BY <2>1 DEF Lower
  <2>3. /\ made'[kind] = made[kind] \o records
        /\ \A k \in Kinds : k # kind => made'[k] = made[k]
    BY <1>1, <2>1, <2>2 DEF Records
  <2>4. \A i \in DOMAIN made'["devices"] : DeviceOK(made'["devices"][i])
    <3>1. CASE kind = "devices"
      <4>1. IsSeq(made[kind])
        BY <1>1, <2>1 DEF Records
      <4>2. \A i \in DOMAIN made'[kind] : \/ \E j \in DOMAIN made[kind] : made'[kind][i] = made[kind][j]
                                         \/ \E j \in DOMAIN records : made'[kind][i] = records[j]
        BY <2>1, <2>3, <4>1, ConcatSeq
      <4> QED  BY <1>1, <2>1, <3>1, <4>2 DEF Devices
    <3>2. CASE kind # "devices"
      BY <1>1, <2>3, <3>2 DEF Devices, Kinds
    <3> QED  BY <3>1, <3>2
  <2>5. ASSUME NEW i \in DOMAIN made'["devices"]
        PROVE  DeviceOK(made["devices"][i])'
    <3>1. PICK device : device = made'["devices"][i]
      OBVIOUS
    <3>2. DeviceOK(device)
      BY <2>4, <3>1
    <3>3. DeviceOK(device)'
      BY <2>2, <3>2, DeviceStays
    <3> QED  BY <3>1, <3>3
  <2> QED  BY <2>5 DEF Devices
<1>5. CASE AllocateNet \/ Emitted
  <2>1. made' = made /\ phase = "evaluate"
    BY <1>5 DEF AllocateNet, Emitted, Emit
  <2> QED  BY <1>1, <1>3, <2>1 DEF Netlist
<1>6. CASE EndBody \/ RegisterNet \/ EndLoop \/ BuildFails
  BY <1>2, <1>6 DEF EndBody, RegisterNet, EndLoop, BuildFails
<1>7. CASE EndSpace
  BY <1>3, <1>7 DEF EndSpace
<1>8. CASE UNCHANGED vars
  BY <1>2, <1>8 DEF vars
<1> QED  BY <1>4, <1>5, <1>6, <1>7, <1>8, StepKinds

LEMMA BindingsKept ==
    ASSUME IInv, [Next]_vars
    PROVE  BindingsAgree'
<1>1. program' = program
  BY StepKinds DEF AllocateNet, Emitted, Emit, EndBody, RegisterNet, EndLoop, EndSpace,
                   Lowered, Lower, BuildFails, vars
<1> SUFFICES ASSUME Aligned
             PROVE  BindingsAgree'
  BY <1>1 DEF BindingsAgree, Aligned
<1>2. /\ \A i \in DOMAIN made["devices"] : \A b \in made["devices"][i].bindings : NamedIn(arena, b)
      /\ Netlist /\ Records /\ Devices
  BY DEF IInv, BindingsAgree
<1>3. ASSUME UNCHANGED <<arena, made>> \/ made' = Nothing
      PROVE  BindingsAgree'
  BY <1>2, <1>3, EmptySeq DEF BindingsAgree, Nothing
<1>4. CASE Lowered
  <2>1. PICK kind, records, netlist :
            /\ kind \in Kinds
            /\ Lower(kind, records, netlist) /\ IsSeq(records) /\ phase = kind
            /\ NetList(netlist) = NetList(arena)
            /\ kind = "devices" => \A i \in DOMAIN records : DeviceOK(records[i])
    BY <1>4 DEF Lowered
  <2>2. arena' = netlist /\ made' = [made EXCEPT ![kind] = @ \o records]
    BY <2>1 DEF Lower
  <2>3. /\ made'[kind] = made[kind] \o records
        /\ \A k \in Kinds : k # kind => made'[k] = made[k]
    BY <1>2, <2>1, <2>2 DEF Records
  <2>4. \A shape : Named(shape) => NamedIn(arena', shape)
    BY <2>1, <2>2, NamedInSpace, SameNames
  <2>5. \A i \in DOMAIN made'["devices"] : \A b \in made'["devices"][i].bindings : Named(b)
    <3>1. CASE kind = "devices"
      <4>1. IsSeq(made[kind])
        BY <1>2, <2>1 DEF Records
      <4>2. \A i \in DOMAIN made'[kind] : \/ \E j \in DOMAIN made[kind] : made'[kind][i] = made[kind][j]
                                         \/ \E j \in DOMAIN records : made'[kind][i] = records[j]
        BY <2>1, <2>3, <4>1, ConcatSeq
      <4> QED  BY <1>2, <2>1, <3>1, <4>2 DEF Devices, DeviceOK
    <3>2. CASE kind # "devices"
      BY <1>2, <2>3, <3>2 DEF Devices, DeviceOK, Kinds
    <3> QED  BY <3>1, <3>2
  <2> QED  BY <2>4, <2>5 DEF BindingsAgree
<1>5. CASE AllocateNet \/ RegisterNet
  BY <1>2, <1>3, <1>5 DEF AllocateNet, RegisterNet, Netlist
<1>6. CASE Emitted
  BY <1>3, <1>6 DEF Emitted, Emit
<1>7. CASE EndBody \/ EndLoop \/ BuildFails \/ EndSpace
  BY <1>3, <1>7 DEF EndBody, EndLoop, BuildFails, EndSpace
<1>8. CASE UNCHANGED vars
  BY <1>3, <1>8 DEF vars
<1> QED  BY <1>4, <1>5, <1>6, <1>7, <1>8, StepKinds

-----------------------------------------------------------------------------
LEMMA InvariantInit == Init => IInv
<1> SUFFICES ASSUME Init PROVE IInv
  OBVIOUS
<1>1. /\ program \in Programs /\ phase = "evaluate" /\ cur = 1 /\ pos = 0 /\ ids = <<>>
      /\ emitted = Nothing /\ arena = NewArena /\ made = Nothing /\ spaces = <<>>
  BY DEF Init
<1>2. program # <<>> /\ program \in Seq([nets : Seq(Nets), layers : SUBSET Layers,
                                         routable : SUBSET Layers])
  BY <1>1, ProgramsAreSpaces
<1>3. 1 \in DOMAIN program
  BY <1>2
<1>4. Len(Space.nets) \in Nat /\ Len(program) \in Nat
  <2> DEFINE S == [nets : Seq(Nets), layers : SUBSET Layers, routable : SUBSET Layers]
  <2>1. program[1] \in S
    <3>1. program \in Seq(S)
      BY <1>2
    <3> HIDE DEF S
    <3> QED  BY <1>3, <3>1
  <2>2. program[1].nets \in Seq(Nets)
    BY <2>1
  <2> QED  BY <1>1, <1>2, <2>2 DEF Space
<1>5. DOMAIN Nothing = Kinds /\ \A kind \in Kinds : Nothing[kind] = <<>>
  BY DEF Nothing, Kinds
<1>6. Control
  BY <1>1, <1>3, <1>4 DEF Control, Building, Kinds
<1>7. Records
  <2> HIDE DEF Nothing
  <2>1. {"routes", "devices"} \subseteq Kinds
    BY DEF Kinds
  <2> QED  BY <1>1, <1>5, <2>1, EmptySeq DEF Records
<1>8. Handles
  BY <1>1, EmptySeq, FS_EmptySet DEF Handles, HandlesAreDistinct
<1>9. Finished
  BY <1>1, <1>4, EmptySeq DEF Finished, Building, Kinds
<1>10. ShapesNamed
  <2> HIDE DEF Nothing
  <2> QED  BY <1>1, <1>5, EmptySeq DEF ShapesNamed
<1>11. Netlist
  BY <1>1, NewArenaOK DEF Netlist, NewArena, Kinds
<1>12. Numbering
  <2>1. DOMAIN ids = {} /\ Cardinality(DOMAIN ids) = 0 /\ 1 .. 0 = {}
    BY <1>1, EmptySeq, FS_EmptySet
  <2> QED  BY <1>1, <2>1 DEF Numbering, Numbered, Building, Kinds
<1>13. NetIdsAgree
  BY <1>1, EmptySeq DEF NetIdsAgree, AgreeIn, Nothing
<1>14. BindingsAgree
  BY <1>1, EmptySeq DEF BindingsAgree, Nothing
<1>15. Contacts
  BY <1>1, EmptySeq DEF Contacts, NoStrayContact, Nothing
<1>16. Devices
  BY <1>1, EmptySeq DEF Devices, Nothing
<1> QED  BY <1>6, <1>7, <1>8, <1>9, <1>10, <1>11, <1>12, <1>13, <1>14, <1>15, <1>16 DEF IInv

LEMMA InvariantKept == IInv /\ [Next]_vars => IInv'
<1> SUFFICES ASSUME IInv, [Next]_vars PROVE IInv'
  OBVIOUS
<1>1. Control' /\ Records' /\ Handles' /\ Finished' /\ ShapesNamed' /\ Netlist' /\ Numbering'
      /\ NetIdsAgree' /\ BindingsAgree' /\ Contacts' /\ Devices'
  BY ControlKept, RecordsKept, HandlesKept, FinishedKept, ShapesNamedKept, NetlistKept,
     NumberingKept, AgreementKept, BindingsKept, ContactsKept, DevicesKept
<1> QED  BY <1>1 DEF IInv

(* The invariant holds of every reachable state of the compilation. *)
THEOREM Invariance == Spec => []IInv
  BY InvariantInit, InvariantKept, PTL DEF Spec

-----------------------------------------------------------------------------
(* The variables have their types: in particular no phase's position runs past
   the records it walks, and no more spaces are built than the program has. *)
THEOREM TypeCorrect == Spec => []TypeOK
<1>1. IInv => TypeOK
  <2> SUFFICES ASSUME IInv PROVE TypeOK
    OBVIOUS
  <2>1. Control /\ Records /\ Handles /\ Finished /\ ShapesNamed
    BY DEF IInv
  <2>2. pos \in 0 .. (IF phase \in {"done", "failed"} THEN pos
                      ELSE IF phase = "evaluate" THEN Len(Space.nets) ELSE LoopEnd)
    <3>1. Len(Space.nets) \in Nat /\ \A kind \in Kinds : Len(emitted[kind]) \in Nat
      BY <2>1, ProgramFacts, SeqFacts DEF Records
    <3>2. phase \in Building => LoopEnd \in Nat
      BY <3>1 DEF LoopEnd, Building
    <3> HIDE DEF LoopEnd, Space
    <3> QED  BY <2>1, <3>1, <3>2 DEF Control, Building
  <2>3. \A n \in DOMAIN ids : ids[n] \in Nat \ {0}
    BY <2>1, FS_CardinalityType DEF Handles
  <2>4. \A i \in DOMAIN made.polygons : made.polygons[i].net \in Known(Nets)
    BY <2>1 DEF ShapesNamed, Named, Handles, Kinds, Known
  <2> QED  BY <2>1, <2>2, <2>3, <2>4 DEF TypeOK, Control, Records, Handles, Finished, Building
<1> QED  BY <1>1, Invariance, PTL

(* Two nets of the program never share an id, whatever the spaces declare. *)
THEOREM DistinctHandles == Spec => []HandlesAreDistinct
<1>1. IInv => HandlesAreDistinct
  BY DEF IInv, Handles
<1> QED  BY <1>1, Invariance, PTL

(* The netlist under construction is linked both ways at every step: a net lists
   exactly the pins that name it. *)
THEOREM NetlistConnected == Spec => []PinsOnTheirNets
<1>1. IInv => PinsOnTheirNets
  BY DEF IInv, Netlist, ArenaOK, Connected, PinsOnTheirNets
<1> QED  BY <1>1, Invariance, PTL

(* A component's window of the pins covers its own pins and no other's. *)
THEOREM WindowsApart == Spec => []ComponentWindows
<1>1. IInv => ComponentWindows
  BY DEF IInv, Netlist, ArenaOK, Windowed, ComponentWindows
<1> QED  BY <1>1, Invariance, PTL

(* With aligned spaces, the emitter's id on every lowered pour, contact and
   route is the space's own number of the net it is named for. *)
THEOREM NumberingsAgree == Spec => []NetIdsAgree
<1>1. IInv => NetIdsAgree
  BY DEF IInv
<1> QED  BY <1>1, Invariance, PTL

(* With aligned spaces, the binding of a device's terminal too carries the space's
   own number of its net, though the net came through a table of names. *)
THEOREM BindingsNamed == Spec => []BindingsAgree
<1>1. IInv => BindingsAgree
  BY DEF IInv
<1> QED  BY <1>1, Invariance, PTL

(* A contact is left without a net only if no pour of its space with a net meets it
   on its layers: the pours are all lowered before the first contact. *)
THEOREM ContactsFindTheirPours == Spec => []NoStrayContact
<1>1. IInv => NoStrayContact
  BY DEF IInv, Contacts
<1> QED  BY <1>1, Invariance, PTL

(* Every terminal of a device whose ports' names are no other terminals' carries
   the net routed to its port, in whatever order the table is walked. *)
THEOREM TerminalsOnTheirPorts == Spec => []SeparatePortsKeepTheirNets
<1>1. IInv => SeparatePortsKeepTheirNets
  BY DEF IInv, Devices, DeviceOK, SeparatePortsKeepTheirNets
<1> QED  BY <1>1, Invariance, PTL
=============================================================================
