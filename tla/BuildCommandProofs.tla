------------------------- MODULE BuildCommandProofs -------------------------
(* What is proved of the build command, for any jobs, whatever metal their
   spaces hold: its parser reads what the grammar says and always advances, what
   leaves it was let through, spaces are exported whole, and its verdict is right.

   The first half is about the continuity check alone, which the verdict rests on:
   from the lists its pieces come in, over the welds, the bridges and a run of
   Tarjan's algorithm, to the nets it fails, in whatever order the islands come. *)
EXTENDS BuildCommand, FiniteSetTheorems, SequenceTheorems, WellFoundedInduction, TLAPS

-----------------------------------------------------------------------------
(* Induction over positions, by the least one that fails. *)

LEMMA LeastIndex ==
    ASSUME NEW S \in SUBSET Nat, S # {}
    PROVE  \E x \in S : \A y \in S : x <= y
<1>1. PICK x \in S : \A y \in S : ~ (<<y, x>> \in OpToRel(<, Nat))
  BY NatLessThanWellFounded, WFMin
<1>2. ASSUME NEW y \in S, y < x
      PROVE  <<y, x>> \in OpToRel(<, Nat)
  BY <1>2, Zenon DEF OpToRel
<1>3. \A y \in S : ~ (y < x)
  BY <1>1, <1>2
<1> QED  BY <1>3

(* What holds of a position when it holds of all after it, holds of all. *)
LEMMA Descend ==
    ASSUME NEW N \in Nat, NEW S,
           \A n \in 0..N : (\A m \in n + 1..N : m \in S) => n \in S
    PROVE  \A n \in 0..N : n \in S
<1> DEFINE T == {n \in Nat : n <= N /\ N - n \notin S}
<1>1. CASE T = {}
  <2>1. \A n \in 0..N : N - n \in Nat /\ N - n <= N /\ N - (N - n) = n
    OBVIOUS
  <2> QED  BY <1>1, <2>1
<1>2. CASE T # {}
  <2>1. T \in SUBSET Nat
    OBVIOUS
  <2>2. PICK x \in T : \A y \in T : x <= y
    <3> HIDE DEF T
    <3> QED  BY <1>2, <2>1, LeastIndex
  <2>3. N - x \in 0..N /\ N - x \notin S
    BY <2>2
  <2>4. ASSUME NEW m \in N - x + 1..N PROVE m \in S
    <3>1. N - m \in Nat /\ N - m <= N /\ N - (N - m) = m /\ N - m < x
      BY <2>2
    <3>2. N - m \notin T
      BY <2>2, <3>1
    <3> QED  BY <3>1, <3>2
  <2> QED  BY <2>3, <2>4
<1> QED  BY <1>1, <1>2

(* What holds of a position when it holds of all before it, holds of all. *)
LEMMA Climb ==
    ASSUME NEW lo \in Nat, NEW hi \in Nat, NEW S,
           \A n \in lo..hi : (\A m \in lo..n - 1 : m \in S) => n \in S
    PROVE  \A n \in lo..hi : n \in S
<1> DEFINE T == {n \in lo..hi : n \notin S}
<1>1. CASE T = {}
  BY <1>1
<1>2. CASE T # {}
  <2>1. T \in SUBSET Nat
    OBVIOUS
  <2>2. PICK x \in T : \A y \in T : x <= y
    <3> HIDE DEF T
    <3> QED  BY <1>2, <2>1, LeastIndex
  <2> QED  BY <2>2
<1> QED  BY <1>1, <1>2

(* A function of the positions from lo to hi, each value made of the one before. *)
Grows(f, lo, hi, State, a, G) ==
    /\ f \in [lo..hi -> State] /\ f[lo] = a
    /\ \A k \in lo + 1..hi : f[k] = G[<<k, f[k - 1]>>]

LEMMA Recursion ==
    ASSUME NEW lo \in Nat, NEW hi \in Nat, lo <= hi, NEW State, NEW a \in State,
           NEW G \in [(lo + 1..hi) \X State -> State]
    PROVE  \E f : Grows(f, lo, hi, State, a, G)
<1> DEFINE S == {n \in lo..hi : \E f : Grows(f, lo, n, State, a, G)}
<1>1. ASSUME NEW n \in lo..hi, \A m \in lo..n - 1 : m \in S
      PROVE  n \in S
  <2>1. CASE n = lo
    <3> DEFINE f == [k \in lo..lo |-> a]
    <3>1. lo + 1..lo = {}
      OBVIOUS
    <3>2. Grows(f, lo, lo, State, a, G)
      BY <3>1 DEF Grows
    <3> QED  BY <2>1, <3>2
  <2>2. CASE n # lo
    <3>1. n - 1 \in lo..n - 1 /\ n - 1 \in Nat /\ n - 1 + 1 = n
      BY <2>2
    <3>2. PICK f : Grows(f, lo, n - 1, State, a, G)
      <4>1. n - 1 \in S
        BY <1>1, <3>1
      <4> QED  BY <4>1
    <3>3. f \in [lo..n - 1 -> State] /\ f[lo] = a
          /\ \A k \in lo + 1..n - 1 : f[k] = G[<<k, f[k - 1]>>]
      BY <3>2 DEF Grows
    <3> DEFINE g == [k \in lo..n |-> IF k = n THEN G[<<n, f[n - 1]>>] ELSE f[k]]
    <3>4. G[<<n, f[n - 1]>>] \in State
      <4>1. f[n - 1] \in State
        BY <3>1, <3>3
      <4>2. n \in lo + 1..hi
        BY <2>2
      <4> QED  BY <4>1, <4>2
    <3>5. g[n] = G[<<n, f[n - 1]>>] /\ \A k \in lo..n - 1 : g[k] = f[k]
      OBVIOUS
    <3>6. g \in [lo..n -> State]
      <4>1. \A k \in lo..n : k = n \/ k \in lo..n - 1
        OBVIOUS
      <4>2. \A k \in lo..n : g[k] \in State
        BY <3>3, <3>4, <3>5, <4>1
      <4>3. g = [k \in lo..n |-> g[k]]
        OBVIOUS
      <4> HIDE DEF g
      <4> QED  BY <4>2, <4>3
    <3> HIDE DEF g
    <3>7. ASSUME NEW k \in lo + 1..n
          PROVE  g[k] = G[<<k, g[k - 1]>>]
      <4>1. k - 1 \in lo..n - 1
        OBVIOUS
      <4>2. CASE k = n
        BY <3>5, <4>1, <4>2
      <4>3. CASE k # n
        <5>1. k \in lo..n - 1 /\ k \in lo + 1..n - 1
          BY <4>3
        <5> QED  BY <3>3, <3>5, <4>1, <5>1
      <4> QED  BY <4>2, <4>3
    <3>8. g[lo] = a
      BY <2>2, <3>3, <3>5
    <3>9. Grows(g, lo, n, State, a, G)
      BY <3>6, <3>7, <3>8 DEF Grows
    <3> QED  BY <3>9
  <2> QED  BY <2>1, <2>2
<1>2. \A n \in lo..hi : n \in S
  <2> HIDE DEF S
  <2> QED  BY <1>1, Climb
<1>3. hi \in S
  BY <1>2
<1> QED  BY <1>3

-----------------------------------------------------------------------------
(* Lists, and lists of lists one after the other. *)

LEMMA ListFacts ==
    ASSUME NEW s, IsList(s)
    PROVE  Len(s) \in Nat /\ DOMAIN s = 1..Len(s)
  BY DEF IsList

LEMMA ListOf ==
    ASSUME NEW T, NEW s \in Seq(T)
    PROVE  IsList(s) /\ Range(s) \subseteq T /\ \A x : x \in Range(s) <=> \E i \in DOMAIN s : x = s[i]
<1>1. Len(s) \in Nat /\ DOMAIN s = 1..Len(s) /\ \A i \in 1..Len(s) : s[i] \in T
  OBVIOUS
<1>2. Range(s) \subseteq T
  BY <1>1 DEF Range
<1>3. s \in [1..Len(s) -> Range(s)]
  BY <1>1 DEF Range
<1>4. s \in Seq(Range(s))
  BY <1>1, <1>3
<1> QED  BY <1>2, <1>4 DEF IsList, Range

LEMMA SameLength ==
    ASSUME NEW s, NEW t, IsList(s), t = [i \in DOMAIN s |-> t[i]]
    PROVE  IsList(t) /\ Len(t) = Len(s)
<1>1. Len(s) \in Nat /\ DOMAIN s = 1..Len(s)
  BY ListFacts
<1>2. t \in [1..Len(s) -> Range(t)]
  BY <1>1 DEF Range
<1> QED  BY <1>1, <1>2 DEF IsList

LEMMA Joined ==
    ASSUME NEW T, NEW s \in Seq(T), NEW t \in Seq(T)
    PROVE  s \o t \in Seq(T) /\ Range(s \o t) = Range(s) \cup Range(t)
<1> DEFINE u == s \o t
<1>1. /\ Len(s) \in Nat /\ Len(t) \in Nat /\ DOMAIN s = 1..Len(s) /\ DOMAIN t = 1..Len(t)
      /\ u \in Seq(T) /\ DOMAIN u = 1..Len(s) + Len(t)
  OBVIOUS
<1>2. \A i \in 1..Len(s) + Len(t) : u[i] = IF i <= Len(s) THEN s[i] ELSE t[i - Len(s)]
  OBVIOUS
<1> HIDE DEF u
<1>3. ASSUME NEW i \in DOMAIN u PROVE u[i] \in Range(s) \cup Range(t)
  <2>1. CASE i <= Len(s)
    BY <1>1, <1>2, <2>1 DEF Range
  <2>2. CASE ~(i <= Len(s))
    <3>1. i - Len(s) \in DOMAIN t /\ u[i] = t[i - Len(s)]
      BY <1>1, <1>2, <2>2
    <3> QED  BY <3>1 DEF Range
  <2> QED  BY <2>1, <2>2
<1>4. ASSUME NEW i \in DOMAIN s PROVE s[i] \in Range(u)
  <2>1. i \in DOMAIN u /\ u[i] = s[i]
    BY <1>1, <1>2
  <2> QED  BY <2>1 DEF Range
<1>5. ASSUME NEW i \in DOMAIN t PROVE t[i] \in Range(u)
  <2>1. Len(s) + i \in DOMAIN u /\ u[Len(s) + i] = t[i]
    BY <1>1, <1>2
  <2> QED  BY <2>1 DEF Range
<1>6. Range(u) = Range(s) \cup Range(t)
  BY <1>3, <1>4, <1>5 DEF Range
<1> QED  BY <1>1, <1>6 DEF u

(* What Flat puts one after the other. *)
LEMMA FlatRange ==
    ASSUME NEW T, NEW seqs, IsList(seqs), \A i \in DOMAIN seqs : seqs[i] \in Seq(T)
    PROVE  /\ Flat(seqs) \in Seq(T)
           /\ \A x : x \in Range(Flat(seqs)) <=> \E i \in DOMAIN seqs : x \in Range(seqs[i])
<1> DEFINE N == Len(seqs)
           Is(f) == f = [k \in 0..N |-> IF k = 0 THEN <<>> ELSE f[k - 1] \o seqs[k]]
           G == [kx \in (0 + 1..N) \X Seq(T) |-> kx[2] \o seqs[kx[1]]]
<1>1. N \in Nat /\ DOMAIN seqs = 1..N /\ 0 + 1..N = 1..N
  BY ListFacts
<1>2. \A k \in 1..N : \A x \in Seq(T) : x \o seqs[k] \in Seq(T) /\ G[<<k, x>>] = x \o seqs[k]
  <2>1. ASSUME NEW k \in 1..N, NEW x \in Seq(T) PROVE x \o seqs[k] \in Seq(T)
    BY <1>1
  <2>2. \A k \in 1..N : \A x \in Seq(T) : <<k, x>> \in (0 + 1..N) \X Seq(T)
    BY <1>1
  <2> QED  BY <2>1, <2>2
<1>3. G \in [(0 + 1..N) \X Seq(T) -> Seq(T)]
  BY <1>1, <1>2
<1>4. <<>> \in Seq(T)
  OBVIOUS
<1>5. PICK f : Grows(f, 0, N, Seq(T), <<>>, G)
  <2> HIDE DEF G
  <2>1. 0 \in Nat /\ N \in Nat /\ 0 <= N
    BY <1>1
  <2> HIDE DEF N
  <2> QED  BY <2>1, <1>3, <1>4, Recursion
<1> HIDE DEF G
<1>6. Is(f)
  <2>1. f \in [0..N -> Seq(T)] /\ f[0] = <<>> /\ \A k \in 1..N : f[k] = G[<<k, f[k - 1]>>]
    BY <1>1, <1>5 DEF Grows
  <2>2. ASSUME NEW k \in 1..N PROVE f[k] = f[k - 1] \o seqs[k]
    <3>1. f[k - 1] \in Seq(T)
      BY <1>1, <2>1
    <3> QED  BY <1>2, <2>1, <3>1
  <2>3. \A k \in 0..N : f[k] = IF k = 0 THEN <<>> ELSE f[k - 1] \o seqs[k]
    <3>1. \A k \in 0..N : k = 0 \/ k \in 1..N
      BY <1>1
    <3> QED  BY <2>1, <2>2, <3>1
  <2> QED  BY <2>1, <2>3
<1> DEFINE c == CHOOSE g : Is(g)
<1>7. Is(c)
  BY <1>6
<1>8. Flat(seqs) = c[N]
  BY DEF Flat
<1> HIDE DEF c
<1>9. c[0] = <<>> /\ \A k \in 1..N : c[k] = c[k - 1] \o seqs[k]
  <2>1. \A k \in 0..N : c[k] = IF k = 0 THEN <<>> ELSE c[k - 1] \o seqs[k]
    BY <1>7
  <2>2. 0 \in 0..N /\ \A k \in 1..N : k \in 0..N /\ k # 0
    BY <1>1
  <2> QED  BY <2>1, <2>2
<1> HIDE DEF Is
<1> DEFINE Holds(k, x) == x \in Range(c[k]) <=> \E i \in 1..k : x \in Range(seqs[i])
           S == {k \in 0..N : c[k] \in Seq(T) /\ \A x : Holds(k, x)}
<1>10. ASSUME NEW n \in 0..N, \A m \in 0..n - 1 : m \in S
       PROVE  n \in S
  <2>1. CASE n = 0
    <3>1. Range(c[0]) = {} /\ 1..0 = {}
      BY <1>9 DEF Range
    <3> QED  BY <1>4, <1>9, <2>1, <3>1
  <2>2. CASE n # 0
    <3>1. n - 1 \in 0..n - 1 /\ n \in 1..N
      BY <2>2
    <3>2. n - 1 \in S
      BY <1>10, <3>1
    <3>3. c[n - 1] \in Seq(T) /\ (\A x : Holds(n - 1, x)) /\ seqs[n] \in Seq(T)
          /\ c[n] = c[n - 1] \o seqs[n]
      BY <1>1, <1>9, <3>1, <3>2
    <3>4. c[n] \in Seq(T) /\ Range(c[n]) = Range(c[n - 1]) \cup Range(seqs[n])
      BY <3>3, Joined
    <3>5. \A i : i \in 1..n <=> i \in 1..n - 1 \/ i = n
      BY <3>1
    <3>6. \A x : Holds(n, x)
      BY <3>3, <3>4, <3>5
    <3> QED  BY <3>4, <3>6
  <2> QED  BY <2>1, <2>2
<1> HIDE DEF S
<1>11. N \in S
  <2>1. \A n \in 0..N : n \in S
    BY <1>1, <1>10, Climb
  <2> QED  BY <1>1, <2>1
<1> QED  BY <1>1, <1>8, <1>11 DEF S

-----------------------------------------------------------------------------
(* Welding: pieces that weld have one root, and no root crosses what no weld
   crosses. *)

(* A part that no root crosses; roots that only come together. *)
Whole(f, D, part) == \A x, y \in D : f[x] = f[y] => (x \in part <=> y \in part)
Coarser(f, g, D) == \A x, y \in D : f[x] = f[y] => g[x] = g[y]

LEMMA UnionTogether ==
    ASSUME NEW D, NEW f \in [D -> D], NEW i \in D, NEW j \in D
    PROVE  /\ Union(f, i, j) \in [D -> D] /\ Coarser(f, Union(f, i, j), D)
           /\ Union(f, i, j)[i] = Union(f, i, j)[j]
  BY DEF Union, Coarser

LEMMA UnionWhole ==
    ASSUME NEW D, NEW f \in [D -> D], NEW i \in D, NEW j \in D,
           NEW part, Whole(f, D, part), i \in part <=> j \in part
    PROVE  Whole(Union(f, i, j), D, part)
<1> DEFINE u == Union(f, i, j)
<1>1. \A x \in D : u[x] = IF f[x] = f[i] THEN f[j] ELSE f[x]
  BY DEF Union
<1>2. ASSUME NEW x \in D, NEW y \in D, u[x] = u[y]
      PROVE  x \in part <=> y \in part
  <2>1. CASE f[x] = f[y]
    BY <2>1 DEF Whole
  <2>2. CASE f[x] = f[i] /\ f[y] # f[i]
    <3>1. f[y] = f[j]
      BY <1>1, <1>2, <2>2
    <3> QED  BY <2>2, <3>1 DEF Whole
  <2>3. CASE f[y] = f[i] /\ f[x] # f[i]
    <3>1. f[x] = f[j]
      BY <1>1, <1>2, <2>3
    <3> QED  BY <2>3, <3>1 DEF Whole
  <2>4. CASE f[x] # f[i] /\ f[y] # f[i]
    BY <1>1, <1>2, <2>1, <2>4
  <2> QED  BY <2>1, <2>2, <2>3, <2>4
<1> QED  BY <1>2 DEF Whole

(* A part that no weld crosses. *)
Uncrossed(raw, part) ==
    \A x, y \in DOMAIN raw : Weldable(raw[x], raw[y]) => (x \in part <=> y \in part)

WeldedUpTo(raw, i, f, g, j, part) ==
    /\ g \in [DOMAIN raw -> DOMAIN raw] /\ Coarser(f, g, DOMAIN raw)
    /\ \A m \in i + 1..j : Weldable(raw[i], raw[m]) => g[i] = g[m]
    /\ Uncrossed(raw, part) /\ Whole(f, DOMAIN raw, part) => Whole(g, DOMAIN raw, part)

LEMMA WeldFromKeeps ==
    ASSUME NEW raw, IsList(raw), NEW i \in DOMAIN raw, NEW f \in [DOMAIN raw -> DOMAIN raw], NEW part
    PROVE  WeldedUpTo(raw, i, f, WeldFrom(raw, i, f), Len(raw), part)
<1> DEFINE N == Len(raw)
           D == DOMAIN raw
           State == [D -> D]
           Step(j, x) == IF Weldable(raw[i], raw[j]) THEN Union(x, i, j) ELSE x
           Is(g) == g = [j \in i..N |-> IF j = i THEN f ELSE
                            IF Weldable(raw[i], raw[j]) THEN Union(g[j - 1], i, j) ELSE g[j - 1]]
           G == [jx \in (i + 1..N) \X State |-> Step(jx[1], jx[2])]
<1>1. N \in Nat /\ D = 1..N /\ i \in Nat /\ i <= N /\ \A j \in i..N : j \in D
  BY ListFacts
<1>2. ASSUME NEW j \in i + 1..N, NEW x \in State
      PROVE  Step(j, x) \in State /\ G[<<j, x>>] = Step(j, x)
  <2>1. j \in D
    BY <1>1
  <2>2. Union(x, i, j) \in State
    BY <2>1, UnionTogether
  <2>3. <<j, x>> \in (i + 1..N) \X State
    OBVIOUS
  <2> QED  BY <2>2, <2>3
<1>3. G \in [(i + 1..N) \X State -> State]
  <2> HIDE DEF Step, State
  <2>1. \A jx \in (i + 1..N) \X State : jx[1] \in i + 1..N /\ jx[2] \in State
    OBVIOUS
  <2> QED  BY <1>2, <2>1
<1> HIDE DEF G
<1>4. PICK g : Grows(g, i, N, State, f, G)
  <2> HIDE DEF N, State
  <2> QED  BY <1>1, <1>3, Recursion DEF State
<1>5. Is(g)
  <2>1. g \in [i..N -> State] /\ g[i] = f /\ \A k \in i + 1..N : g[k] = G[<<k, g[k - 1]>>]
    BY <1>4 DEF Grows
  <2>2. ASSUME NEW k \in i + 1..N PROVE g[k] = Step(k, g[k - 1])
    <3>1. k - 1 \in i..N
      BY <1>1
    <3>2. g[k - 1] \in State
      BY <2>1, <3>1
    <3> HIDE DEF Step, State
    <3> QED  BY <1>2, <2>1, <3>2
  <2>3. \A k \in i..N : k = i \/ k \in i + 1..N
    BY <1>1
  <2>4. \A k \in i..N : g[k] = IF k = i THEN f ELSE Step(k, g[k - 1])
    <3> HIDE DEF Step, State
    <3> QED  BY <2>1, <2>2, <2>3
  <2> QED  BY <2>1, <2>4
<1> DEFINE c == CHOOSE h : Is(h)
<1>6. Is(c)
  BY <1>5
<1>7. WeldFrom(raw, i, f) = c[N]
  BY DEF WeldFrom
<1> HIDE DEF c
<1>8. c[i] = f /\ \A k \in i + 1..N : c[k] = Step(k, c[k - 1])
  <2>1. \A k \in i..N : c[k] = IF k = i THEN f ELSE
                            IF Weldable(raw[i], raw[k]) THEN Union(c[k - 1], i, k) ELSE c[k - 1]
    BY <1>6
  <2>2. i \in i..N /\ \A k \in i + 1..N : k \in i..N /\ k # i
    BY <1>1
  <2> QED  BY <2>1, <2>2
<1> DEFINE S == {j \in i..N : WeldedUpTo(raw, i, f, c[j], j, part)}
<1>9. ASSUME NEW n \in i..N, \A m \in i..n - 1 : m \in S
      PROVE  n \in S
  <2>1. CASE n = i
    <3>1. i + 1..i = {}
      BY <1>1
    <3>2. WeldedUpTo(raw, i, f, c[i], i, part)
      BY <1>8, <3>1 DEF WeldedUpTo, Coarser
    <3> QED  BY <2>1, <3>2
  <2>2. CASE n # i
    <3> DEFINE e == c[n - 1]
    <3>1. n - 1 \in i..n - 1 /\ n \in i + 1..N /\ n \in D
      BY <1>1, <2>2
    <3>2. n - 1 \in S
      BY <1>9, <3>1
    <3>3. WeldedUpTo(raw, i, f, e, n - 1, part) /\ c[n] = Step(n, e)
      BY <1>8, <3>1, <3>2
    <3>4. /\ e \in State /\ Coarser(f, e, D)
          /\ \A m \in i + 1..n - 1 : Weldable(raw[i], raw[m]) => e[i] = e[m]
          /\ Uncrossed(raw, part) /\ Whole(f, D, part) => Whole(e, D, part)
      BY <3>3 DEF WeldedUpTo
    <3> HIDE DEF e
    <3>5. \A m : m \in i + 1..n <=> m \in i + 1..n - 1 \/ m = n
      BY <1>1, <3>1
    <3>6. \A m \in i + 1..n - 1 : m \in D
      BY <1>1, <3>1
    <3>7. CASE ~Weldable(raw[i], raw[n])
      <4>1. c[n] = e
        BY <3>3, <3>7
      <4> QED  BY <3>4, <3>5, <3>7, <4>1 DEF WeldedUpTo
    <3>8. CASE Weldable(raw[i], raw[n])
      <4>1. c[n] = Union(e, i, n)
        BY <3>3, <3>8
      <4>2. c[n] \in State /\ Coarser(e, c[n], D) /\ c[n][i] = c[n][n]
        <5> DEFINE u == Union(e, i, n)
        <5>1. e \in [D -> D] /\ i \in D /\ n \in D
          BY <3>1, <3>4
        <5>2. u \in [D -> D] /\ Coarser(e, u, D) /\ u[i] = u[n]
          <6> HIDE DEF D
          <6>1. u \in [D -> D]
            BY <5>1, UnionTogether
          <6>2. Coarser(e, u, D)
            BY <5>1, UnionTogether
          <6>3. u[i] = u[n]
            BY <5>1, UnionTogether
          <6> QED  BY <6>1, <6>2, <6>3
        <5> HIDE DEF u
        <5> QED  BY <4>1, <5>2 DEF u
      <4>3. Coarser(f, c[n], D)
        BY <3>4, <4>2 DEF Coarser
      <4>4. \A m \in i + 1..n : Weldable(raw[i], raw[m]) => c[n][i] = c[n][m]
        BY <3>4, <3>5, <3>6, <4>2 DEF Coarser
      <4>5. ASSUME Uncrossed(raw, part), Whole(f, D, part)
            PROVE  Whole(c[n], D, part)
        <5>1. i \in part <=> n \in part
          BY <3>1, <3>8, <4>5 DEF Uncrossed
        <5> QED  BY <3>1, <3>4, <4>1, <4>5, <5>1, UnionWhole
      <4> QED  BY <4>2, <4>3, <4>4, <4>5 DEF WeldedUpTo
    <3> QED  BY <3>7, <3>8
  <2> QED  BY <2>1, <2>2
<1> HIDE DEF S
<1>10. N \in S
  <2>1. \A n \in i..N : n \in S
    BY <1>1, <1>9, Climb
  <2> QED  BY <1>1, <2>1
<1> QED  BY <1>7, <1>10 DEF S

AllWelded(raw, g, i, part) ==
    /\ g \in [DOMAIN raw -> DOMAIN raw]
    /\ \A k \in 1..i : \A m \in k + 1..Len(raw) : Weldable(raw[k], raw[m]) => g[k] = g[m]
    /\ Uncrossed(raw, part) => Whole(g, DOMAIN raw, part)

LEMMA RootsAre ==
    ASSUME NEW raw, IsList(raw), NEW part
    PROVE  AllWelded(raw, Roots(raw), Len(raw), part)
<1> DEFINE N == Len(raw)
           D == DOMAIN raw
           State == [D -> D]
           Start == [x \in D |-> x]
           Is(g) == g = [k \in 0..N |-> IF k = 0 THEN [x \in DOMAIN raw |-> x] ELSE WeldFrom(raw, k, g[k - 1])]
           G == [kx \in (0 + 1..N) \X State |-> WeldFrom(raw, kx[1], kx[2])]
<1>1. N \in Nat /\ D = 1..N /\ 0 \in Nat /\ 0 <= N /\ 0 + 1..N = 1..N
  BY ListFacts
<1>2. ASSUME NEW k \in 1..N, NEW x \in State
      PROVE  WeldFrom(raw, k, x) \in State /\ G[<<k, x>>] = WeldFrom(raw, k, x)
  <2>1. k \in D
    BY <1>1
  <2>2. WeldFrom(raw, k, x) \in State
    BY <2>1, WeldFromKeeps DEF WeldedUpTo
  <2>3. <<k, x>> \in (0 + 1..N) \X State
    BY <1>1
  <2> QED  BY <2>2, <2>3
<1>3. G \in [(0 + 1..N) \X State -> State]
  <2>1. \A kx \in (0 + 1..N) \X State : kx[1] \in 1..N /\ kx[2] \in State
    BY <1>1
  <2> HIDE DEF State
  <2> QED  BY <1>2, <2>1
<1> HIDE DEF G
<1>4. Start \in State
  OBVIOUS
<1>5. PICK g : Grows(g, 0, N, State, Start, G)
  <2> HIDE DEF N, State, Start
  <2> QED  BY <1>1, <1>3, <1>4, Recursion
<1>6. Is(g)
  <2>1. g \in [0..N -> State] /\ g[0] = Start /\ \A k \in 1..N : g[k] = G[<<k, g[k - 1]>>]
    BY <1>1, <1>5 DEF Grows
  <2>2. ASSUME NEW k \in 1..N PROVE g[k] = WeldFrom(raw, k, g[k - 1])
    <3>1. k - 1 \in 0..N
      BY <1>1
    <3>2. g[k - 1] \in State
      BY <2>1, <3>1
    <3> HIDE DEF State
    <3> QED  BY <1>2, <2>1, <3>2
  <2>3. \A k \in 0..N : k = 0 \/ k \in 1..N
    BY <1>1
  <2>4. \A k \in 0..N : g[k] = IF k = 0 THEN Start ELSE WeldFrom(raw, k, g[k - 1])
    <3> HIDE DEF Start
    <3> QED  BY <2>1, <2>2, <2>3
  <2> QED  BY <2>1, <2>4
<1> DEFINE c == CHOOSE h : Is(h)
<1>7. Is(c)
  BY <1>6
<1>8. Roots(raw) = c[N]
  BY DEF Roots
<1> HIDE DEF c
<1>9. c[0] = Start /\ \A k \in 1..N : c[k] = WeldFrom(raw, k, c[k - 1])
  <2>1. \A k \in 0..N : c[k] = IF k = 0 THEN Start ELSE WeldFrom(raw, k, c[k - 1])
    BY <1>7
  <2>2. 0 \in 0..N /\ \A k \in 1..N : k \in 0..N /\ k # 0
    BY <1>1
  <2> HIDE DEF Start, Is
  <2> QED  BY <2>1, <2>2
<1> DEFINE S == {k \in 0..N : AllWelded(raw, c[k], k, part)}
<1>10. ASSUME NEW n \in 0..N, \A m \in 0..n - 1 : m \in S
      PROVE  n \in S
  <2>1. CASE n = 0
    <3>1. 1..0 = {}
      OBVIOUS
    <3>2. Whole(Start, D, part)
      BY DEF Whole
    <3>3. AllWelded(raw, c[0], 0, part)
      BY <1>4, <1>9, <3>1, <3>2 DEF AllWelded
    <3> QED  BY <2>1, <3>3
  <2>2. CASE n # 0
    <3> DEFINE e == c[n - 1]
    <3>1. n - 1 \in 0..n - 1 /\ n \in 1..N /\ n \in D
      BY <1>1, <2>2
    <3>2. n - 1 \in S
      BY <1>10, <3>1
    <3>3. AllWelded(raw, e, n - 1, part) /\ c[n] = WeldFrom(raw, n, e)
      BY <1>9, <3>1, <3>2
    <3>4. /\ e \in State
          /\ \A k \in 1..n - 1 : \A m \in k + 1..N : Weldable(raw[k], raw[m]) => e[k] = e[m]
          /\ Uncrossed(raw, part) => Whole(e, D, part)
      BY <3>3 DEF AllWelded
    <3> HIDE DEF e
    <3>5. WeldedUpTo(raw, n, e, c[n], N, part)
      BY <3>1, <3>3, <3>4, WeldFromKeeps
    <3>6. /\ c[n] \in State /\ Coarser(e, c[n], D)
          /\ \A m \in n + 1..N : Weldable(raw[n], raw[m]) => c[n][n] = c[n][m]
          /\ Uncrossed(raw, part) /\ Whole(e, D, part) => Whole(c[n], D, part)
      BY <3>5 DEF WeldedUpTo
    <3>7. \A k \in 1..n : k \in 1..n - 1 \/ k = n
      BY <3>1
    <3>8. ASSUME NEW k \in 1..n, NEW m \in k + 1..N, Weldable(raw[k], raw[m])
          PROVE  c[n][k] = c[n][m]
      <4>1. k \in D /\ m \in D
        BY <1>1, <3>1
      <4> QED  BY <3>4, <3>6, <3>7, <3>8, <4>1 DEF Coarser
    <3> QED  BY <3>4, <3>6, <3>8 DEF AllWelded
  <2> QED  BY <2>1, <2>2
<1> HIDE DEF S
<1>11. N \in S
  <2>1. \A n \in 0..N : n \in S
    BY <1>1, <1>10, Climb
  <2> QED  BY <1>1, <2>1
<1> QED  BY <1>8, <1>11 DEF S

(* A finite total order has a first. *)
Ordered(L, n) ==
    /\ \A a, b \in 1..n : a = b \/ <<a, b>> \in L \/ <<b, a>> \in L
    /\ \A a, b, c \in 1..n : <<a, b>> \in L /\ <<b, c>> \in L => <<a, c>> \in L

LEMMA LeastOfOrder ==
    ASSUME NEW n \in Nat, NEW T \in SUBSET (1..n), T # {}, NEW L, Ordered(L, n)
    PROVE  \E a \in T : \A c \in T : c = a \/ <<a, c>> \in L
<1> DEFINE Up(k) == {c \in T : c <= k}
           Starts(a, k) == a \in Up(k) /\ \A c \in Up(k) : c = a \/ <<a, c>> \in L
           S == {k \in 0..n : Up(k) = {} \/ \E a \in Up(k) : Starts(a, k)}
<1>0. \A c \in T : c \in 1..n
  OBVIOUS
<1>1. ASSUME NEW k \in 0..n, \A m \in 0..k - 1 : m \in S
      PROVE  k \in S
  <2>1. CASE k = 0
    <3>1. Up(0) = {}
      <4>1. \A c \in 1..n : ~(c <= 0)
        OBVIOUS
      <4> QED  BY <1>0, <4>1
    <3> QED  BY <2>1, <3>1
  <2>2. CASE k # 0
    <3>1. k - 1 \in S /\ k \in 1..n /\ k \in Nat
      <4>1. k - 1 \in 0..k - 1 /\ k \in 1..n /\ k \in Nat
        BY <2>2
      <4> HIDE DEF S
      <4> QED  BY <1>1, <4>1
    <3>2. \A c : c \in Up(k) <=> c \in Up(k - 1) \/ (c = k /\ k \in T)
      <4>1. \A c \in 1..n : c <= k <=> c <= k - 1 \/ c = k
        BY <3>1
      <4> QED  BY <4>1, <3>1
    <3> HIDE DEF Up
    <3>3. CASE k \notin T
      <4>1. Up(k) = Up(k - 1)
        BY <3>2, <3>3
      <4> QED  BY <3>1, <4>1
    <3>4. CASE k \in T /\ Up(k - 1) = {}
      <4>1. Starts(k, k)
        BY <3>2, <3>4
      <4> QED  BY <4>1
    <3>5. CASE k \in T /\ Up(k - 1) # {}
      <4>1. PICK a \in Up(k - 1) : Starts(a, k - 1)
        BY <3>1, <3>5
      <4>2. a \in 1..n /\ \A c \in Up(k - 1) : c \in 1..n
        BY DEF Up
      <4>3. CASE <<a, k>> \in L \/ a = k
        <5>1. Starts(a, k)
          BY <3>2, <4>1, <4>3
        <5> QED  BY <5>1
      <4>4. CASE <<k, a>> \in L
        <5>1. \A c \in Up(k - 1) : <<k, c>> \in L
          BY <3>1, <4>1, <4>2, <4>4 DEF Ordered
        <5>2. Starts(k, k)
          BY <3>2, <3>5, <5>1
        <5> QED  BY <5>2
      <4> QED  BY <3>1, <4>2, <4>3, <4>4 DEF Ordered
    <3> QED  BY <3>3, <3>4, <3>5
  <2> QED  BY <2>1, <2>2
<1>2. n \in S
  <2> HIDE DEF S
  <2>1. 0 \in Nat /\ n \in 0..n
    OBVIOUS
  <2>2. \A k \in 0..n : k \in S
    BY <1>1, <2>1, Climb
  <2> QED  BY <2>1, <2>2
<1>3. Up(n) = T
  <2>1. \A c \in 1..n : c <= n
    OBVIOUS
  <2> QED  BY <1>0, <2>1
<1> QED  BY <1>2, <1>3

(* The least and the greatest of the numbers at some positions. *)
LEMMA Extremes ==
    ASSUME NEW n \in Nat, NEW T \in SUBSET (1..n), T # {}, NEW f, \A i \in T : f[i] \in Int
    PROVE  /\ Min({f[i] : i \in T}) \in Int /\ Max({f[i] : i \in T}) \in Int
           /\ \A i \in T : Min({f[j] : j \in T}) <= f[i] /\ Max({f[j] : j \in T}) >= f[i]
<1> DEFINE V(i) == IF i \in T THEN f[i] ELSE 0
           L == {ab \in (1..n) \X (1..n) : V(ab[1]) < V(ab[2]) \/ (V(ab[1]) = V(ab[2]) /\ ab[1] < ab[2])}
           M == {ab \in (1..n) \X (1..n) : V(ab[1]) > V(ab[2]) \/ (V(ab[1]) = V(ab[2]) /\ ab[1] < ab[2])}
           Values == {f[i] : i \in T}
<1>1. \A i \in 1..n : V(i) \in Int /\ i \in Int
  OBVIOUS
<1>2. \A i \in T : V(i) = f[i]
  OBVIOUS
<1> HIDE DEF V
<1>3. \A a, b \in 1..n : /\ <<a, b>> \in L <=> V(a) < V(b) \/ (V(a) = V(b) /\ a < b)
                         /\ <<a, b>> \in M <=> V(a) > V(b) \/ (V(a) = V(b) /\ a < b)
  OBVIOUS
<1> HIDE DEF L, M
<1>4. PICK p \in T : \A c \in T : c = p \/ <<p, c>> \in L
  <2>1. ASSUME NEW x \in 1..n, NEW y \in 1..n
        PROVE  x = y \/ <<x, y>> \in L \/ <<y, x>> \in L
    <3>1. V(x) \in Int /\ V(y) \in Int /\ x \in Int /\ y \in Int
      BY <1>1
    <3> QED  BY <1>3, <3>1
  <2>2. ASSUME NEW x \in 1..n, NEW y \in 1..n, NEW z \in 1..n, <<x, y>> \in L, <<y, z>> \in L
        PROVE  <<x, z>> \in L
    <3>1. V(x) \in Int /\ V(y) \in Int /\ V(z) \in Int /\ x \in Int /\ y \in Int /\ z \in Int
      BY <1>1
    <3> QED  BY <1>3, <2>2, <3>1
  <2>3. Ordered(L, n)
    BY <2>1, <2>2 DEF Ordered
  <2> QED  BY <2>3, LeastOfOrder
<1>5. PICK q \in T : \A c \in T : c = q \/ <<q, c>> \in M
  <2>1. ASSUME NEW x \in 1..n, NEW y \in 1..n
        PROVE  x = y \/ <<x, y>> \in M \/ <<y, x>> \in M
    <3>1. V(x) \in Int /\ V(y) \in Int /\ x \in Int /\ y \in Int
      BY <1>1
    <3> QED  BY <1>3, <3>1
  <2>2. ASSUME NEW x \in 1..n, NEW y \in 1..n, NEW z \in 1..n, <<x, y>> \in M, <<y, z>> \in M
        PROVE  <<x, z>> \in M
    <3>1. V(x) \in Int /\ V(y) \in Int /\ V(z) \in Int /\ x \in Int /\ y \in Int /\ z \in Int
      BY <1>1
    <3> QED  BY <1>3, <2>2, <3>1
  <2>3. Ordered(M, n)
    BY <2>1, <2>2 DEF Ordered
  <2> QED  BY <2>3, LeastOfOrder
<1>6. f[p] \in Values /\ f[q] \in Values /\ \A x \in Values : x \in Int /\ f[p] <= x /\ x <= f[q]
  <2>1. ASSUME NEW c \in T PROVE f[c] \in Int /\ f[p] <= f[c] /\ f[c] <= f[q]
    <3>1. c \in 1..n /\ p \in 1..n /\ q \in 1..n /\ V(c) = f[c] /\ V(p) = f[p] /\ V(q) = f[q]
          /\ f[p] \in Int /\ f[q] \in Int /\ f[c] \in Int
      BY <1>2
    <3>2. c = p \/ V(p) < V(c) \/ V(p) = V(c)
      BY <1>3, <1>4, <3>1
    <3>3. c = q \/ V(q) > V(c) \/ V(q) = V(c)
      BY <1>3, <1>5, <3>1
    <3> QED  BY <3>1, <3>2, <3>3
  <2> QED  BY <2>1
<1>7. \A x \in Values : \E i \in T : x = f[i]
  OBVIOUS
<1>8. \A i \in T : f[i] \in Values
  OBVIOUS
<1> HIDE DEF Values
<1>9. Min(Values) \in Values /\ \A x \in Values : Min(Values) <= x
  BY <1>6 DEF Min
<1>10. Max(Values) \in Values /\ \A x \in Values : Max(Values) >= x
  <2>1. \E x \in Values : \A y \in Values : x >= y
    BY <1>6
  <2> QED  BY <2>1 DEF Max
<1> QED  BY <1>6, <1>8, <1>9, <1>10 DEF Values

-----------------------------------------------------------------------------
(* Islands: the pieces of a group, welded together, with the box around them. *)

(* A list of pieces with boxes of integers. *)
PieceList(raw) == IsList(raw) /\ \A i \in DOMAIN raw : IsBox(raw[i].box)

HullOf(raw, g) == Hull({raw[i].box : i \in g})

LEMMA HullIsBox ==
    ASSUME NEW raw, PieceList(raw), NEW g \in SUBSET DOMAIN raw, g # {}
    PROVE  /\ IsBox(HullOf(raw, g))
           /\ \A i \in g : \A d \in Axes : /\ HullOf(raw, g).lo[d] <= raw[i].box.lo[d]
                                           /\ HullOf(raw, g).hi[d] >= raw[i].box.hi[d]
<1>1. Len(raw) \in Nat /\ g \in SUBSET (1..Len(raw))
  BY ListFacts DEF PieceList
<1> DEFINE boxes == {raw[i].box : i \in g}
<1>2. ASSUME NEW d \in Axes
      PROVE  /\ Min({b.lo[d] : b \in boxes}) \in Int /\ Max({b.hi[d] : b \in boxes}) \in Int
             /\ \A i \in g : /\ Min({b.lo[d] : b \in boxes}) <= raw[i].box.lo[d]
                             /\ Max({b.hi[d] : b \in boxes}) >= raw[i].box.hi[d]
  <2> DEFINE lo == [i \in g |-> raw[i].box.lo[d]]
             hi == [i \in g |-> raw[i].box.hi[d]]
  <2>1. {b.lo[d] : b \in boxes} = {lo[i] : i \in g} /\ {b.hi[d] : b \in boxes} = {hi[i] : i \in g}
    OBVIOUS
  <2>2. \A i \in g : lo[i] \in Int /\ hi[i] \in Int /\ lo[i] = raw[i].box.lo[d] /\ hi[i] = raw[i].box.hi[d]
    BY DEF PieceList, IsBox
  <2> HIDE DEF lo, hi, boxes
  <2>3. /\ Min({lo[i] : i \in g}) \in Int /\ Max({lo[i] : i \in g}) \in Int
        /\ \A i \in g : Min({lo[j] : j \in g}) <= lo[i] /\ Max({lo[j] : j \in g}) >= lo[i]
    <3>1. Len(raw) \in Nat /\ g \in SUBSET (1..Len(raw)) /\ g # {} /\ \A i \in g : lo[i] \in Int
      BY <1>1, <2>2
    <3> QED  BY ONLY <3>1, Extremes
  <2>4. /\ Min({hi[i] : i \in g}) \in Int /\ Max({hi[i] : i \in g}) \in Int
        /\ \A i \in g : Min({hi[j] : j \in g}) <= hi[i] /\ Max({hi[j] : j \in g}) >= hi[i]
    <3>1. Len(raw) \in Nat /\ g \in SUBSET (1..Len(raw)) /\ g # {} /\ \A i \in g : hi[i] \in Int
      BY <1>1, <2>2
    <3> QED  BY ONLY <3>1, Extremes
  <2> QED  BY <2>1, <2>2, <2>3, <2>4
<1>3. \A d \in Axes : /\ HullOf(raw, g).lo[d] = Min({b.lo[d] : b \in boxes})
                      /\ HullOf(raw, g).hi[d] = Max({b.hi[d] : b \in boxes})
  BY DEF HullOf, Hull
<1> HIDE DEF boxes
<1> QED  BY <1>2, <1>3 DEF IsBox

(* A larger box touches what the smaller does; and touching goes both ways. *)
LEMMA TouchGrows ==
    ASSUME NEW a, NEW b, NEW c, IsBox(a), IsBox(b), IsBox(c), Touch(a, c),
           \A d \in Axes : b.lo[d] <= a.lo[d] /\ b.hi[d] >= a.hi[d]
    PROVE  Touch(b, c)
  BY DEF Touch, IsBox

LEMMA TouchBack ==
    ASSUME NEW a, NEW b, IsBox(a), IsBox(b)
    PROVE  Touch(a, b) <=> Touch(b, a)
  BY DEF Touch, IsBox

(* What is known of the groups. *)
GroupsAre(raw) ==
    /\ \A g \in Groups(raw) : g \in SUBSET DOMAIN raw /\ g # {}
    /\ \A i \in DOMAIN raw : \E g \in Groups(raw) : i \in g
    /\ \A g, h \in Groups(raw) : \A i \in g : i \in h => g = h
    /\ \A g \in Groups(raw) : \A i \in g : \A j \in DOMAIN raw :
          Weldable(raw[i], raw[j]) => j \in g

LEMMA WeldBack ==
    ASSUME NEW a, NEW b, IsBox(a.box), IsBox(b.box), Weldable(a, b)
    PROVE  Weldable(b, a)
  BY TouchBack DEF Weldable

LEMMA GroupsKnown ==
    ASSUME NEW raw, PieceList(raw)
    PROVE  GroupsAre(raw) /\ IsFiniteSet(Groups(raw))
<1> DEFINE R == Roots(raw)
           D == DOMAIN raw
           Group(i) == {x \in D : R[x] = R[i]}
<1>1. Len(raw) \in Nat /\ D = 1..Len(raw)
  BY ListFacts DEF PieceList
<1>2. \A k \in 1..Len(raw) : \A m \in k + 1..Len(raw) : Weldable(raw[k], raw[m]) => R[k] = R[m]
  BY RootsAre DEF AllWelded, PieceList
<1>3. Groups(raw) = {Group(j) : j \in D}
  BY DEF Groups
<1> HIDE DEF R
<1>4. ASSUME NEW i \in D, NEW j \in D, Weldable(raw[i], raw[j])
      PROVE  R[i] = R[j]
  <2>1. Weldable(raw[j], raw[i])
    BY <1>4, WeldBack DEF PieceList
  <2>2. i = j \/ j \in i + 1..Len(raw) \/ i \in j + 1..Len(raw)
    BY <1>1
  <2> QED  BY <1>1, <1>2, <1>4, <2>1, <2>2
<1>5. \A g \in Groups(raw) : g \in SUBSET D /\ g # {}
  BY <1>3
<1>6. \A i \in D : Group(i) \in Groups(raw) /\ i \in Group(i)
  BY <1>3
<1>7. \A g \in Groups(raw) : \A i \in g : g = Group(i)
  BY <1>3
<1>8. \A g \in Groups(raw) : \A i \in g : \A j \in D : Weldable(raw[i], raw[j]) => j \in g
  BY <1>4, <1>5, <1>7
<1> HIDE DEF Group
<1>9. GroupsAre(raw)
  BY <1>5, <1>6, <1>7, <1>8 DEF GroupsAre
<1>10. IsFiniteSet(Groups(raw))
  <2>1. IsFiniteSet(D)
    BY <1>1, FS_Interval
  <2> DEFINE F == [j \in D |-> Group(j)]
  <2>3. F \in Surjection(D, Groups(raw))
    BY <1>3 DEF Surjection
  <2> HIDE DEF F
  <2> QED  BY <2>1, <2>3, FS_Surjection
<1> QED  BY <1>9, <1>10

(* No group crosses what no weld crosses. *)
LEMMA GroupsWhole ==
    ASSUME NEW raw, PieceList(raw), NEW part, Uncrossed(raw, part), NEW g \in Groups(raw),
           NEW i \in g, NEW j \in g
    PROVE  i \in part <=> j \in part
<1>1. Whole(Roots(raw), DOMAIN raw, part)
  BY RootsAre DEF AllWelded, PieceList
<1>2. PICK k \in DOMAIN raw : g = {x \in DOMAIN raw : Roots(raw)[x] = Roots(raw)[k]}
  BY DEF Groups
<1> QED  BY <1>1, <1>2 DEF Whole

(* The members of a group have one net. *)
LEMMA GroupsOfANet ==
    ASSUME NEW raw, PieceList(raw), NEW g \in Groups(raw), NEW i \in g, NEW j \in g
    PROVE  raw[i].net = raw[j].net
<1> DEFINE part == {x \in DOMAIN raw : raw[x].net = raw[i].net}
<1>1. Uncrossed(raw, part)
  BY DEF Uncrossed, Weldable
<1>2. i \in DOMAIN raw /\ j \in DOMAIN raw
  BY GroupsKnown DEF GroupsAre
<1>3. i \in part <=> j \in part
  BY <1>1, GroupsWhole
<1> QED  BY <1>2, <1>3

(* The island of a group has the net of its members, and its box around theirs. *)
LEMMA IslandIs ==
    ASSUME NEW raw, PieceList(raw), NEW g \in Groups(raw)
    PROVE  /\ \A i \in g : Island(raw, g).net = raw[i].net
           /\ Island(raw, g).box = HullOf(raw, g) /\ IsBox(HullOf(raw, g))
<1>1. g \in SUBSET DOMAIN raw /\ g # {} /\ DOMAIN raw \subseteq Nat
  BY GroupsKnown, ListFacts DEF GroupsAre, PieceList
<1>2. Min(g) \in g
  <2>1. \E x \in g : \A y \in g : x <= y
    BY <1>1, LeastIndex
  <2> QED  BY <2>1 DEF Min
<1>3. Island(raw, g).net = raw[Min(g)].net /\ Island(raw, g).box = HullOf(raw, g)
  BY DEF Island, HullOf
<1>4. \A i \in g : raw[Min(g)].net = raw[i].net
  BY <1>2, GroupsOfANet
<1> QED  BY <1>1, <1>3, <1>4, HullIsBox

-----------------------------------------------------------------------------
(* Bridges: from the lowest island a contact meets to the highest, each to the
   next, so that none of them is left out. *)

IslandList(islands, m) ==
    m \in Nat /\ DOMAIN islands = 1..m /\ \A k \in 1..m : IsBox(islands[k].box)

Lowers(islands, m) == {ab \in (1..m) \X (1..m) : Lower(islands, ab[1], ab[2])}
Highers(islands, m) == {ab \in (1..m) \X (1..m) : Lower(islands, ab[2], ab[1])}

(* The order by height, then by place, is total. *)
LEMMA LowerOrders ==
    ASSUME NEW islands, NEW m, IslandList(islands, m)
    PROVE  /\ Ordered(Lowers(islands, m), m) /\ Ordered(Highers(islands, m), m)
           /\ \A a, b \in 1..m : /\ <<a, b>> \in Lowers(islands, m) <=> Lower(islands, a, b)
                                 /\ <<a, b>> \in Highers(islands, m) <=> Lower(islands, b, a)
                                 /\ ~(Lower(islands, a, b) /\ Lower(islands, b, a))
<1> DEFINE L == Lowers(islands, m)
           H == Highers(islands, m)
           Z(k) == islands[k].box.lo[3]
<1>1. \A a, b \in 1..m : /\ <<a, b>> \in L <=> Lower(islands, a, b)
                         /\ <<a, b>> \in H <=> Lower(islands, b, a)
  BY DEF Lowers, Highers
<1> HIDE DEF L, H
<1>2. \A k \in 1..m : Z(k) \in Int /\ k \in Int
  BY DEF IslandList, IsBox, Axes
<1>3. \A a, b \in 1..m : Lower(islands, a, b) <=> Z(a) < Z(b) \/ (Z(a) = Z(b) /\ a < b)
  BY DEF Lower
<1> HIDE DEF Z
<1>4. ASSUME NEW a \in 1..m, NEW b \in 1..m
      PROVE  /\ a = b \/ Lower(islands, a, b) \/ Lower(islands, b, a)
             /\ ~(Lower(islands, a, b) /\ Lower(islands, b, a))
  <2>1. Z(a) \in Int /\ Z(b) \in Int /\ a \in Int /\ b \in Int
    BY <1>2
  <2> QED  BY <1>3, <2>1
<1>5. ASSUME NEW a \in 1..m, NEW b \in 1..m, NEW c \in 1..m,
             Lower(islands, a, b), Lower(islands, b, c)
      PROVE  Lower(islands, a, c)
  <2>1. Z(a) \in Int /\ Z(b) \in Int /\ Z(c) \in Int /\ a \in Int /\ b \in Int /\ c \in Int
    BY <1>2
  <2> QED  BY <1>3, <1>5, <2>1
<1>6. Ordered(L, m)
  BY <1>1, <1>4, <1>5 DEF Ordered
<1>7. Ordered(H, m)
  BY <1>1, <1>4, <1>5 DEF Ordered
<1> QED  BY <1>1, <1>4, <1>6, <1>7 DEF L, H

(* From any island a contact meets, bridges lead upward to any higher one. *)
LEMMA BridgesClimb ==
    ASSUME NEW islands, NEW m, IslandList(islands, m), NEW contact, NEW K,
           \A e \in Bridges(islands, contact) : \A x, y \in e : x \in K <=> y \in K,
           NEW x \in Met(islands, contact), NEW y \in Met(islands, contact), Lower(islands, x, y)
    PROVE  x \in K <=> y \in K
<1> DEFINE met == Met(islands, contact)
           Over == {c \in met : Lower(islands, x, c) /\ (c \in K <=> x \notin K)}
<1>1. m \in Nat /\ \A c \in met : c \in 1..m
  BY DEF Met, IslandList
<1>2. Bridges(islands, contact) = {{ab[1], ab[2]} : ab \in {p \in met \X met :
        /\ Lower(islands, p[1], p[2])
        /\ ~\E c \in met : Lower(islands, p[1], c) /\ Lower(islands, c, p[2])}}
  BY DEF Bridges
<1> HIDE DEF met
<1> SUFFICES ASSUME ~(x \in K <=> y \in K) PROVE FALSE
  OBVIOUS
<1>3. y \in Over /\ x \in met /\ Over \in SUBSET (1..m)
  BY <1>1 DEF met
<1>4. PICK b \in Over : \A c \in Over : c = b \/ Lower(islands, b, c)
  <2> HIDE DEF Over
  <2>1. \E b \in Over : \A c \in Over : c = b \/ <<b, c>> \in Lowers(islands, m)
    BY <1>1, <1>3, LowerOrders, LeastOfOrder
  <2> QED  BY <1>3, <2>1, LowerOrders
<1> DEFINE Under == {c \in met : Lower(islands, c, b)}
<1>5. x \in Under /\ b \in met /\ Under \in SUBSET (1..m)
  BY <1>1, <1>3, <1>4
<1>6. PICK a \in Under : \A c \in Under : c = a \/ Lower(islands, c, a)
  <2> HIDE DEF Under
  <2>1. \E a \in Under : \A c \in Under : c = a \/ <<a, c>> \in Highers(islands, m)
    BY <1>1, <1>5, LowerOrders, LeastOfOrder
  <2>2. \A a, c \in 1..m : <<a, c>> \in Highers(islands, m) <=> Lower(islands, c, a)
    BY LowerOrders
  <2>3. \A c \in Under : c \in 1..m
    BY <1>5
  <2> QED  BY <2>1, <2>2, <2>3
<1>7. a \in met /\ Lower(islands, a, b)
  BY <1>6
<1>8. ~\E c \in met : Lower(islands, a, c) /\ Lower(islands, c, b)
  <2> SUFFICES ASSUME NEW c \in met, Lower(islands, a, c), Lower(islands, c, b) PROVE FALSE
    OBVIOUS
  <2>1. c = a \/ Lower(islands, c, a)
    BY <1>6
  <2> QED  BY <1>1, <1>7, <2>1, LowerOrders
<1>9. {a, b} \in Bridges(islands, contact)
  <2>1. <<a, b>> \in met \X met
    BY <1>5, <1>7
  <2> QED  BY <1>2, <1>7, <1>8, <2>1
<1>10. a \in K <=> b \in K
  BY <1>9
<1>11. b \in K <=> x \notin K
  BY <1>4
<1>12. a # x /\ Lower(islands, x, a)
  BY <1>5, <1>6, <1>10, <1>11
<1>13. a \in Over
  BY <1>7, <1>10, <1>11, <1>12
<1>14. a = b \/ Lower(islands, b, a)
  BY <1>4, <1>13
<1> QED  BY <1>1, <1>5, <1>7, <1>14, LowerOrders

(* What no bridge of a contact crosses, parts none of the islands it meets. *)
LEMMA BridgesHold ==
    ASSUME NEW islands, NEW m, IslandList(islands, m), NEW contact, NEW K,
           \A e \in Bridges(islands, contact) : \A x, y \in e : x \in K <=> y \in K
    PROVE  \A x, y \in Met(islands, contact) : x \in K <=> y \in K
<1> SUFFICES ASSUME NEW x \in Met(islands, contact), NEW y \in Met(islands, contact)
             PROVE  x \in K <=> y \in K
  OBVIOUS
<1>1. x \in 1..m /\ y \in 1..m
  BY DEF Met, IslandList
<1>2. x = y \/ Lower(islands, x, y) \/ Lower(islands, y, x)
  BY <1>1, LowerOrders DEF Ordered
<1>3. CASE Lower(islands, x, y)
  BY <1>3, BridgesClimb
<1>4. CASE Lower(islands, y, x)
  BY <1>4, BridgesClimb
<1> QED  BY <1>2, <1>3, <1>4

-----------------------------------------------------------------------------
(* Components: what a run of Tarjan's algorithm finds. *)

(* The pairs of neighbors, each both ways. *)
Neighbors(nodes, edges) ==
    {vw \in nodes \X nodes : vw[1] # vw[2] /\ {vw[1], vw[2]} \in edges}
Mutual(pairs, nodes) ==
    /\ pairs \subseteq nodes \X nodes
    /\ \A vw \in pairs : vw[1] # vw[2] /\ <<vw[2], vw[1]>> \in pairs

TarjanState(nodes, pairs) ==
    [next : Nat, index : [nodes -> Int], low : [nodes -> Int], stack : SUBSET nodes,
     components : Seq(SUBSET nodes), calls : Seq(nodes), left : SUBSET pairs]

Called(t, v) == \E i \in 1..Len(t.calls) : t.calls[i] = v

(* The types of a state's fields. *)
LEMMA StateFields ==
    ASSUME NEW nodes, NEW pairs, NEW t \in TarjanState(nodes, pairs)
    PROVE  /\ t.next \in Nat /\ t.index \in [nodes -> Int] /\ t.low \in [nodes -> Int]
           /\ t.stack \in SUBSET nodes /\ t.components \in Seq(SUBSET nodes)
           /\ t.calls \in Seq(nodes) /\ t.left \in SUBSET pairs
           /\ Len(t.calls) \in Nat /\ Len(t.components) \in Nat
           /\ DOMAIN t.index = nodes
           /\ t.calls = <<>> <=> Len(t.calls) = 0
           /\ \A i \in 1..Len(t.calls) : t.calls[i] \in nodes
  BY DEF TarjanState

(* A state, field by field. *)
TState(n, i, l, s, m, c, f) ==
    [next |-> n, index |-> i, low |-> l, stack |-> s, components |-> m, calls |-> c, left |-> f]

LEMMA StateIs ==
    ASSUME NEW nodes, NEW pairs, NEW t \in TarjanState(nodes, pairs)
    PROVE  t = TState(t.next, t.index, t.low, t.stack, t.components, t.calls, t.left)
  BY DEF TarjanState, TState

Fields == {"next", "index", "low", "stack", "components", "calls", "left"}

LEMMA ByFields ==
    ASSUME NEW e, e = [x \in Fields |-> e[x]]
    PROVE  e = TState(e.next, e.index, e.low, e.stack, e.components, e.calls, e.left)
  BY DEF TState, Fields

(* What each update makes of a state. *)
Past(t, x) == [t EXCEPT !.left = @ \ {x}]
LowTo(t, v, x) == [t EXCEPT !.low[v] = Least(@, x)]
Cut(t, x, y) == [t EXCEPT !.calls = SubSeq(@, x, y)]
Ended(t, x) == [t EXCEPT !.stack = @ \ x, !.components = Append(@, x)]

LEMMA EnterIs ==
    ASSUME NEW t, NEW n, NEW i, NEW l, NEW s, NEW m, NEW c, NEW f, t = TState(n, i, l, s, m, c, f),
           NEW v
    PROVE  Enter(t, v) = TState(n + 1, [i EXCEPT ![v] = n], [l EXCEPT ![v] = n], s \cup {v}, m, Append(c, v), f)
<1> SUFFICES ASSUME NEW e, e = [t EXCEPT !.next = @ + 1, !.index[v] = t.next, !.low[v] = t.next,
                              !.stack = @ \cup {v}, !.calls = Append(@, v)]
             PROVE  e = TState(n + 1, [i EXCEPT ![v] = n], [l EXCEPT ![v] = n], s \cup {v}, m, Append(c, v), f)
  BY DEF Enter
<1>1. e = [y \in Fields |-> e[y]]
  BY DEF TState, Fields
<1>2. /\ e.next = n + 1 /\ e.index = [i EXCEPT ![v] = n] /\ e.low = [l EXCEPT ![v] = n]
      /\ e.stack = s \cup {v} /\ e.calls = Append(c, v) /\ e.left = f /\ e.components = m
  BY DEF TState
<1>3. e = TState(e.next, e.index, e.low, e.stack, e.components, e.calls, e.left)
  BY ONLY <1>1, ByFields
<1> QED  BY ONLY <1>2, <1>3

LEMMA LeftIs ==
    ASSUME NEW t, NEW n, NEW i, NEW l, NEW s, NEW m, NEW c, NEW f, t = TState(n, i, l, s, m, c, f),
           NEW x
    PROVE  Past(t, x) = TState(n, i, l, s, m, c, f \ {x})
  BY DEF TState, Past

LEMMA LowIs ==
    ASSUME NEW t, NEW n, NEW i, NEW l, NEW s, NEW m, NEW c, NEW f, t = TState(n, i, l, s, m, c, f),
           NEW v, NEW x
    PROVE  LowTo(t, v, x) = TState(n, i, [l EXCEPT ![v] = Least(@, x)], s, m, c, f)
<1> SUFFICES ASSUME NEW e, e = [t EXCEPT !.low[v] = Least(@, x)]
             PROVE  e = TState(n, i, [l EXCEPT ![v] = Least(@, x)], s, m, c, f)
  BY DEF LowTo
<1>1. e = [y \in Fields |-> e[y]]
  BY DEF TState, Fields
<1>2. /\ e.next = n /\ e.index = i /\ e.low = [l EXCEPT ![v] = Least(@, x)]
      /\ e.stack = s /\ e.calls = c /\ e.left = f /\ e.components = m
  BY DEF TState
<1>3. e = TState(e.next, e.index, e.low, e.stack, e.components, e.calls, e.left)
  BY ONLY <1>1, ByFields
<1> QED  BY ONLY <1>2, <1>3

LEMMA CallsIs ==
    ASSUME NEW t, NEW n, NEW i, NEW l, NEW s, NEW m, NEW c, NEW f, t = TState(n, i, l, s, m, c, f),
           NEW x, NEW y
    PROVE  Cut(t, x, y) = TState(n, i, l, s, m, SubSeq(c, x, y), f)
<1> SUFFICES ASSUME NEW e, e = [t EXCEPT !.calls = SubSeq(@, x, y)]
             PROVE  e = TState(n, i, l, s, m, SubSeq(c, x, y), f)
  BY DEF Cut
<1> QED  BY DEF TState

LEMMA LeaveIs ==
    ASSUME NEW t, NEW n, NEW i, NEW l, NEW s, NEW m, NEW c, NEW f, t = TState(n, i, l, s, m, c, f),
           NEW x
    PROVE  Ended(t, x) = TState(n, i, l, s \ x, Append(m, x), c, f)
<1> SUFFICES ASSUME NEW e, e = [t EXCEPT !.stack = @ \ x, !.components = Append(@, x)]
             PROVE  e = TState(n, i, l, s \ x, Append(m, x), c, f)
  BY DEF Ended
<1>1. e = [y \in Fields |-> e[y]]
  BY DEF TState, Fields
<1>2. /\ e.next = n /\ e.index = i /\ e.low = l
      /\ e.stack = s \ x /\ e.calls = c /\ e.left = f /\ e.components = Append(m, x)
  BY DEF TState
<1>3. e = TState(e.next, e.index, e.low, e.stack, e.components, e.calls, e.left)
  BY ONLY <1>1, ByFields
<1> QED  BY ONLY <1>2, <1>3

LEMMA EnterFields ==
    ASSUME NEW nodes, NEW pairs, NEW t \in TarjanState(nodes, pairs), NEW v \in nodes
    PROVE  LET e == Enter(t, v) IN
           /\ e \in TarjanState(nodes, pairs)
           /\ e.next = t.next + 1 /\ e.stack = t.stack \cup {v}
           /\ e.components = t.components /\ e.left = t.left
           /\ e.index[v] = t.next /\ e.low[v] = t.next
           /\ \A x \in nodes : x # v => e.index[x] = t.index[x] /\ e.low[x] = t.low[x]
           /\ Len(e.calls) = Len(t.calls) + 1 /\ e.calls[Len(t.calls) + 1] = v
           /\ \A i \in 1..Len(t.calls) : e.calls[i] = t.calls[i]
<1> DEFINE e == [next |-> t.next + 1, index |-> [t.index EXCEPT ![v] = t.next],
                 low |-> [t.low EXCEPT ![v] = t.next], stack |-> t.stack \cup {v},
                 components |-> t.components, calls |-> Append(t.calls, v), left |-> t.left]
<1>1. Enter(t, v) = e
  <2>1. t = TState(t.next, t.index, t.low, t.stack, t.components, t.calls, t.left)
    BY StateIs
  <2>2. Enter(t, v) = TState(t.next + 1, [t.index EXCEPT ![v] = t.next], [t.low EXCEPT ![v] = t.next],
                             t.stack \cup {v}, t.components, Append(t.calls, v), t.left)
    BY ONLY <2>1, EnterIs
  <2> QED  BY ONLY <2>2 DEF TState, e
<1>2. /\ t.next \in Nat /\ t.index \in [nodes -> Int] /\ t.low \in [nodes -> Int]
      /\ t.stack \in SUBSET nodes /\ t.components \in Seq(SUBSET nodes)
      /\ t.calls \in Seq(nodes) /\ t.left \in SUBSET pairs
  BY StateFields
<1>3. /\ e.next = t.next + 1 /\ e.stack = t.stack \cup {v}
      /\ e.components = t.components /\ e.left = t.left
      /\ e.index = [t.index EXCEPT ![v] = t.next] /\ e.low = [t.low EXCEPT ![v] = t.next]
      /\ e.calls = Append(t.calls, v)
  OBVIOUS
<1>4. e \in TarjanState(nodes, pairs)
  BY <1>2 DEF TarjanState
<1> HIDE DEF e
<1>5. /\ e.index[v] = t.next /\ e.low[v] = t.next
      /\ \A x \in nodes : x # v => e.index[x] = t.index[x] /\ e.low[x] = t.low[x]
  BY <1>2, <1>3
<1>6. /\ Len(e.calls) = Len(t.calls) + 1 /\ e.calls[Len(t.calls) + 1] = v
      /\ \A i \in 1..Len(t.calls) : e.calls[i] = t.calls[i]
  BY <1>2, <1>3
<1> QED  BY <1>1, <1>3, <1>4, <1>5, <1>6

(* From t to e, at v whose neighbor w was entered before. *)
Noted(nodes, t, e, v, w) ==
    /\ t.index[w] # -1 /\ e.left = t.left \ {<<v, w>>}
    /\ e.next = t.next /\ e.index = t.index /\ e.stack = t.stack
    /\ e.components = t.components /\ e.calls = t.calls
    /\ \A x \in nodes : x # v => e.low[x] = t.low[x]
    /\ w \in t.stack => e.low[v] <= t.low[v] /\ e.low[v] <= t.index[w]
                        /\ e.low[v] \in {t.low[v], t.index[w]}
    /\ w \notin t.stack => e.low[v] = t.low[v]

LEMMA LookFields ==
    ASSUME NEW nodes, NEW pairs, pairs \subseteq nodes \X nodes,
           NEW t \in TarjanState(nodes, pairs), NEW v \in nodes, NEW w \in nodes
    PROVE  LET e == Look(t, v, w)
               s == [t EXCEPT !.left = @ \ {<<v, w>>}]
           IN
           /\ e \in TarjanState(nodes, pairs) /\ s \in TarjanState(nodes, pairs)
           /\ s.left = t.left \ {<<v, w>>} /\ s.next = t.next /\ s.index = t.index
           /\ s.low = t.low /\ s.stack = t.stack /\ s.components = t.components
           /\ s.calls = t.calls
           /\ t.index[w] = -1 => e = Enter(s, w)
           /\ t.index[w] # -1 => Noted(nodes, t, e, v, w)
<1> DEFINE s == [next |-> t.next, index |-> t.index, low |-> t.low, stack |-> t.stack,
                 components |-> t.components, calls |-> t.calls, left |-> t.left \ {<<v, w>>}]
           l == [t.low EXCEPT ![v] = Least(@, t.index[w])]
           d == [next |-> t.next, index |-> t.index, low |-> l, stack |-> t.stack,
                 components |-> t.components, calls |-> t.calls, left |-> t.left \ {<<v, w>>}]
           e == Look(t, v, w)
<1>1. [t EXCEPT !.left = @ \ {<<v, w>>}] = s
  <2>1. t = TState(t.next, t.index, t.low, t.stack, t.components, t.calls, t.left)
    BY StateIs
  <2>2. Past(t, <<v, w>>)
        = TState(t.next, t.index, t.low, t.stack, t.components, t.calls, t.left \ {<<v, w>>})
    BY ONLY <2>1, LeftIs
  <2>3. [t EXCEPT !.left = @ \ {<<v, w>>}] = Past(t, <<v, w>>)
    BY Zenon DEF Past
  <2> QED  BY ONLY <2>2, <2>3 DEF TState, s
<1>2. /\ t.next \in Nat /\ t.index \in [nodes -> Int] /\ t.low \in [nodes -> Int]
      /\ t.stack \in SUBSET nodes /\ t.components \in Seq(SUBSET nodes)
      /\ t.calls \in Seq(nodes) /\ t.left \in SUBSET pairs
  BY StateFields
<1>3. s \in TarjanState(nodes, pairs)
  BY <1>2 DEF TarjanState
<1>4. [s EXCEPT !.low[v] = Least(@, t.index[w])] = d
  OBVIOUS
<1>5. e = IF t.index[w] = -1 THEN Enter(s, w) ELSE IF w \in t.stack THEN d ELSE s
  BY <1>1, <1>4 DEF Look
<1>6. /\ s.left = t.left \ {<<v, w>>} /\ s.next = t.next /\ s.index = t.index
      /\ s.low = t.low /\ s.stack = t.stack /\ s.components = t.components
      /\ s.calls = t.calls
  OBVIOUS
<1>7. /\ d.left = t.left \ {<<v, w>>} /\ d.next = t.next /\ d.index = t.index
      /\ d.low = l /\ d.stack = t.stack /\ d.components = t.components
      /\ d.calls = t.calls
  OBVIOUS
<1>8. t.low[v] \in Int /\ t.index[w] \in Int /\ Least(t.low[v], t.index[w]) \in Int
      /\ Least(t.low[v], t.index[w]) <= t.low[v] /\ Least(t.low[v], t.index[w]) <= t.index[w]
      /\ Least(t.low[v], t.index[w]) \in {t.low[v], t.index[w]}
  BY <1>2 DEF Least
<1>9. l \in [nodes -> Int] /\ l[v] = Least(t.low[v], t.index[w])
      /\ \A x \in nodes : x # v => l[x] = t.low[x]
  BY <1>2, <1>8
<1>10. d \in TarjanState(nodes, pairs)
  <2> HIDE DEF l
  <2> QED  BY <1>2, <1>9 DEF TarjanState
<1> HIDE DEF s, d, l
<1>11. Enter(s, w) \in TarjanState(nodes, pairs)
  BY <1>3, EnterFields
<1>12. e \in TarjanState(nodes, pairs)
  BY <1>3, <1>5, <1>10, <1>11
<1>13. t.index[w] # -1 => Noted(nodes, t, e, v, w)
  <2> HIDE DEF e
  <2>1. CASE t.index[w] = -1
    BY <2>1
  <2>2. CASE t.index[w] # -1 /\ w \in t.stack
    <3>1. e = d
      BY <1>5, <2>2
    <3> QED  BY <1>6, <1>7, <1>8, <1>9, <2>2, <3>1 DEF Noted
  <2>3. CASE t.index[w] # -1 /\ w \notin t.stack
    <3>1. e = s
      BY <1>5, <2>3
    <3> QED  BY <1>6, <2>3, <3>1 DEF Noted
  <2> QED  BY <2>1, <2>2, <2>3
<1>14. t.index[w] = -1 => e = Enter(s, w)
  BY <1>5
<1> HIDE DEF e
<1> QED  BY <1>1, <1>3, <1>6, <1>12, <1>13, <1>14 DEF e

(* A return: it ends a component if the node's low link is its own index, and
   hands the low link to its caller. *)
LEMMA ReturnFields ==
    ASSUME NEW nodes, NEW pairs, NEW t \in TarjanState(nodes, pairs), Len(t.calls) > 0
    PROVE  LET e == Return(t)
               depth == Len(t.calls)
               v == t.calls[depth]
               component == {x \in t.stack : t.index[x] >= t.index[v]}
           IN
           /\ e \in TarjanState(nodes, pairs)
           /\ e.left = t.left /\ e.next = t.next /\ e.index = t.index
           /\ Len(e.calls) = depth - 1
           /\ \A i \in 1..depth - 1 : e.calls[i] = t.calls[i]
           /\ t.low[v] = t.index[v] =>
                e.stack = t.stack \ component /\ Len(e.components) = Len(t.components) + 1
           /\ t.low[v] # t.index[v] => e.stack = t.stack /\ e.components = t.components
           /\ depth = 1 => e.low = t.low
           /\ depth > 1 => LET u == t.calls[depth - 1] IN
                /\ \A x \in nodes : x # u => e.low[x] = t.low[x]
                /\ e.low[u] <= t.low[u] /\ e.low[u] \in {t.low[u], t.low[v]}
<1> DEFINE depth == Len(t.calls)
           v == t.calls[depth]
           component == {x \in t.stack : t.index[x] >= t.index[v]}
           f == Leave(t, v)
           stack == IF t.low[v] # t.index[v] THEN t.stack ELSE t.stack \ component
           components == IF t.low[v] # t.index[v] THEN t.components ELSE Append(t.components, component)
           g == [next |-> t.next, index |-> t.index, low |-> t.low, stack |-> stack,
                 components |-> components, calls |-> t.calls, left |-> t.left]
           s == [next |-> t.next, index |-> t.index, low |-> t.low, stack |-> stack,
                 components |-> components, calls |-> SubSeq(t.calls, 1, depth - 1), left |-> t.left]
           u == t.calls[depth - 1]
           l == [t.low EXCEPT ![u] = Least(@, t.low[v])]
           d == [next |-> t.next, index |-> t.index, low |-> l, stack |-> stack,
                 components |-> components, calls |-> SubSeq(t.calls, 1, depth - 1), left |-> t.left]
           e == Return(t)
<1>1. /\ t.next \in Nat /\ t.index \in [nodes -> Int] /\ t.low \in [nodes -> Int]
      /\ t.stack \in SUBSET nodes /\ t.components \in Seq(SUBSET nodes)
      /\ t.calls \in Seq(nodes) /\ t.left \in SUBSET pairs
      /\ depth \in Nat /\ v \in nodes /\ depth > 0
  <2>1. depth \in Nat /\ depth > 0 /\ (\A i \in 1..depth : t.calls[i] \in nodes)
    BY StateFields
  <2>2. v \in nodes
    BY <2>1
  <2> QED  BY StateFields, <2>1, <2>2
<1>2. f = g
  <2> HIDE DEF v
  <2>1. CASE t.low[v] # t.index[v]
    BY <2>1, StateIs DEF Leave, TState
  <2>2. CASE t.low[v] = t.index[v]
    <3>1. f = Ended(t, component)
      BY <2>2, Zenon DEF Leave, Ended
    <3> HIDE DEF component, f
    <3>2. t = TState(t.next, t.index, t.low, t.stack, t.components, t.calls, t.left)
      BY StateIs
    <3>3. f = TState(t.next, t.index, t.low, t.stack \ component, Append(t.components, component), t.calls, t.left)
      BY ONLY <3>1, <3>2, LeaveIs
    <3> QED  BY <2>2, <3>3 DEF TState
  <2> QED  BY <2>1, <2>2
<1>3. [f EXCEPT !.calls = SubSeq(@, 1, depth - 1)] = s
  <2> HIDE DEF f, stack, components, v, depth
  <2>1. g = TState(t.next, t.index, t.low, stack, components, t.calls, t.left)
    BY DEF TState
  <2>2. Cut(g, 1, depth - 1)
        = TState(t.next, t.index, t.low, stack, components, SubSeq(t.calls, 1, depth - 1), t.left)
    BY ONLY <2>1, CallsIs
  <2>3. [g EXCEPT !.calls = SubSeq(@, 1, depth - 1)] = Cut(g, 1, depth - 1)
    BY Zenon DEF Cut
  <2> QED  BY ONLY <1>2, <2>2, <2>3 DEF TState, s
<1>4. [s EXCEPT !.low[u] = Least(@, t.low[v])] = d
  <2> HIDE DEF stack, components, v, depth, u
  <2>1. s = TState(t.next, t.index, t.low, stack, components, SubSeq(t.calls, 1, depth - 1), t.left)
    BY DEF TState
  <2>2. LowTo(s, u, t.low[v])
        = TState(t.next, t.index, [t.low EXCEPT ![u] = Least(@, t.low[v])], stack, components,
                 SubSeq(t.calls, 1, depth - 1), t.left)
    BY ONLY <2>1, LowIs
  <2>3. [s EXCEPT !.low[u] = Least(@, t.low[v])] = LowTo(s, u, t.low[v])
    BY Zenon DEF LowTo
  <2> QED  BY ONLY <2>2, <2>3 DEF TState, d, l
<1>5. e = IF depth = 1 THEN s ELSE d
  <2> HIDE DEF s, d, f
  <2> QED  BY <1>3, <1>4 DEF Return, f
<1>6. stack \in SUBSET nodes
  BY <1>1
<1>7. /\ t.low[v] = t.index[v] => components = Append(t.components, component)
      /\ t.low[v] # t.index[v] => components = t.components
  OBVIOUS
<1>8. component \in SUBSET nodes
  BY <1>1
<1>9. /\ components \in Seq(SUBSET nodes)
      /\ t.low[v] = t.index[v] => Len(components) = Len(t.components) + 1
  <2> HIDE DEF components, component, v
  <2>1. CASE t.low[v] = t.index[v]
    <3>1. components = Append(t.components, component)
      BY <1>7, <2>1
    <3>2. t.components \in Seq(SUBSET nodes)
      BY <1>1
    <3>3. /\ Append(t.components, component) \in Seq(SUBSET nodes)
          /\ Len(Append(t.components, component)) = Len(t.components) + 1
      BY ONLY <3>2, <1>8
    <3> QED  BY ONLY <3>1, <3>3
  <2>2. CASE t.low[v] # t.index[v]
    BY <1>1, <1>7, <2>2
  <2> QED  BY <2>1, <2>2
<1>10. SubSeq(t.calls, 1, depth - 1) \in Seq(nodes) /\ Len(SubSeq(t.calls, 1, depth - 1)) = depth - 1
       /\ \A i \in 1..depth - 1 : SubSeq(t.calls, 1, depth - 1)[i] = t.calls[i]
  BY <1>1
<1>11. /\ t.low[v] = t.index[v] => stack = t.stack \ component
       /\ t.low[v] # t.index[v] => stack = t.stack
  OBVIOUS
<1>12. depth > 1 => /\ u \in nodes /\ l \in [nodes -> Int] /\ l[u] <= t.low[u] /\ l[u] \in {t.low[u], t.low[v]}
                    /\ \A x \in nodes : x # u => l[x] = t.low[x]
  <2> SUFFICES ASSUME depth > 1
               PROVE  /\ u \in nodes /\ l \in [nodes -> Int] /\ l[u] <= t.low[u] /\ l[u] \in {t.low[u], t.low[v]}
                      /\ \A x \in nodes : x # u => l[x] = t.low[x]
    OBVIOUS
  <2>1. u \in nodes
    <3>1. depth - 1 \in 1..Len(t.calls) /\ t.calls \in Seq(nodes)
      BY <1>1
    <3> QED  BY ONLY <3>1 DEF u
  <2> HIDE DEF u, v
  <2>2. t.low[u] \in Int /\ t.low[v] \in Int
    BY <1>1, <2>1
  <2> QED  BY <1>1, <2>1, <2>2 DEF Least
<1> HIDE DEF stack, components, component, v, u, l, f, g
<1>13. s \in TarjanState(nodes, pairs)
  BY <1>1, <1>6, <1>9, <1>10 DEF TarjanState
<1>14. depth > 1 => d \in TarjanState(nodes, pairs)
  BY <1>1, <1>6, <1>9, <1>10, <1>12 DEF TarjanState
<1>15. /\ s.left = t.left /\ s.next = t.next /\ s.index = t.index /\ s.low = t.low
       /\ s.stack = stack /\ s.components = components /\ s.calls = SubSeq(t.calls, 1, depth - 1)
       /\ d.left = t.left /\ d.next = t.next /\ d.index = t.index /\ d.low = l
       /\ d.stack = stack /\ d.components = components /\ d.calls = SubSeq(t.calls, 1, depth - 1)
  OBVIOUS
<1> HIDE DEF s, d
<1>16. (depth = 1 \/ depth > 1) /\ (depth > 1 => depth # 1)
  <2>1. depth \in Nat /\ depth > 0
    BY <1>1
  <2> HIDE DEF depth
  <2> QED  BY ONLY <2>1
<1>17. /\ e \in TarjanState(nodes, pairs)
       /\ e.left = t.left /\ e.next = t.next /\ e.index = t.index
       /\ e.stack = stack /\ e.components = components /\ e.calls = SubSeq(t.calls, 1, depth - 1)
       /\ depth = 1 => e.low = t.low
       /\ depth > 1 => e.low = l
  <2>1. CASE depth = 1
    <3>1. e = s /\ ~(depth > 1)
      BY <1>5, <2>1
    <3> QED  BY ONLY <1>13, <1>15, <2>1, <3>1
  <2>2. CASE depth > 1
    <3>1. e = d /\ depth # 1
      BY <1>5, <1>16, <2>2
    <3> QED  BY ONLY <1>14, <1>15, <2>2, <3>1
  <2> QED  BY <1>16, <2>1, <2>2
<1> HIDE DEF e
<1>18. /\ Len(e.calls) = depth - 1
       /\ \A i \in 1..depth - 1 : e.calls[i] = t.calls[i]
  BY <1>10, <1>17
<1>19. /\ t.low[v] = t.index[v] =>
                e.stack = t.stack \ component /\ Len(e.components) = Len(t.components) + 1
       /\ t.low[v] # t.index[v] => e.stack = t.stack /\ e.components = t.components
  BY <1>7, <1>9, <1>11, <1>17
<1>20. depth > 1 => /\ \A x \in nodes : x # u => e.low[x] = t.low[x]
                    /\ e.low[u] <= t.low[u] /\ e.low[u] \in {t.low[u], t.low[v]}
  BY <1>12, <1>17
<1> QED  BY <1>17, <1>18, <1>19, <1>20 DEF e, v, u, component

(* The kinds of step, from t to e. *)
Entered(nodes, t, e, v) ==
    /\ t.index[v] = -1
    /\ e.next = t.next + 1 /\ e.stack = t.stack \cup {v} /\ e.components = t.components
    /\ e.index[v] = t.next /\ e.low[v] = t.next
    /\ \A x \in nodes : x # v => e.index[x] = t.index[x] /\ e.low[x] = t.low[x]
    /\ Len(e.calls) = Len(t.calls) + 1 /\ e.calls[Len(t.calls) + 1] = v
    /\ \A i \in 1..Len(t.calls) : e.calls[i] = t.calls[i]
Begins(nodes, t, e) ==
    /\ Len(t.calls) = 0 /\ e.left = t.left
    /\ \E v \in nodes : Entered(nodes, t, e, v)
CallsOn(nodes, t, e) ==
    /\ Len(t.calls) > 0
    /\ \E v, w \in nodes : /\ v = t.calls[Len(t.calls)] /\ <<v, w>> \in t.left
                           /\ e.left = t.left \ {<<v, w>>}
                           /\ Entered(nodes, t, e, w)
Notes(nodes, t, e) ==
    /\ Len(t.calls) > 0
    /\ \E v, w \in nodes : /\ v = t.calls[Len(t.calls)] /\ <<v, w>> \in t.left
                           /\ Noted(nodes, t, e, v, w)
Returns(nodes, t, e) ==
    LET depth == Len(t.calls)
        v == t.calls[depth]
    IN
    /\ depth > 0 /\ \A w \in nodes : <<v, w>> \notin t.left
    /\ e.left = t.left /\ e.next = t.next /\ e.index = t.index
    /\ Len(e.calls) = depth - 1
    /\ \A i \in 1..depth - 1 : e.calls[i] = t.calls[i]
    /\ t.low[v] = t.index[v] =>
         e.stack = t.stack \ {x \in t.stack : t.index[x] >= t.index[v]}
         /\ Len(e.components) = Len(t.components) + 1
    /\ t.low[v] # t.index[v] => e.stack = t.stack /\ e.components = t.components
    /\ depth = 1 => e.low = t.low
    /\ depth > 1 => LET u == t.calls[depth - 1] IN
         /\ \A x \in nodes : x # u => e.low[x] = t.low[x]
         /\ e.low[u] <= t.low[u] /\ e.low[u] \in {t.low[u], t.low[v]}
Stays(nodes, t, e) == Len(t.calls) = 0 /\ e = t /\ \A v \in nodes : t.index[v] # -1

LEMMA StepKinds ==
    ASSUME NEW nodes, NEW pairs, pairs \subseteq nodes \X nodes,
           NEW t \in TarjanState(nodes, pairs)
    PROVE  /\ TarjanStep(t) \in TarjanState(nodes, pairs)
           /\ \/ Begins(nodes, t, TarjanStep(t)) \/ CallsOn(nodes, t, TarjanStep(t))
              \/ Notes(nodes, t, TarjanStep(t)) \/ Returns(nodes, t, TarjanStep(t))
              \/ Stays(nodes, t, TarjanStep(t))
<1> DEFINE e == TarjanStep(t)
<1> SUFFICES /\ e \in TarjanState(nodes, pairs)
             /\ \/ Begins(nodes, t, e) \/ CallsOn(nodes, t, e) \/ Notes(nodes, t, e)
                \/ Returns(nodes, t, e) \/ Stays(nodes, t, e)
  BY Zenon
<1>1. /\ Len(t.calls) \in Nat /\ DOMAIN t.index = nodes /\ t.left \subseteq nodes \X nodes
      /\ t.calls = <<>> <=> Len(t.calls) = 0
      /\ \A i \in 1..Len(t.calls) : t.calls[i] \in nodes
  BY StateFields
<1>2. CASE t.calls = <<>>
  <2> DEFINE unvisited == {v \in DOMAIN t.index : t.index[v] = -1}
  <2>1. e = IF unvisited = {} THEN t ELSE Enter(t, CHOOSE v \in unvisited : TRUE)
    BY <1>2 DEF TarjanStep
  <2> HIDE DEF e
  <2>2. Len(t.calls) = 0
    BY <1>1, <1>2
  <2>3. CASE unvisited = {}
    <3>1. e = t
      BY <2>1, <2>3
    <3> QED  BY <1>1, <2>2, <2>3, <3>1 DEF Stays
  <2>4. CASE unvisited # {}
    <3>1. PICK v \in unvisited : e = Enter(t, v)
      BY <2>1, <2>4
    <3>2. v \in nodes /\ t.index[v] = -1
      BY <1>1
    <3>3. Entered(nodes, t, Enter(t, v), v) /\ Enter(t, v) \in TarjanState(nodes, pairs)
          /\ Enter(t, v).left = t.left
      BY <3>2, EnterFields DEF Entered
    <3> QED  BY <2>2, <3>1, <3>2, <3>3 DEF Begins
  <2> QED  BY <2>3, <2>4
<1>3. CASE t.calls # <<>>
  <2> DEFINE v == t.calls[Len(t.calls)]
             ahead == {vw \in t.left : vw[1] = v}
  <2>1. Len(t.calls) > 0 /\ v \in nodes
    BY <1>1, <1>3
  <2>2. CASE ahead = {}
    <3>1. e = Return(t)
      BY <1>3, <2>2 DEF TarjanStep
    <3>2. \A w \in nodes : <<v, w>> \notin t.left
      BY <2>2
    <3> HIDE DEF e, v, ahead
    <3>3. e \in TarjanState(nodes, pairs)
      BY ONLY <2>1, <3>1, ReturnFields, t \in TarjanState(nodes, pairs)
    <3>4. Returns(nodes, t, e)
      BY <2>1, <3>1, <3>2, ReturnFields DEF Returns, v
    <3> QED  BY <3>3, <3>4
  <2>3. CASE ahead # {}
    <3>1. PICK vw \in ahead : e = Look(t, v, vw[2])
      BY <1>3, <2>3 DEF TarjanStep
    <3>2. vw \in t.left /\ vw[1] = v
      OBVIOUS
    <3>3. vw = <<v, vw[2]>> /\ vw[2] \in nodes
      BY <1>1, <3>2
    <3> DEFINE w == vw[2]
               s == [t EXCEPT !.left = @ \ {<<v, w>>}]
    <3>4. <<v, w>> \in t.left /\ w \in nodes
      BY <3>2, <3>3
    <3> HIDE DEF e, v, w, ahead
    <3>5. e = Look(t, v, w)
      BY <3>1 DEF w
    <3>6. e \in TarjanState(nodes, pairs)
      BY <2>1, <3>4, <3>5, LookFields
    <3>7. CASE t.index[w] = -1
      <4>1. /\ s \in TarjanState(nodes, pairs) /\ e = Enter(s, w)
            /\ s.left = t.left \ {<<v, w>>} /\ s.next = t.next /\ s.index = t.index
            /\ s.low = t.low /\ s.stack = t.stack /\ s.components = t.components
            /\ s.calls = t.calls
        BY <2>1, <3>4, <3>5, <3>7, LookFields
      <4> HIDE DEF s
      <4>2. Entered(nodes, s, e, w) /\ e.left = s.left
        <5>1. w \in nodes /\ s \in TarjanState(nodes, pairs) /\ s.index[w] = -1
          BY <3>4, <3>7, <4>1
        <5>2. Entered(nodes, s, Enter(s, w), w) /\ Enter(s, w).left = s.left
          BY ONLY <5>1, EnterFields DEF Entered
        <5> QED  BY ONLY <4>1, <5>2
      <4>3. Entered(nodes, t, e, w) /\ e.left = t.left \ {<<v, w>>}
        BY <4>1, <4>2 DEF Entered
      <4>4. CallsOn(nodes, t, e)
        BY <2>1, <3>4, <4>3 DEF CallsOn, v
      <4> QED  BY <3>6, <4>4
    <3>8. CASE t.index[w] # -1
      <4>1. Notes(nodes, t, e)
        <5>1. v = t.calls[Len(t.calls)]
          BY DEF v
        <5>2. Noted(nodes, t, e, v, w)
          BY <2>1, <3>4, <3>5, <3>8, LookFields
        <5> QED  BY <2>1, <3>4, <3>8, <5>1, <5>2 DEF Notes
      <4> QED  BY <3>6, <4>1
    <3> QED  BY <3>7, <3>8
  <2> QED  BY <2>2, <2>3
<1> QED  BY <1>2, <1>3

(* What a run keeps: the calls climb, each from a node to a neighbor that had not
   been entered and that meets its caller again; nothing below the first call is
   on the stack. *)
Numbered(nodes, t) == \A v \in nodes : t.index[v] = -1 \/ (0 <= t.index[v] /\ t.index[v] < t.next)
PathUp(t) == \A i, j \in 1..Len(t.calls) : i < j => t.index[t.calls[i]] < t.index[t.calls[j]]
PathOn(t) == \A i \in 1..Len(t.calls) : t.calls[i] \in t.stack
StackSeen(t) == \A x \in t.stack : t.index[x] # -1
Looked(pairs, t) ==
    \A vw \in pairs : vw \notin t.left => t.index[vw[1]] # -1 /\ t.index[vw[2]] # -1
Open(t) == \A vw \in t.left : t.index[vw[1]] # -1 => Called(t, vw[1])
Emptied(t) == Len(t.calls) = 0 => t.stack = {}
Rooted(t) ==
    \A x \in t.stack : /\ t.low[x] <= t.index[x]
                       /\ Len(t.calls) > 0 => /\ t.index[t.calls[1]] <= t.index[x]
                                              /\ t.index[t.calls[1]] <= t.low[x]
Callers(pairs, t) ==
    \A i \in 2..Len(t.calls) :
        /\ <<t.calls[i], t.calls[i - 1]>> \in pairs
        /\ <<t.calls[i], t.calls[i - 1]>> \in t.left \/ t.low[t.calls[i]] <= t.index[t.calls[i - 1]]

TarjanInv(nodes, pairs, t) ==
    /\ Numbered(nodes, t) /\ PathUp(t) /\ PathOn(t) /\ StackSeen(t) /\ Looked(pairs, t)
    /\ Open(t) /\ Emptied(t) /\ Rooted(t) /\ Callers(pairs, t)

(* The state's parts, for the provers. *)
PartsTyped(nodes, pairs, t) ==
    /\ t.next \in Nat /\ t.stack \subseteq nodes /\ t.left \subseteq pairs /\ Len(t.calls) \in Nat
    /\ Len(t.components) \in Nat
    /\ \A v \in nodes : t.index[v] \in Int /\ t.low[v] \in Int
    /\ \A i \in 1..Len(t.calls) : t.calls[i] \in nodes

LEMMA StateTyped ==
    ASSUME NEW nodes, NEW pairs, NEW t \in TarjanState(nodes, pairs)
    PROVE  PartsTyped(nodes, pairs, t)
<1>1. /\ t.next \in Nat /\ t.index \in [nodes -> Int] /\ t.low \in [nodes -> Int]
      /\ t.stack \in SUBSET nodes /\ t.left \in SUBSET pairs
      /\ Len(t.calls) \in Nat /\ Len(t.components) \in Nat
      /\ \A i \in 1..Len(t.calls) : t.calls[i] \in nodes
  BY StateFields
<1> QED  BY <1>1 DEF PartsTyped

LEMMA BeginsKeeps ==
    ASSUME NEW nodes, NEW pairs, NEW t, NEW e, PartsTyped(nodes, pairs, t), PartsTyped(nodes, pairs, e),
           Mutual(pairs, nodes), TarjanInv(nodes, pairs, t), Begins(nodes, t, e)
    PROVE  TarjanInv(nodes, pairs, e)
<1>1. PICK v \in nodes : Entered(nodes, t, e, v)
  BY DEF Begins
<1>2. Len(t.calls) = 0 /\ e.left = t.left /\ t.stack = {}
  BY DEF Begins, TarjanInv, Emptied
<1>3. Len(e.calls) = 1 /\ e.calls[1] = v /\ e.stack = {v} /\ t.index[v] = -1
  BY <1>1, <1>2 DEF Entered
<1>4. /\ e.next = t.next + 1 /\ e.index[v] = t.next /\ e.low[v] = t.next /\ t.next \in Nat
      /\ \A x \in nodes : x # v => e.index[x] = t.index[x]
  BY <1>1 DEF Entered, PartsTyped
<1>5. Numbered(nodes, e)
  BY <1>4 DEF TarjanInv, Numbered, PartsTyped
<1>6. PathUp(e) /\ PathOn(e) /\ Emptied(e) /\ Callers(pairs, e)
  BY <1>3 DEF PathUp, PathOn, Emptied, Callers
<1>7. StackSeen(e) /\ Rooted(e)
  BY <1>3, <1>4 DEF StackSeen, Rooted
<1>8. \A x \in nodes : t.index[x] # -1 => e.index[x] # -1
  BY <1>3, <1>4
<1>9. \A vw \in pairs : vw[1] \in nodes /\ vw[2] \in nodes
  BY DEF Mutual
<1>10. Looked(pairs, e)
  BY <1>2, <1>8, <1>9 DEF Looked, TarjanInv
<1>11. Open(e)
  <2> SUFFICES ASSUME NEW vw \in e.left, e.index[vw[1]] # -1
               PROVE  Called(e, vw[1])
    BY DEF Open
  <2>1. vw \in t.left /\ vw[1] \in nodes
    BY <1>2, <1>9 DEF PartsTyped
  <2>2. CASE vw[1] = v
    BY <1>3, <2>2 DEF Called
  <2>3. CASE vw[1] # v
    <3>1. Called(t, vw[1])
      BY <1>4, <2>1, <2>3 DEF TarjanInv, Open
    <3> QED  BY <1>2, <3>1 DEF Called
  <2> QED  BY <2>2, <2>3
<1> QED  BY <1>5, <1>6, <1>7, <1>10, <1>11 DEF TarjanInv

LEMMA CallsKeeps ==
    ASSUME NEW nodes, NEW pairs, NEW t, NEW e, PartsTyped(nodes, pairs, t), PartsTyped(nodes, pairs, e),
           Mutual(pairs, nodes), TarjanInv(nodes, pairs, t), CallsOn(nodes, t, e)
    PROVE  TarjanInv(nodes, pairs, e)
<1> DEFINE depth == Len(t.calls)
<1>1. PICK v, w \in nodes : /\ v = t.calls[depth] /\ <<v, w>> \in t.left
                            /\ e.left = t.left \ {<<v, w>>} /\ Entered(nodes, t, e, w)
  BY DEF CallsOn
<1>2. /\ depth \in Nat /\ depth > 0 /\ t.next \in Nat /\ t.stack \subseteq nodes
      /\ \A i \in 1..depth : t.calls[i] \in nodes
      /\ \A x \in nodes : t.index[x] \in Int /\ t.low[x] \in Int
  BY DEF CallsOn, PartsTyped
<1>3. /\ t.index[w] = -1 /\ e.next = t.next + 1 /\ e.stack = t.stack \cup {w}
      /\ e.index[w] = t.next /\ e.low[w] = t.next
      /\ \A x \in nodes : x # w => e.index[x] = t.index[x] /\ e.low[x] = t.low[x]
      /\ Len(e.calls) = depth + 1 /\ e.calls[depth + 1] = w
      /\ \A i \in 1..depth : e.calls[i] = t.calls[i]
  BY <1>1 DEF Entered
<1> HIDE DEF depth
<1>4. w \notin t.stack
  BY <1>3 DEF TarjanInv, StackSeen
<1>5. \A i \in 1..depth : e.calls[i] \in t.stack /\ e.calls[i] \in nodes /\ e.calls[i] # w
                          /\ e.index[e.calls[i]] = t.index[t.calls[i]]
  BY <1>2, <1>3, <1>4 DEF TarjanInv, PathOn, depth
<1>6. Numbered(nodes, e)
  BY <1>2, <1>3 DEF TarjanInv, Numbered
<1>7. \A i \in 1..depth : e.index[e.calls[i]] < e.index[w]
  <2> TAKE i \in 1..depth
  <2>1. t.calls[i] \in nodes /\ t.index[t.calls[i]] # -1
    BY <1>2, <1>3, <1>5 DEF TarjanInv, StackSeen
  <2> QED  BY <1>2, <1>3, <1>5, <2>1 DEF TarjanInv, Numbered
<1>8. PathUp(e)
  <2> SUFFICES ASSUME NEW i \in 1..Len(e.calls), NEW j \in 1..Len(e.calls), i < j
               PROVE  e.index[e.calls[i]] < e.index[e.calls[j]]
    BY DEF PathUp
  <2>1. i \in 1..depth
    BY <1>2, <1>3
  <2>2. CASE j = depth + 1
    BY <1>3, <1>7, <2>1, <2>2
  <2>3. CASE j \in 1..depth
    <3>1. t.index[t.calls[i]] < t.index[t.calls[j]]
      BY <2>1, <2>3 DEF TarjanInv, PathUp, depth
    <3> QED  BY <1>5, <2>1, <2>3, <3>1
  <2> QED  BY <1>2, <1>3, <2>2, <2>3
<1>9. PathOn(e)
  BY <1>2, <1>3, <1>5 DEF PathOn
<1>10. StackSeen(e)
  BY <1>2, <1>3, <1>4 DEF StackSeen, TarjanInv
<1>11. \A vw \in pairs : vw[1] \in nodes /\ vw[2] \in nodes /\ vw = <<vw[1], vw[2]>>
  BY DEF Mutual
<1>12. \A x \in nodes : t.index[x] # -1 => e.index[x] # -1
  BY <1>2, <1>3
<1>13. e.index[v] # -1 /\ e.index[w] # -1
  <2>1. e.calls[depth] = v
    BY <1>1, <1>2, <1>3 DEF depth
  <2>2. v \in t.stack /\ t.index[v] # -1
    BY <1>2, <1>5, <2>1 DEF TarjanInv, StackSeen
  <2> QED  BY <1>2, <1>3, <1>12, <2>2
<1>14. Looked(pairs, e)
  <2> SUFFICES ASSUME NEW vw \in pairs, vw \notin e.left
               PROVE  e.index[vw[1]] # -1 /\ e.index[vw[2]] # -1
    BY DEF Looked
  <2>1. CASE vw = <<v, w>>
    BY <1>13, <2>1
  <2>2. CASE vw # <<v, w>>
    <3>1. vw \notin t.left
      BY <1>1, <2>2
    <3> QED  BY <1>11, <1>12, <3>1 DEF TarjanInv, Looked
  <2> QED  BY <2>1, <2>2
<1>15. Open(e)
  <2> SUFFICES ASSUME NEW vw \in e.left, e.index[vw[1]] # -1
               PROVE  Called(e, vw[1])
    BY DEF Open
  <2>1. vw \in t.left /\ vw[1] \in nodes
    BY <1>1, <1>11 DEF PartsTyped
  <2>2. CASE vw[1] = w
    BY <1>2, <1>3, <2>2 DEF Called
  <2>3. CASE vw[1] # w
    <3>1. Called(t, vw[1])
      BY <1>3, <2>1, <2>3 DEF TarjanInv, Open
    <3>2. PICK i \in 1..depth : t.calls[i] = vw[1]
      BY <3>1 DEF Called, depth
    <3> QED  BY <1>2, <1>3, <3>2 DEF Called
  <2> QED  BY <2>2, <2>3
<1>16. Emptied(e)
  BY <1>2, <1>3 DEF Emptied
<1>17. Rooted(e)
  <2> SUFFICES ASSUME NEW x \in e.stack
               PROVE  /\ e.low[x] <= e.index[x] /\ e.index[e.calls[1]] <= e.index[x]
                      /\ e.index[e.calls[1]] <= e.low[x]
    BY DEF Rooted
  <2>1. 1 \in 1..depth
    BY <1>2
  <2>2. CASE x = w
    <3>1. e.index[e.calls[1]] < t.next
      BY <1>3, <1>7, <2>1
    <3>2. e.index[e.calls[1]] \in Int
      BY <1>2, <1>5, <2>1
    <3> QED  BY <1>2, <1>3, <2>2, <3>1, <3>2
  <2>3. CASE x # w
    <3>1. x \in t.stack /\ x \in nodes
      BY <1>2, <1>3, <2>3
    <3>2. /\ t.low[x] <= t.index[x] /\ t.index[t.calls[1]] <= t.index[x]
          /\ t.index[t.calls[1]] <= t.low[x]
      BY <1>2, <3>1 DEF TarjanInv, Rooted, depth
    <3> QED  BY <1>3, <1>5, <2>1, <2>3, <3>1, <3>2
  <2> QED  BY <2>2, <2>3
<1>18. Callers(pairs, e)
  <2> SUFFICES ASSUME NEW i \in 2..Len(e.calls)
               PROVE  /\ <<e.calls[i], e.calls[i - 1]>> \in pairs
                      /\ <<e.calls[i], e.calls[i - 1]>> \in e.left
                         \/ e.low[e.calls[i]] <= e.index[e.calls[i - 1]]
    BY DEF Callers
  <2>1. CASE i = depth + 1
    <3>1. e.calls[i] = w /\ e.calls[i - 1] = v
      BY <1>1, <1>2, <1>3, <2>1 DEF depth
    <3>2. <<v, w>> \in pairs
      BY <1>1 DEF PartsTyped
    <3>3. v # w /\ <<w, v>> \in pairs
      BY <3>2 DEF Mutual
    <3>4. <<w, v>> \in t.left
      BY <1>3, <3>3 DEF TarjanInv, Looked
    <3> QED  BY <1>1, <3>1, <3>3, <3>4
  <2>2. CASE i \in 2..depth
    <3>1. i - 1 \in 1..depth /\ i \in 1..depth
      BY <1>2, <2>2
    <3>2. e.calls[i] = t.calls[i] /\ e.calls[i - 1] = t.calls[i - 1]
      BY <1>3, <3>1
    <3>3. e.calls[i - 1] # w /\ e.calls[i] # w /\ e.calls[i] \in nodes
      BY <1>5, <3>1
    <3>4. /\ <<t.calls[i], t.calls[i - 1]>> \in pairs
          /\ <<t.calls[i], t.calls[i - 1]>> \in t.left \/ t.low[t.calls[i]] <= t.index[t.calls[i - 1]]
      BY <2>2 DEF TarjanInv, Callers, depth
    <3>5. <<e.calls[i], e.calls[i - 1]>> # <<v, w>>
      BY <3>3
    <3>6. e.low[e.calls[i]] = t.low[t.calls[i]] /\ e.index[e.calls[i - 1]] = t.index[t.calls[i - 1]]
      BY <1>3, <1>5, <3>1, <3>2, <3>3
    <3> QED  BY <1>1, <3>2, <3>4, <3>5, <3>6
  <2> QED  BY <1>2, <1>3, <2>1, <2>2
<1> QED  BY <1>6, <1>8, <1>9, <1>10, <1>14, <1>15, <1>16, <1>17, <1>18 DEF TarjanInv

LEMMA NotesKeeps ==
    ASSUME NEW nodes, NEW pairs, NEW t, NEW e, PartsTyped(nodes, pairs, t), PartsTyped(nodes, pairs, e),
           Mutual(pairs, nodes), TarjanInv(nodes, pairs, t), Notes(nodes, t, e)
    PROVE  TarjanInv(nodes, pairs, e)
<1> DEFINE depth == Len(t.calls)
<1>1. PICK v, w \in nodes : v = t.calls[depth] /\ <<v, w>> \in t.left /\ Noted(nodes, t, e, v, w)
  BY DEF Notes
<1>2. /\ depth \in Nat /\ depth > 0 /\ t.stack \subseteq nodes
      /\ \A i \in 1..depth : t.calls[i] \in nodes
      /\ \A x \in nodes : t.index[x] \in Int /\ t.low[x] \in Int /\ e.low[x] \in Int
  BY DEF Notes, PartsTyped
<1>3. /\ t.index[w] # -1 /\ e.left = t.left \ {<<v, w>>}
      /\ e.next = t.next /\ e.index = t.index /\ e.stack = t.stack /\ e.calls = t.calls
      /\ \A x \in nodes : x # v => e.low[x] = t.low[x]
      /\ w \in t.stack => e.low[v] <= t.low[v] /\ e.low[v] <= t.index[w]
                          /\ e.low[v] \in {t.low[v], t.index[w]}
      /\ w \notin t.stack => e.low[v] = t.low[v]
  BY <1>1 DEF Noted
<1> HIDE DEF depth
<1>4. v \in t.stack /\ t.index[v] # -1
  BY <1>1, <1>2 DEF TarjanInv, StackSeen, PathOn, depth
<1>5. Numbered(nodes, e) /\ PathUp(e) /\ PathOn(e) /\ StackSeen(e) /\ Emptied(e)
  BY <1>3 DEF TarjanInv, Numbered, PathUp, PathOn, StackSeen, Emptied
<1>6. Looked(pairs, e)
  <2> SUFFICES ASSUME NEW vw \in pairs, vw \notin e.left
               PROVE  t.index[vw[1]] # -1 /\ t.index[vw[2]] # -1
    BY <1>3 DEF Looked
  <2>1. CASE vw = <<v, w>>
    BY <1>3, <1>4, <2>1
  <2>2. CASE vw # <<v, w>>
    BY <1>3, <2>2 DEF TarjanInv, Looked
  <2> QED  BY <2>1, <2>2
<1>7. Open(e)
  BY <1>3 DEF TarjanInv, Open, Called
<1>8. Rooted(e)
  <2> SUFFICES ASSUME NEW x \in t.stack
               PROVE  /\ e.low[x] <= t.index[x] /\ t.index[t.calls[1]] <= t.index[x]
                      /\ t.index[t.calls[1]] <= e.low[x]
    BY <1>3 DEF Rooted
  <2>1. /\ t.low[x] <= t.index[x] /\ t.index[t.calls[1]] <= t.index[x]
        /\ t.index[t.calls[1]] <= t.low[x]
    BY <1>2 DEF TarjanInv, Rooted, depth
  <2>2. w \in t.stack => t.index[t.calls[1]] <= t.index[w]
    BY <1>2 DEF TarjanInv, Rooted, depth
  <2>3. x \in nodes /\ t.index[x] \in Int /\ t.low[x] \in Int /\ e.low[x] \in Int
    BY <1>2
  <2>4. CASE x = v /\ w \in t.stack
    BY <1>3, <2>1, <2>2, <2>3, <2>4
  <2>5. CASE ~(x = v /\ w \in t.stack)
    <3>1. e.low[x] = t.low[x]
      BY <1>3, <2>3, <2>5
    <3> QED  BY <2>1, <3>1
  <2> QED  BY <2>4, <2>5
<1>9. Callers(pairs, e)
  <2> SUFFICES ASSUME NEW i \in 2..depth
               PROVE  /\ <<t.calls[i], t.calls[i - 1]>> \in pairs
                      /\ <<t.calls[i], t.calls[i - 1]>> \in e.left
                         \/ e.low[t.calls[i]] <= t.index[t.calls[i - 1]]
    BY <1>3 DEF Callers, depth
  <2>1. i - 1 \in 1..depth /\ i \in 1..depth
    BY <1>2
  <2>2. t.calls[i] \in nodes /\ t.calls[i - 1] \in nodes /\ t.calls[i - 1] \in t.stack
    BY <1>2, <2>1 DEF TarjanInv, PathOn, depth
  <2>3. /\ <<t.calls[i], t.calls[i - 1]>> \in pairs
        /\ <<t.calls[i], t.calls[i - 1]>> \in t.left \/ t.low[t.calls[i]] <= t.index[t.calls[i - 1]]
    BY DEF TarjanInv, Callers, depth
  <2>4. e.low[t.calls[i]] <= t.low[t.calls[i]]
    BY <1>2, <1>3, <2>2
  <2>5. CASE <<t.calls[i], t.calls[i - 1]>> = <<v, w>>
    <3>1. t.calls[i] = v /\ t.calls[i - 1] = w
      BY <2>5
    <3> QED  BY <1>3, <2>2, <2>3, <3>1
  <2>6. CASE <<t.calls[i], t.calls[i - 1]>> # <<v, w>>
    <3>1. t.low[t.calls[i]] \in Int /\ e.low[t.calls[i]] \in Int /\ t.index[t.calls[i - 1]] \in Int
      BY <1>2, <2>2
    <3> QED  BY <1>3, <2>3, <2>4, <2>6, <3>1
  <2> QED  BY <2>5, <2>6
<1> QED  BY <1>5, <1>6, <1>7, <1>8, <1>9 DEF TarjanInv

(* The last call returns with the low link of its own index, any other with a
   lower one. *)
LEMMA ReturnsRoot ==
    ASSUME NEW nodes, NEW pairs, NEW t, NEW e, PartsTyped(nodes, pairs, t),
           Mutual(pairs, nodes), TarjanInv(nodes, pairs, t), Returns(nodes, t, e)
    PROVE  /\ Len(t.calls) = 1 =>
                /\ e.stack = {} /\ Len(e.components) = Len(t.components) + 1 /\ e.low = t.low
                /\ Len(e.calls) = 0
           /\ Len(t.calls) > 1 => e.stack = t.stack /\ e.components = t.components
<1> DEFINE depth == Len(t.calls)
           v == t.calls[depth]
<1>1. depth \in Nat /\ depth > 0 /\ v \in nodes /\ v \in t.stack /\ t.stack \subseteq nodes
  BY DEF Returns, PartsTyped, TarjanInv, PathOn
<1>2. /\ t.low[v] = t.index[v] =>
                e.stack = t.stack \ {x \in t.stack : t.index[x] >= t.index[v]}
                /\ Len(e.components) = Len(t.components) + 1
      /\ t.low[v] # t.index[v] => e.stack = t.stack /\ e.components = t.components
      /\ depth = 1 => e.low = t.low
      /\ \A w \in nodes : <<v, w>> \notin t.left
      /\ Len(e.calls) = depth - 1
  BY DEF Returns
<1>3. \A x \in nodes : t.index[x] \in Int /\ t.low[x] \in Int
  BY DEF PartsTyped
<1>4. ASSUME depth = 1
      PROVE  /\ e.stack = {} /\ Len(e.components) = Len(t.components) + 1 /\ e.low = t.low
             /\ Len(e.calls) = 0
  <2>1. v = t.calls[1]
    BY <1>4
  <2>2. \A x \in t.stack : /\ t.low[x] <= t.index[x] /\ t.index[v] <= t.index[x]
                           /\ t.index[v] <= t.low[x]
    BY <1>1, <2>1 DEF TarjanInv, Rooted
  <2> HIDE DEF depth, v
  <2>3. t.low[v] = t.index[v]
    BY <1>1, <1>3, <2>2
  <2>4. \A x \in t.stack : t.index[x] >= t.index[v]
    BY <1>1, <1>3, <2>2
  <2> QED  BY <1>2, <1>4, <2>3, <2>4
<1>5. ASSUME depth > 1
      PROVE  e.stack = t.stack /\ e.components = t.components
  <2> DEFINE u == t.calls[depth - 1]
  <2>1. depth \in 2..Len(t.calls) /\ depth - 1 \in 1..Len(t.calls) /\ depth \in 1..Len(t.calls)
        /\ depth - 1 < depth
    BY <1>1, <1>5
  <2>2. u \in nodes
    BY <2>1 DEF PartsTyped
  <2>3. t.low[v] <= t.index[u]
    BY <1>2, <2>1, <2>2 DEF TarjanInv, Callers
  <2>4. t.index[u] < t.index[v]
    BY <2>1 DEF TarjanInv, PathUp
  <2> HIDE DEF depth, v, u
  <2>5. t.low[v] # t.index[v]
    BY <1>1, <1>3, <2>2, <2>3, <2>4
  <2> QED  BY <1>2, <2>5
<1> QED  BY <1>4, <1>5

LEMMA ReturnsKeeps ==
    ASSUME NEW nodes, NEW pairs, NEW t, NEW e, PartsTyped(nodes, pairs, t), PartsTyped(nodes, pairs, e),
           Mutual(pairs, nodes), TarjanInv(nodes, pairs, t), Returns(nodes, t, e)
    PROVE  TarjanInv(nodes, pairs, e)
<1> DEFINE depth == Len(t.calls)
           v == t.calls[depth]
<1>1. /\ depth \in Nat /\ depth > 0 /\ v \in nodes /\ t.stack \subseteq nodes
      /\ \A w \in nodes : <<v, w>> \notin t.left
      /\ e.left = t.left /\ e.next = t.next /\ e.index = t.index
      /\ Len(e.calls) = depth - 1
      /\ \A i \in 1..depth - 1 : e.calls[i] = t.calls[i]
  BY DEF Returns, PartsTyped
<1>2. \A x \in nodes : t.index[x] \in Int /\ t.low[x] \in Int /\ e.low[x] \in Int
  BY DEF PartsTyped
<1>3. /\ depth = 1 => e.stack = {} /\ e.low = t.low /\ Len(e.calls) = 0
      /\ depth > 1 => e.stack = t.stack
  BY ReturnsRoot
<1>4. depth > 1 => LET u == t.calls[depth - 1] IN
         /\ \A x \in nodes : x # u => e.low[x] = t.low[x]
         /\ e.low[u] <= t.low[u] /\ e.low[u] \in {t.low[u], t.low[v]}
  BY DEF Returns
<1>6. depth = 1 \/ depth > 1
  <2> HIDE DEF depth
  <2> QED  BY ONLY <1>1
<1>5. \A x \in nodes : e.low[x] <= t.low[x]
  <2>1. CASE depth = 1
    <3> HIDE DEF depth
    <3> QED  BY ONLY <1>2, <1>3, <2>1
  <2>2. CASE depth > 1
    <3> DEFINE u == t.calls[depth - 1]
    <3>1. (\A x \in nodes : x # u => e.low[x] = t.low[x]) /\ e.low[u] <= t.low[u]
      BY <1>4, <2>2
    <3> HIDE DEF u
    <3> QED  BY ONLY <1>2, <3>1
  <2> QED  BY <1>6, <2>1, <2>2
<1>7. depth \in 1..Len(t.calls) /\ \A i \in 1..depth - 1 : i \in 1..Len(t.calls)
  BY <1>1
<1>8. \A vw \in t.left : vw[1] # v
  <2>1. \A vw \in pairs : vw[2] \in nodes /\ vw = <<vw[1], vw[2]>>
    BY DEF Mutual
  <2>2. t.left \subseteq pairs
    BY DEF PartsTyped
  <2> HIDE DEF v
  <2> QED  BY <1>1, <2>1, <2>2
<1>9. Numbered(nodes, e) /\ Looked(pairs, e)
  BY <1>1 DEF TarjanInv, Numbered, Looked
<1>10. PathUp(e)
  BY <1>1, <1>7 DEF TarjanInv, PathUp
<1>11. PathOn(e) /\ StackSeen(e) /\ Emptied(e)
  <2>1. CASE depth = 1
    BY <1>3, <2>1 DEF PathOn, StackSeen, Emptied
  <2>2. CASE depth > 1
    <3>1. e.stack = t.stack /\ Len(e.calls) # 0
      BY <1>1, <1>3, <2>2
    <3>2. \A i \in 1..Len(e.calls) : t.calls[i] \in t.stack /\ e.calls[i] = t.calls[i]
      BY <1>1, <1>7 DEF TarjanInv, PathOn
    <3> QED  BY <1>1, <3>1, <3>2 DEF TarjanInv, PathOn, StackSeen, Emptied
  <2> QED  BY <1>6, <2>1, <2>2
<1>12. Open(e)
  <2> SUFFICES ASSUME NEW vw \in t.left, t.index[vw[1]] # -1
               PROVE  \E i \in 1..depth - 1 : t.calls[i] = vw[1]
    BY <1>1 DEF Open, Called
  <2>1. PICK i \in 1..depth : t.calls[i] = vw[1]
    BY DEF TarjanInv, Open, Called
  <2>2. i # depth
    BY <1>8, <2>1
  <2> QED  BY <1>1, <2>1, <2>2
<1>13. Rooted(e)
  <2>1. CASE depth = 1
    BY <1>3, <2>1 DEF Rooted
  <2>2. CASE depth > 1
    <3> SUFFICES ASSUME NEW x \in t.stack
                 PROVE  /\ e.low[x] <= t.index[x] /\ t.index[t.calls[1]] <= t.index[x]
                        /\ t.index[t.calls[1]] <= e.low[x]
      BY <1>1, <1>3, <2>2 DEF Rooted
    <3>1. \A y \in t.stack : /\ t.low[y] <= t.index[y] /\ t.index[t.calls[1]] <= t.index[y]
                             /\ t.index[t.calls[1]] <= t.low[y]
      BY <1>1 DEF TarjanInv, Rooted
    <3>2. v \in t.stack /\ x \in nodes
      BY <1>1, <1>7 DEF TarjanInv, PathOn
    <3>3. e.low[x] \in {t.low[x], t.low[v]}
      BY <1>4, <2>2, <3>2
    <3> HIDE DEF v
    <3> QED  BY <1>2, <1>5, <3>1, <3>2, <3>3
  <2> QED  BY <1>6, <2>1, <2>2
<1>14. Callers(pairs, e)
  <2> SUFFICES ASSUME NEW i \in 2..depth - 1
               PROVE  /\ <<t.calls[i], t.calls[i - 1]>> \in pairs
                      /\ <<t.calls[i], t.calls[i - 1]>> \in t.left
                         \/ e.low[t.calls[i]] <= t.index[t.calls[i - 1]]
    <3>1. \A i \in 2..depth - 1 : i - 1 \in 1..depth - 1 /\ i \in 1..depth - 1
      BY <1>1
    <3> QED  BY <1>1, <3>1 DEF Callers
  <2>1. i \in 2..Len(t.calls) /\ i \in 1..Len(t.calls) /\ i - 1 \in 1..Len(t.calls)
    BY <1>1
  <2>2. /\ <<t.calls[i], t.calls[i - 1]>> \in pairs
        /\ <<t.calls[i], t.calls[i - 1]>> \in t.left \/ t.low[t.calls[i]] <= t.index[t.calls[i - 1]]
    BY <2>1 DEF TarjanInv, Callers
  <2>3. t.calls[i] \in nodes /\ t.calls[i - 1] \in nodes
    BY <2>1 DEF PartsTyped
  <2>4. /\ t.low[t.calls[i]] \in Int /\ e.low[t.calls[i]] \in Int /\ t.index[t.calls[i - 1]] \in Int
        /\ e.low[t.calls[i]] <= t.low[t.calls[i]]
    BY <1>2, <1>5, <2>3
  <2> QED  BY <2>2, <2>4
<1> QED  BY <1>9, <1>10, <1>11, <1>12, <1>13, <1>14 DEF TarjanInv

(* One step of a run keeps it. *)
LEMMA StepKeeps ==
    ASSUME NEW nodes, NEW pairs, Mutual(pairs, nodes), NEW t \in TarjanState(nodes, pairs),
           TarjanInv(nodes, pairs, t)
    PROVE  TarjanInv(nodes, pairs, TarjanStep(t))
<1> DEFINE e == TarjanStep(t)
<1>1. pairs \subseteq nodes \X nodes
  BY DEF Mutual
<1>2. /\ e \in TarjanState(nodes, pairs)
      /\ \/ Begins(nodes, t, e) \/ CallsOn(nodes, t, e) \/ Notes(nodes, t, e)
         \/ Returns(nodes, t, e) \/ Stays(nodes, t, e)
  BY <1>1, StepKinds
<1>3. PartsTyped(nodes, pairs, t) /\ PartsTyped(nodes, pairs, e)
  BY <1>2, StateTyped
<1> HIDE DEF e
<1>4. CASE Begins(nodes, t, e)
  BY <1>3, <1>4, BeginsKeeps DEF e
<1>5. CASE CallsOn(nodes, t, e)
  BY <1>3, <1>5, CallsKeeps DEF e
<1>6. CASE Notes(nodes, t, e)
  BY <1>3, <1>6, NotesKeeps DEF e
<1>7. CASE Returns(nodes, t, e)
  BY <1>3, <1>7, ReturnsKeeps DEF e
<1>8. CASE Stays(nodes, t, e)
  BY <1>8 DEF Stays, e
<1> QED  BY <1>2, <1>4, <1>5, <1>6, <1>7, <1>8

(* Where a run ends, and what it has then. *)
Final(nodes, t) == Len(t.calls) = 0 /\ \A v \in nodes : t.index[v] # -1
Fresh(nodes, t) == \A v \in nodes : t.index[v] = -1
Apart(part, pairs) == \A vw \in pairs : vw[1] \in part <=> vw[2] \in part
OneSide(nodes, part, t) ==
    \/ \A v \in nodes : t.index[v] # -1 => v \in part
    \/ \A v \in nodes : t.index[v] # -1 => v \notin part

(* The first component is begun from nothing, and stays on one side of a part
   that no pair leaves. *)
Parted(nodes, part, t) ==
    /\ Len(t.components) = 0 /\ Len(t.calls) = 0 => Fresh(nodes, t)
    /\ Len(t.components) = 0 \/ (Len(t.components) = 1 /\ Len(t.calls) = 0) => OneSide(nodes, part, t)

LEMMA StepParted ==
    ASSUME NEW nodes, NEW pairs, Mutual(pairs, nodes), NEW part, Apart(part, pairs),
           NEW t \in TarjanState(nodes, pairs), TarjanInv(nodes, pairs, t), Parted(nodes, part, t)
    PROVE  Parted(nodes, part, TarjanStep(t))
<1> DEFINE e == TarjanStep(t)
<1>1. /\ e \in TarjanState(nodes, pairs)
      /\ \/ Begins(nodes, t, e) \/ CallsOn(nodes, t, e) \/ Notes(nodes, t, e)
         \/ Returns(nodes, t, e) \/ Stays(nodes, t, e)
  BY StepKinds DEF Mutual
<1>2. PartsTyped(nodes, pairs, t) /\ PartsTyped(nodes, pairs, e)
  BY <1>1, StateTyped
<1> HIDE DEF e
<1> SUFFICES Parted(nodes, part, e)
  BY DEF e
<1>3. CASE Begins(nodes, t, e)
  <2>1. PICK v \in nodes : Entered(nodes, t, e, v)
    BY <1>3 DEF Begins
  <2>2. /\ Len(t.calls) = 0 /\ Len(e.calls) = 1 /\ e.components = t.components
        /\ \A x \in nodes : x # v => e.index[x] = t.index[x]
    BY <1>3, <2>1 DEF Begins, Entered
  <2>3. ASSUME Len(e.components) = 0
        PROVE  OneSide(nodes, part, e)
    BY <2>2, <2>3 DEF Parted, Fresh, OneSide
  <2> QED  BY <2>2, <2>3 DEF Parted
<1>4. CASE CallsOn(nodes, t, e)
  <2>1. PICK v, w \in nodes : v = t.calls[Len(t.calls)] /\ <<v, w>> \in t.left /\ Entered(nodes, t, e, w)
    BY <1>4 DEF CallsOn
  <2>2. /\ Len(t.calls) > 0 /\ Len(e.calls) = Len(t.calls) + 1 /\ e.components = t.components
        /\ \A x \in nodes : x # w => e.index[x] = t.index[x]
    BY <1>4, <2>1 DEF CallsOn, Entered
  <2>3. Len(t.calls) \in 1..Len(t.calls)
    BY <1>2, <2>2 DEF PartsTyped
  <2>4. t.index[v] # -1 /\ Len(e.calls) # 0
    BY <1>2, <2>1, <2>2, <2>3 DEF TarjanInv, PathOn, StackSeen, PartsTyped
  <2>5. v \in part <=> w \in part
    BY <1>2, <2>1 DEF PartsTyped, Apart
  <2>6. ASSUME Len(e.components) = 0
        PROVE  OneSide(nodes, part, e)
    <3>1. OneSide(nodes, part, t)
      BY <2>2, <2>6 DEF Parted
    <3> QED  BY <2>2, <2>4, <2>5, <3>1 DEF OneSide
  <2> QED  BY <2>4, <2>6 DEF Parted
<1>5. CASE Notes(nodes, t, e)
  <2>1. e.components = t.components /\ e.calls = t.calls /\ e.index = t.index
    BY <1>5 DEF Notes, Noted
  <2> QED  BY <2>1 DEF Parted, Fresh, OneSide
<1>6. CASE Returns(nodes, t, e)
  <2> DEFINE ct == Len(t.components)
             ce == Len(e.components)
             dt == Len(t.calls)
             de == Len(e.calls)
  <2>1. e.index = t.index /\ de = dt - 1 /\ dt > 0 /\ dt \in Nat /\ ct \in Nat
    BY <1>2, <1>6 DEF Returns, PartsTyped
  <2>2. (dt = 1 => ce = ct + 1) /\ (dt > 1 => e.components = t.components)
    BY <1>2, <1>6, ReturnsRoot
  <2>3. e.components = t.components => ce = ct
    OBVIOUS
  <2>4. /\ ct = 0 /\ dt = 0 => Fresh(nodes, t)
        /\ ct = 0 \/ (ct = 1 /\ dt = 0) => OneSide(nodes, part, t)
    BY DEF Parted
  <2>5. OneSide(nodes, part, t) => OneSide(nodes, part, e)
    BY <2>1 DEF OneSide
  <2> HIDE DEF ct, ce, dt, de
  <2>6. /\ ce = 0 /\ de = 0 => Fresh(nodes, e)
        /\ ce = 0 \/ (ce = 1 /\ de = 0) => OneSide(nodes, part, t)
    BY ONLY <2>1, <2>2, <2>3, <2>4
  <2> QED  BY <2>5, <2>6 DEF Parted, ce, de
<1>7. CASE Stays(nodes, t, e)
  BY <1>7 DEF Stays
<1> QED  BY <1>1, <1>3, <1>4, <1>5, <1>6, <1>7

(* Where every part is left by a pair, the first component takes everything. *)
Together(nodes, pairs) ==
    \A part \in (SUBSET nodes) \ {{}, nodes} : \E vw \in pairs : vw[1] \in part /\ vw[2] \notin part
AllInFirst(nodes, t) ==
    /\ Len(t.components) <= 1
    /\ Len(t.calls) > 0 => Len(t.components) = 0
    /\ Len(t.components) = 0 /\ Len(t.calls) = 0 => Fresh(nodes, t)
    /\ Len(t.components) = 1 => ~Fresh(nodes, t)

LEMMA StepTogether ==
    ASSUME NEW nodes, NEW pairs, Mutual(pairs, nodes), Together(nodes, pairs),
           NEW t \in TarjanState(nodes, pairs), TarjanInv(nodes, pairs, t), AllInFirst(nodes, t)
    PROVE  AllInFirst(nodes, TarjanStep(t))
<1> DEFINE e == TarjanStep(t)
<1>1. /\ e \in TarjanState(nodes, pairs)
      /\ \/ Begins(nodes, t, e) \/ CallsOn(nodes, t, e) \/ Notes(nodes, t, e)
         \/ Returns(nodes, t, e) \/ Stays(nodes, t, e)
  BY StepKinds DEF Mutual
<1>2. PartsTyped(nodes, pairs, t) /\ PartsTyped(nodes, pairs, e)
  BY <1>1, StateTyped
<1> HIDE DEF e
<1> SUFFICES AllInFirst(nodes, e)
  BY DEF e
<1>3. CASE Begins(nodes, t, e)
  <2> DEFINE ct == Len(t.components)
             ce == Len(e.components)
             dt == Len(t.calls)
             de == Len(e.calls)
  <2>1. PICK v \in nodes : Entered(nodes, t, e, v)
    BY <1>3 DEF Begins
  <2>2. dt = 0 /\ de = 1 /\ ce = ct /\ t.index[v] = -1 /\ ct \in Nat
    BY <1>2, <1>3, <2>1 DEF Begins, Entered, PartsTyped
  <2>3. ct <= 1 /\ (ct = 1 => ~Fresh(nodes, t))
    BY DEF AllInFirst
  <2> HIDE DEF ct, ce, dt, de
  <2>4. ASSUME ct = 1
        PROVE  FALSE
    <3> DEFINE part == {x \in nodes : t.index[x] # -1}
    <3>1. part \in (SUBSET nodes) \ {{}, nodes}
      <4>1. v \in nodes /\ v \notin part
        BY <2>2
      <4>2. \E x \in nodes : x \in part
        BY <2>3, <2>4 DEF Fresh
      <4> QED  BY <4>1, <4>2
    <3>2. PICK vw \in pairs : vw[1] \in part /\ vw[2] \notin part
      BY <3>1 DEF Together
    <3>3. vw[2] \in nodes
      BY DEF Mutual
    <3>4. t.index[vw[1]] # -1 /\ t.index[vw[2]] = -1
      BY <3>2, <3>3
    <3>5. vw \in t.left
      BY <3>4 DEF TarjanInv, Looked
    <3>6. Called(t, vw[1])
      BY <3>4, <3>5 DEF TarjanInv, Open
    <3>7. 1..dt = {}
      BY <2>2
    <3> QED  BY <3>6, <3>7 DEF Called, dt
  <2>5. ct = 0 /\ ce = 0 /\ de = 1
    BY <2>2, <2>3, <2>4
  <2>6. /\ ce <= 1 /\ (de > 0 => ce = 0) /\ (ce = 0 /\ de = 0 => Fresh(nodes, e))
        /\ (ce = 1 => ~Fresh(nodes, e))
    BY ONLY <2>5
  <2> QED  BY <2>6 DEF AllInFirst, ce, de
<1>4. CASE CallsOn(nodes, t, e)
  <2> DEFINE ct == Len(t.components)
             ce == Len(e.components)
             dt == Len(t.calls)
             de == Len(e.calls)
  <2>1. PICK w \in nodes : Entered(nodes, t, e, w)
    BY <1>4 DEF CallsOn
  <2>2. dt > 0 /\ de = dt + 1 /\ ce = ct /\ dt \in Nat /\ (dt > 0 => ct = 0)
    BY <1>2, <1>4, <2>1 DEF CallsOn, Entered, PartsTyped, AllInFirst
  <2> HIDE DEF ct, ce, dt, de
  <2>3. /\ ce <= 1 /\ (de > 0 => ce = 0) /\ (ce = 0 /\ de = 0 => Fresh(nodes, e))
        /\ (ce = 1 => ~Fresh(nodes, e))
    BY ONLY <2>2
  <2> QED  BY <2>3 DEF AllInFirst, ce, de
<1>5. CASE Notes(nodes, t, e)
  <2>1. e.components = t.components /\ e.calls = t.calls /\ e.index = t.index
    BY <1>5 DEF Notes, Noted
  <2> QED  BY <2>1 DEF AllInFirst, Fresh
<1>6. CASE Returns(nodes, t, e)
  <2> DEFINE ct == Len(t.components)
             ce == Len(e.components)
             dt == Len(t.calls)
             de == Len(e.calls)
  <2>1. e.index = t.index /\ de = dt - 1 /\ dt > 0 /\ dt \in Nat /\ ct = 0
    BY <1>2, <1>6 DEF Returns, PartsTyped, AllInFirst
  <2>2. (dt = 1 => ce = ct + 1) /\ (dt > 1 => e.components = t.components)
    BY <1>2, <1>6, ReturnsRoot
  <2>3. e.components = t.components => ce = ct
    OBVIOUS
  <2>4. ~Fresh(nodes, t)
    <3>1. dt \in 1..dt
      BY <2>1
    <3> QED  BY <1>2, <3>1 DEF TarjanInv, PathOn, StackSeen, Fresh, PartsTyped
  <2>5. ~Fresh(nodes, e)
    BY <2>1, <2>4 DEF Fresh
  <2> HIDE DEF ct, ce, dt, de
  <2>6. /\ ce <= 1 /\ (de > 0 => ce = 0) /\ (ce = 0 /\ de = 0 => Fresh(nodes, e))
        /\ (ce = 1 => ~Fresh(nodes, e))
    BY ONLY <2>1, <2>2, <2>3, <2>5
  <2> QED  BY <2>6 DEF AllInFirst, ce, de
<1>7. CASE Stays(nodes, t, e)
  BY <1>7 DEF Stays
<1> QED  BY <1>1, <1>3, <1>4, <1>5, <1>6, <1>7

(* Each step that is not the last leaves less to do. *)
Remaining(nodes, t) == {v \in nodes : t.index[v] = -1 \/ Called(t, v)}
Measure(nodes, t) ==
    2 * (Cardinality(t.left) + Cardinality(Remaining(nodes, t)))
    + (IF Len(t.calls) = 0 THEN 1 ELSE 0)

LEMMA MeasureParts ==
    ASSUME NEW nodes, IsFiniteSet(nodes), NEW pairs, Mutual(pairs, nodes), NEW t, PartsTyped(nodes, pairs, t)
    PROVE  /\ IsFiniteSet(t.left) /\ Cardinality(t.left) \in Nat
           /\ IsFiniteSet(Remaining(nodes, t)) /\ Cardinality(Remaining(nodes, t)) \in Nat
<1>1. IsFiniteSet(nodes \X nodes)
  BY FS_Product
<1>2. t.left \subseteq nodes \X nodes /\ Remaining(nodes, t) \subseteq nodes
  BY DEF PartsTyped, Mutual, Remaining
<1> QED  BY <1>1, <1>2, FS_Subset, FS_CardinalityType

LEMMA StepMeasure ==
    ASSUME NEW nodes, IsFiniteSet(nodes), NEW pairs, Mutual(pairs, nodes),
           NEW t \in TarjanState(nodes, pairs), TarjanInv(nodes, pairs, t)
    PROVE  \/ Final(nodes, t) /\ TarjanStep(t) = t
           \/ Measure(nodes, TarjanStep(t)) <= Measure(nodes, t) - 1
<1> DEFINE e == TarjanStep(t)
           depth == Len(t.calls)
           lt == Cardinality(t.left)
           le == Cardinality(e.left)
           rt == Cardinality(Remaining(nodes, t))
           re == Cardinality(Remaining(nodes, e))
<1>1. /\ e \in TarjanState(nodes, pairs)
      /\ \/ Begins(nodes, t, e) \/ CallsOn(nodes, t, e) \/ Notes(nodes, t, e)
         \/ Returns(nodes, t, e) \/ Stays(nodes, t, e)
  BY StepKinds DEF Mutual
<1>2. PartsTyped(nodes, pairs, t) /\ PartsTyped(nodes, pairs, e)
  BY <1>1, StateTyped
<1> HIDE DEF e
<1>3. lt \in Nat /\ le \in Nat /\ rt \in Nat /\ re \in Nat /\ IsFiniteSet(t.left)
      /\ IsFiniteSet(Remaining(nodes, t))
  BY <1>2, MeasureParts
<1>4. depth \in Nat /\ Len(e.calls) \in Nat
      /\ \A i \in 1..depth : t.calls[i] \in nodes /\ t.index[t.calls[i]] # -1
  BY <1>2 DEF PartsTyped, TarjanInv, PathOn, StackSeen
<1>5. ASSUME NEW v \in nodes, NEW w \in nodes, <<v, w>> \in t.left, e.left = t.left \ {<<v, w>>}
      PROVE  le = lt - 1
  <2>1. IsFiniteSet(t.left)
    BY <1>3
  <2>2. Cardinality(t.left \ {<<v, w>>}) = Cardinality(t.left) - 1
    BY ONLY <1>5, <2>1, FS_RemoveElement
  <2> QED  BY <1>5, <2>2
<1>6. ASSUME NEW w \in nodes, Entered(nodes, t, e, w)
      PROVE  Remaining(nodes, e) = Remaining(nodes, t)
  <2>1. /\ t.index[w] = -1 /\ e.index[w] = t.next /\ t.next \in Nat
        /\ \A x \in nodes : x # w => e.index[x] = t.index[x]
        /\ Len(e.calls) = depth + 1 /\ e.calls[depth + 1] = w
        /\ \A i \in 1..depth : e.calls[i] = t.calls[i]
    BY <1>2, <1>6 DEF Entered, PartsTyped
  <2> HIDE DEF depth
  <2>2. \A x \in nodes : Called(e, x) <=> x = w \/ Called(t, x)
    <3>1. \A i \in 1..(depth + 1) : i = depth + 1 \/ i \in 1..depth
      BY <1>4
    <3>2. depth + 1 \in 1..(depth + 1) /\ \A i \in 1..depth : i \in 1..(depth + 1)
      BY <1>4
    <3> QED  BY <2>1, <3>1, <3>2 DEF Called, depth
  <2> QED  BY <2>1, <2>2 DEF Remaining
<1>7. Measure(nodes, t) = 2 * (lt + rt) + (IF depth = 0 THEN 1 ELSE 0)
      /\ Measure(nodes, e) = 2 * (le + re) + (IF Len(e.calls) = 0 THEN 1 ELSE 0)
  BY DEF Measure
<1>8. CASE Begins(nodes, t, e)
  <2>1. PICK v \in nodes : Entered(nodes, t, e, v)
    BY <1>8 DEF Begins
  <2>2. depth = 0 /\ Len(e.calls) = 1 /\ le = lt /\ re = rt
    BY <1>6, <1>8, <2>1 DEF Begins, Entered
  <2> HIDE DEF lt, le, rt, re, depth
  <2> QED  BY <1>3, <1>7, <2>2 DEF e
<1>9. CASE CallsOn(nodes, t, e)
  <2>1. PICK v, w \in nodes : /\ <<v, w>> \in t.left /\ e.left = t.left \ {<<v, w>>}
                              /\ Entered(nodes, t, e, w)
    BY <1>9 DEF CallsOn
  <2>2. depth > 0 /\ Len(e.calls) = depth + 1 /\ re = rt /\ le = lt - 1
    BY <1>5, <1>6, <1>9, <2>1 DEF CallsOn, Entered
  <2> HIDE DEF lt, le, rt, re, depth
  <2> QED  BY <1>3, <1>4, <1>7, <2>2 DEF e
<1>10. CASE Notes(nodes, t, e)
  <2>1. PICK v, w \in nodes : <<v, w>> \in t.left /\ Noted(nodes, t, e, v, w)
    BY <1>10 DEF Notes
  <2>2. e.left = t.left \ {<<v, w>>} /\ e.calls = t.calls /\ e.index = t.index
    BY <2>1 DEF Noted
  <2>3. le = lt - 1 /\ re = rt
    BY <1>5, <2>1, <2>2 DEF Remaining, Called
  <2>4. depth > 0 /\ Len(e.calls) = depth
    BY <1>10, <2>2 DEF Notes
  <2> HIDE DEF lt, le, rt, re, depth
  <2> QED  BY <1>3, <1>4, <1>7, <2>3, <2>4 DEF e
<1>11. CASE Returns(nodes, t, e)
  <2> DEFINE v == t.calls[depth]
  <2>1. /\ depth > 0 /\ e.left = t.left /\ e.index = t.index /\ Len(e.calls) = depth - 1
        /\ \A i \in 1..depth - 1 : e.calls[i] = t.calls[i]
    BY <1>11 DEF Returns
  <2>2. v \in nodes /\ t.index[v] # -1 /\ depth \in 1..depth
    BY <1>4, <2>1
  <2>3. \A i \in 1..depth - 1 : i \in 1..depth /\ i < depth
    BY <1>4
  <2>4. \A i \in 1..depth : i = depth \/ i \in 1..depth - 1
    BY <1>4
  <2>5. \A i \in 1..depth - 1 : t.calls[i] # v
    <3> TAKE i \in 1..depth - 1
    <3>1. t.index[t.calls[i]] < t.index[v]
      BY <2>2, <2>3 DEF TarjanInv, PathUp
    <3>2. t.index[v] \in Int
      BY <1>2, <2>2 DEF PartsTyped
    <3> QED  BY <3>1, <3>2
  <2>6. \A x \in nodes : Called(e, x) <=> Called(t, x) /\ x # v
    <3> TAKE x \in nodes
    <3>1. Called(e, x) <=> \E i \in 1..depth - 1 : t.calls[i] = x
      BY <2>1 DEF Called
    <3>2. Called(t, x) <=> \E i \in 1..depth : t.calls[i] = x
      BY DEF Called
    <3> HIDE DEF depth
    <3> QED  BY <2>3, <2>4, <2>5, <3>1, <3>2
  <2>7. v \in Remaining(nodes, t) /\ Remaining(nodes, e) = Remaining(nodes, t) \ {v}
    <3>1. Called(t, v)
      BY <2>2 DEF Called
    <3> HIDE DEF v
    <3> QED  BY <2>1, <2>2, <2>6, <3>1 DEF Remaining
  <2>8. re = rt - 1 /\ le = lt
    <3> HIDE DEF v
    <3>1. IsFiniteSet(Remaining(nodes, t))
      BY <1>3
    <3>2. Cardinality(Remaining(nodes, t) \ {v}) = Cardinality(Remaining(nodes, t)) - 1
      BY ONLY <2>7, <3>1, FS_RemoveElement
    <3> QED  BY <2>1, <2>7, <3>2
  <2> HIDE DEF lt, le, rt, re, depth
  <2> QED  BY <1>3, <1>4, <1>7, <2>1, <2>8 DEF e
<1>12. CASE Stays(nodes, t, e)
  BY <1>12 DEF Stays, Final, e
<1> QED  BY <1>1, <1>8, <1>9, <1>10, <1>11, <1>12

(* A whole run. *)
Running(nodes, pairs, t) ==
    /\ t \in TarjanState(nodes, pairs) /\ TarjanInv(nodes, pairs, t)
    /\ \A part \in SUBSET nodes : Apart(part, pairs) => Parted(nodes, part, t)
    /\ Together(nodes, pairs) => AllInFirst(nodes, t)

LEMMA StepRuns ==
    ASSUME NEW nodes, NEW pairs, Mutual(pairs, nodes), NEW t, Running(nodes, pairs, t)
    PROVE  Running(nodes, pairs, TarjanStep(t))
<1>1. t \in TarjanState(nodes, pairs) /\ TarjanInv(nodes, pairs, t)
  BY DEF Running
<1>2. TarjanStep(t) \in TarjanState(nodes, pairs)
  BY <1>1, StepKinds DEF Mutual
<1>3. TarjanInv(nodes, pairs, TarjanStep(t))
  BY <1>1, StepKeeps
<1>4. ASSUME NEW part \in SUBSET nodes, Apart(part, pairs)
      PROVE  Parted(nodes, part, TarjanStep(t))
  BY <1>1, <1>4, StepParted DEF Running
<1>5. Together(nodes, pairs) => AllInFirst(nodes, TarjanStep(t))
  BY <1>1, StepTogether DEF Running
<1> QED  BY <1>2, <1>3, <1>4, <1>5 DEF Running

LEMMA NeighborsMutual ==
    ASSUME NEW nodes, NEW edges
    PROVE  Mutual(Neighbors(nodes, edges), nodes)
<1>1. ASSUME NEW vw \in Neighbors(nodes, edges)
      PROVE  vw[1] # vw[2] /\ <<vw[2], vw[1]>> \in Neighbors(nodes, edges)
  <2>1. /\ vw[1] \in nodes /\ vw[2] \in nodes /\ vw[1] # vw[2] /\ {vw[1], vw[2]} \in edges
    BY DEF Neighbors
  <2>2. {vw[2], vw[1]} \in edges
    <3>1. {vw[2], vw[1]} = {vw[1], vw[2]}
      OBVIOUS
    <3> QED  BY <2>1, <3>1
  <2> QED  BY <2>1, <2>2 DEF Neighbors
<1> QED  BY <1>1 DEF Mutual, Neighbors

LEMMA StartRuns ==
    ASSUME NEW nodes, NEW edges
    PROVE  /\ Running(nodes, Neighbors(nodes, edges), TarjanStart(nodes, edges))
           /\ Measure(nodes, TarjanStart(nodes, edges)) = TarjanSteps(nodes, edges)
<1> DEFINE t == TarjanStart(nodes, edges)
           pairs == Neighbors(nodes, edges)
<1>1. /\ t.next = 0 /\ t.index = [v \in nodes |-> -1] /\ t.low = [v \in nodes |-> -1] /\ t.stack = {}
      /\ t.components = <<>> /\ t.calls = <<>> /\ t.left = pairs
  BY DEF TarjanStart, Neighbors
<1>2. t \in TarjanState(nodes, pairs)
  BY DEF TarjanStart, TarjanState, Neighbors
<1>3. Len(t.calls) = 0 /\ Len(t.components) = 0
  BY <1>1
<1> HIDE DEF t
<1>4. \A v \in nodes : t.index[v] = -1
  BY <1>1
<1>5. 1..Len(t.calls) = {} /\ 2..Len(t.calls) = {}
  BY <1>3
<1>6. \A vw \in pairs : vw[1] \in nodes /\ vw[2] \in nodes
  BY DEF Neighbors
<1> HIDE DEF pairs
<1>7. Numbered(nodes, t) /\ PathUp(t) /\ PathOn(t) /\ StackSeen(t) /\ Rooted(t) /\ Emptied(t)
      /\ Callers(pairs, t)
  BY <1>1, <1>4, <1>5 DEF Numbered, PathUp, PathOn, StackSeen, Rooted, Emptied, Callers
<1>8. Looked(pairs, t) /\ Open(t)
  BY <1>1, <1>4, <1>6 DEF Looked, Open
<1>9. TarjanInv(nodes, pairs, t)
  BY <1>7, <1>8 DEF TarjanInv
<1>10. Fresh(nodes, t)
  BY <1>4 DEF Fresh
<1>11. \A part \in SUBSET nodes : Parted(nodes, part, t)
  BY <1>10 DEF Parted, OneSide, Fresh
<1>12. AllInFirst(nodes, t)
  BY <1>3, <1>10 DEF AllInFirst
<1>13. Remaining(nodes, t) = nodes
  BY <1>4 DEF Remaining
<1>14. Measure(nodes, t) = 2 * (Cardinality(t.left) + Cardinality(nodes)) + 1
  BY <1>3, <1>13 DEF Measure
<1>15. TarjanSteps(nodes, edges) = 2 * (Cardinality(t.left) + Cardinality(nodes)) + 1
  BY DEF TarjanSteps, t
<1>16. Running(nodes, pairs, t)
  BY <1>2, <1>9, <1>11, <1>12 DEF Running
<1> QED  BY <1>14, <1>15, <1>16 DEF t, pairs

LEMMA FinalStays ==
    ASSUME NEW nodes, NEW pairs, NEW t \in TarjanState(nodes, pairs), Final(nodes, t)
    PROVE  TarjanStep(t) = t
<1>1. t.calls = <<>> /\ DOMAIN t.index = nodes
  BY StateFields DEF Final
<1>2. {v \in DOMAIN t.index : t.index[v] = -1} = {}
  BY <1>1 DEF Final
<1> QED  BY <1>1, <1>2 DEF TarjanStep

(* It ends within its steps. *)
LEMMA RunEnds ==
    ASSUME NEW nodes, IsFiniteSet(nodes), NEW edges
    PROVE  \E t : /\ Running(nodes, Neighbors(nodes, edges), t) /\ Final(nodes, t)
                  /\ Components(nodes, edges) = t.components
<1> DEFINE N == TarjanSteps(nodes, edges)
           pairs == Neighbors(nodes, edges)
           State == {t \in TarjanState(nodes, pairs) : Running(nodes, pairs, t)}
           Start == TarjanStart(nodes, edges)
           Is(g) == g = [k \in 0..N |-> IF k = 0 THEN TarjanStart(nodes, edges) ELSE TarjanStep(g[k - 1])]
           G == [kx \in (0 + 1..N) \X State |-> TarjanStep(kx[2])]
<1>1. Mutual(pairs, nodes)
  BY NeighborsMutual
<1>2. Start \in State /\ Measure(nodes, Start) = N
  BY StartRuns DEF Running
<1>3. ASSUME NEW t \in State
      PROVE  /\ TarjanStep(t) \in State
             /\ \/ Final(nodes, t) /\ TarjanStep(t) = t
                \/ Measure(nodes, TarjanStep(t)) <= Measure(nodes, t) - 1
             /\ Cardinality(t.left) \in Nat /\ Cardinality(Remaining(nodes, t)) \in Nat
             /\ IsFiniteSet(Remaining(nodes, t)) /\ Len(t.calls) \in Nat
  <2>1. Running(nodes, pairs, t) /\ t \in TarjanState(nodes, pairs) /\ TarjanInv(nodes, pairs, t)
    BY DEF Running
  <2>2. Running(nodes, pairs, TarjanStep(t))
    BY <1>1, <2>1, StepRuns
  <2>3. TarjanStep(t) \in State
    BY <2>2 DEF Running
  <2>4. \/ Final(nodes, t) /\ TarjanStep(t) = t
        \/ Measure(nodes, TarjanStep(t)) <= Measure(nodes, t) - 1
    BY <1>1, <2>1, StepMeasure
  <2>5. PartsTyped(nodes, pairs, t)
    BY <2>1, StateTyped
  <2>6. /\ Cardinality(t.left) \in Nat /\ Cardinality(Remaining(nodes, t)) \in Nat
        /\ IsFiniteSet(Remaining(nodes, t)) /\ Len(t.calls) \in Nat
    BY <1>1, <2>5, MeasureParts DEF PartsTyped
  <2> QED  BY <2>3, <2>4, <2>6
<1> HIDE DEF State
<1>4. ASSUME NEW t \in State
      PROVE  /\ Measure(nodes, t) \in Nat
             /\ Measure(nodes, t) = 0 => FALSE
  <2> DEFINE l == Cardinality(t.left)
             r == Cardinality(Remaining(nodes, t))
             d == Len(t.calls)
  <2>1. l \in Nat /\ r \in Nat /\ d \in Nat /\ IsFiniteSet(Remaining(nodes, t))
    BY <1>3
  <2>2. Measure(nodes, t) = 2 * (l + r) + (IF d = 0 THEN 1 ELSE 0)
    BY DEF Measure
  <2>3. d > 0 => r # 0
    <3> SUFFICES ASSUME d > 0
                 PROVE  r # 0
      OBVIOUS
    <3>1. d \in 1..d
      BY <2>1
    <3>2. t.calls[d] \in nodes
      BY <3>1, StateFields DEF State
    <3>3. t.calls[d] \in Remaining(nodes, t)
      BY <3>1, <3>2 DEF Remaining, Called
    <3> QED  BY <2>1, <3>3, FS_EmptySet
  <2> HIDE DEF l, r, d
  <2> QED  BY <2>1, <2>2, <2>3
<1>5. N \in Nat /\ 0 \in Nat /\ 0 <= N /\ 0 + 1..N = 1..N
  <2>1. N \in Nat
    BY <1>2, <1>4
  <2> HIDE DEF N
  <2> QED  BY <2>1
<1> HIDE DEF N, Start
<1>6. \A k \in 0 + 1..N : \A x \in State : G[<<k, x>>] = TarjanStep(x)
  OBVIOUS
<1>7. G \in [(0 + 1..N) \X State -> State]
  <2>1. \A kx \in (0 + 1..N) \X State : kx[2] \in State
    OBVIOUS
  <2> QED  BY <1>3, <2>1
<1> HIDE DEF G
<1>8. PICK g : Grows(g, 0, N, State, Start, G)
  BY <1>2, <1>5, <1>7, Recursion
<1>9. Is(g)
  <2>1. g \in [0..N -> State] /\ g[0] = Start /\ \A k \in 1..N : g[k] = G[<<k, g[k - 1]>>]
    BY <1>5, <1>8 DEF Grows
  <2>2. ASSUME NEW k \in 1..N PROVE g[k] = TarjanStep(g[k - 1])
    <3>1. k - 1 \in 0..N /\ k \in 0 + 1..N
      BY <1>5
    <3>2. g[k - 1] \in State
      BY <2>1, <3>1
    <3> QED  BY <1>6, <2>1, <3>1, <3>2
  <2>3. \A k \in 0..N : k = 0 \/ k \in 1..N
    BY <1>5
  <2>4. \A k \in 0..N : g[k] = IF k = 0 THEN Start ELSE TarjanStep(g[k - 1])
    BY <2>1, <2>2, <2>3
  <2> QED  BY <2>1, <2>4 DEF Start
<1> DEFINE c == CHOOSE h : Is(h)
<1>10. Is(c)
  BY <1>9
<1>11. Components(nodes, edges) = c[N].components
  BY DEF Components, N
<1> HIDE DEF c
<1>12. c[0] = Start /\ \A k \in 1..N : c[k] = TarjanStep(c[k - 1])
  <2>1. \A k \in 0..N : c[k] = IF k = 0 THEN Start ELSE TarjanStep(c[k - 1])
    BY <1>10 DEF Start
  <2>2. 0 \in 0..N /\ \A k \in 1..N : k \in 0..N /\ k # 0
    BY <1>5
  <2> HIDE DEF Is
  <2> QED  BY <2>1, <2>2
<1> DEFINE Holds(t, k) == t \in State /\ (Final(nodes, t) \/ Measure(nodes, t) <= N - k)
           S == {k \in 0..N : Holds(c[k], k)}
<1>13. ASSUME NEW n \in 0..N, \A m \in 0..n - 1 : m \in S
       PROVE  n \in S
  <2>1. CASE n = 0
    <3>1. Holds(c[0], 0)
      BY <1>2, <1>5, <1>12
    <3> QED  BY <2>1, <3>1
  <2>2. CASE n # 0
    <3> DEFINE t == c[n - 1]
               e == c[n]
    <3>1. n - 1 \in 0..n - 1 /\ n \in 1..N
      BY <2>2
    <3>2. n - 1 \in S
      BY <1>13, <3>1
    <3>3. e = TarjanStep(t) /\ Holds(t, n - 1)
      BY <1>12, <3>1, <3>2
    <3>4. /\ t \in State /\ e \in State
          /\ Final(nodes, t) \/ Measure(nodes, t) <= N - (n - 1)
          /\ \/ Final(nodes, t) /\ e = t
             \/ Measure(nodes, e) <= Measure(nodes, t) - 1
      BY <1>3, <3>3
    <3>5. Measure(nodes, t) \in Nat /\ Measure(nodes, e) \in Nat
      BY <1>4, <3>4
    <3>6. Final(nodes, e) \/ Measure(nodes, e) <= N - n
      <4> HIDE DEF e, t
      <4>1. CASE Final(nodes, t)
        <5>1. TarjanStep(t) = t
          BY <3>4, <4>1, FinalStays DEF State
        <5> QED  BY <3>3, <4>1, <5>1
      <4>2. CASE ~Final(nodes, t)
        BY <1>5, <3>4, <3>5, <4>2
      <4> QED  BY <4>1, <4>2
    <3> QED  BY <3>4, <3>6
  <2> QED  BY <2>1, <2>2
<1>14. N \in S
  <2> HIDE DEF S
  <2>1. \A n \in 0..N : n \in S
    BY <1>5, <1>13, Climb
  <2> QED  BY <1>5, <2>1
<1>15. c[N] \in State /\ (Final(nodes, c[N]) \/ Measure(nodes, c[N]) <= N - N)
  BY <1>14
<1>16. Final(nodes, c[N])
  <2>1. Measure(nodes, c[N]) \in Nat /\ Measure(nodes, c[N]) # 0
    BY <1>4, <1>15
  <2> QED  BY <1>5, <1>15, <2>1
<1> QED  BY <1>11, <1>15, <1>16 DEF State

(* However the nodes are parted in two, some edge crosses. *)
Crossed(nodes, edges) ==
    \A part \in (SUBSET nodes) \ {{}, nodes} :
        \E v \in part : \E w \in nodes \ part : {v, w} \in edges

(* What Tarjan's algorithm answers (graph.rs: tarjan_scc), of neighbors both ways:
   one component, if and only if every parting is crossed. *)
THEOREM OneComponent ==
    ASSUME NEW nodes, IsFiniteSet(nodes), nodes # {}, NEW edges
    PROVE  Len(Components(nodes, edges)) = 1 <=> Crossed(nodes, edges)
<1> DEFINE pairs == Neighbors(nodes, edges)
<1>1. PICK t : /\ Running(nodes, pairs, t) /\ Final(nodes, t)
               /\ Components(nodes, edges) = t.components
  BY RunEnds
<1> DEFINE n == Len(t.components)
<1>2. t \in TarjanState(nodes, pairs) /\ n \in Nat /\ Len(t.calls) = 0 /\ ~Fresh(nodes, t)
  BY <1>1, StateFields DEF Running, Final, Fresh
<1>3. ASSUME n = 1, NEW part \in (SUBSET nodes) \ {{}, nodes}
      PROVE  \E v \in part : \E w \in nodes \ part : {v, w} \in edges
  <2>1. part \subseteq nodes /\ part # {} /\ part # nodes
    OBVIOUS
  <2>2. CASE Apart(part, pairs)
    <3>1. Parted(nodes, part, t)
      BY <1>1, <2>1, <2>2 DEF Running
    <3>2. OneSide(nodes, part, t)
      BY <1>2, <1>3, <3>1 DEF Parted
    <3>3. (\A v \in nodes : v \in part) \/ (\A v \in nodes : v \notin part)
      BY <1>1, <3>2 DEF OneSide, Final
    <3> QED  BY <2>1, <3>3
  <2>3. CASE ~Apart(part, pairs)
    <3>1. PICK vw \in pairs : ~(vw[1] \in part <=> vw[2] \in part)
      BY <2>3 DEF Apart
    <3>2. vw[1] \in nodes /\ vw[2] \in nodes /\ {vw[1], vw[2]} \in edges
      BY DEF Neighbors
    <3>3. CASE vw[1] \in part
      BY <3>1, <3>2, <3>3
    <3>4. CASE vw[1] \notin part
      <4>1. {vw[2], vw[1]} = {vw[1], vw[2]}
        OBVIOUS
      <4>2. {vw[2], vw[1]} \in edges /\ vw[2] \in part /\ vw[1] \in nodes \ part
        BY <3>1, <3>2, <3>4, <4>1
      <4> QED  BY <4>2
    <3> QED  BY <3>3, <3>4
  <2> QED  BY <2>2, <2>3
<1>4. ASSUME Crossed(nodes, edges)
      PROVE  n = 1
  <2>1. Together(nodes, pairs)
    <3> SUFFICES ASSUME NEW part \in (SUBSET nodes) \ {{}, nodes}
                 PROVE  \E vw \in pairs : vw[1] \in part /\ vw[2] \notin part
      BY DEF Together
    <3>1. PICK v \in part, w \in nodes \ part : {v, w} \in edges
      BY <1>4 DEF Crossed
    <3>2. <<v, w>> \in pairs
      BY <3>1 DEF Neighbors
    <3> QED  BY <3>2
  <2>2. AllInFirst(nodes, t)
    BY <1>1, <2>1 DEF Running
  <2>3. n <= 1 /\ n # 0
    BY <1>2, <2>2 DEF AllInFirst
  <2> HIDE DEF n
  <2> QED  BY <1>2, <2>3
<1> HIDE DEF n
<1>5. Len(Components(nodes, edges)) = n
  BY <1>1 DEF n
<1> QED  BY <1>3, <1>4, <1>5 DEF Crossed

-----------------------------------------------------------------------------
(* The verdict on a net, said of the groups and not of the order of the islands:
   it fails if its groups fall in two parts that no contact and no device terminal
   joins. *)

Terminal(a, b) == a.net = b.net /\ a.device # None /\ b.device = None /\ Touch(a.box, b.box)
Joins(contacts, a, b) ==
    \/ \E c \in contacts : /\ a.net = c.net /\ b.net = c.net
                           /\ Touch(a.box, c.box) /\ Touch(b.box, c.box)
    \/ Terminal(a, b) \/ Terminal(b, a)
OfNet(raw, net) == {g \in Groups(raw) : Island(raw, g).net = net}
Severed(raw, contacts, net) ==
    \E half \in (SUBSET OfNet(raw, net)) \ {{}, OfNet(raw, net)} :
        \A g \in half : \A h \in OfNet(raw, net) \ half :
            ~Joins(contacts, Island(raw, g), Island(raw, h))

Edges(islands, contacts) ==
    (UNION {Bridges(islands, c) : c \in contacts}) \cup DeviceEdges(islands)

LEMMA EdgesAre ==
    ASSUME NEW islands, NEW contacts, NEW e
    PROVE  e \in Edges(islands, contacts)
           <=> e \in DeviceEdges(islands) \/ \E c \in contacts : e \in Bridges(islands, c)
<1> DEFINE all == UNION {Bridges(islands, c) : c \in contacts}
<1>1. e \in all <=> \E c \in contacts : e \in Bridges(islands, c)
  OBVIOUS
<1>2. Edges(islands, contacts) = all \cup DeviceEdges(islands)
  BY DEF Edges
<1> HIDE DEF all
<1> QED  BY <1>1, <1>2

LEMMA EdgeIsPair ==
    ASSUME NEW islands, NEW contacts, NEW e \in Edges(islands, contacts),
           NEW x \in e, NEW y \in e, x # y
    PROVE  e = {x, y}
<1>1. CASE e \in DeviceEdges(islands)
  <2>1. PICK ab : e = {ab[1], ab[2]}
    BY <1>1 DEF DeviceEdges
  <2> QED  BY <2>1
<1>2. CASE \E c \in contacts : e \in Bridges(islands, c)
  <2>1. PICK ab : e = {ab[1], ab[2]}
    BY <1>2 DEF Bridges
  <2> QED  BY <2>1
<1> QED  BY <1>1, <1>2, EdgesAre

(* An edge joins; and what joins is not parted by the edges. *)
LEMMA EdgeJoins ==
    ASSUME NEW islands, NEW contacts, NEW v, NEW w, {v, w} \in Edges(islands, contacts)
    PROVE  Joins(contacts, islands[v], islands[w])
<1>1. CASE {v, w} \in DeviceEdges(islands)
  <2>1. PICK ab \in (DOMAIN islands) \X (DOMAIN islands) :
            /\ islands[ab[1]].net = islands[ab[2]].net
            /\ islands[ab[1]].device # None /\ islands[ab[2]].device = None
            /\ Touch(islands[ab[1]].box, islands[ab[2]].box)
            /\ {v, w} = {ab[1], ab[2]}
    BY <1>1 DEF DeviceEdges
  <2>2. Terminal(islands[ab[1]], islands[ab[2]])
    BY <2>1 DEF Terminal
  <2>3. ab[1] # ab[2]
    BY <2>1
  <2>4. (v = ab[1] /\ w = ab[2]) \/ (v = ab[2] /\ w = ab[1])
    <3>1. ab[1] \in {v, w} /\ ab[2] \in {v, w}
      BY <2>1
    <3> QED  BY <2>3, <3>1
  <2> QED  BY <2>2, <2>4 DEF Joins
<1>2. CASE \E c \in contacts : {v, w} \in Bridges(islands, c)
  <2>1. PICK c \in contacts : {v, w} \in Bridges(islands, c)
    BY <1>2
  <2>2. PICK p \in Met(islands, c) \X Met(islands, c) : {v, w} = {p[1], p[2]}
    BY <2>1 DEF Bridges
  <2>3. v \in {p[1], p[2]} /\ w \in {p[1], p[2]}
    BY <2>2
  <2>4. v \in Met(islands, c) /\ w \in Met(islands, c)
    BY <2>3
  <2> QED  BY <2>4 DEF Met, Joins
<1> QED  BY <1>1, <1>2, EdgesAre

LEMMA JoinedHold ==
    ASSUME NEW islands, NEW m, IslandList(islands, m), NEW contacts, NEW net, NEW part,
           NEW v \in DOMAIN islands, NEW w \in DOMAIN islands,
           islands[v].net = net, islands[w].net = net,
           \A e \in Edges(islands, contacts) :
               e \subseteq {k \in DOMAIN islands : islands[k].net = net}
               => \A x, y \in e : x \in part <=> y \in part,
           Joins(contacts, islands[v], islands[w])
    PROVE  v \in part <=> w \in part
<1>1. CASE Terminal(islands[v], islands[w]) \/ Terminal(islands[w], islands[v])
  <2>1. {v, w} \in DeviceEdges(islands)
    <3>1. CASE Terminal(islands[v], islands[w])
      <4>1. <<v, w>> \in {ab \in (DOMAIN islands) \X (DOMAIN islands) :
                /\ islands[ab[1]].net = islands[ab[2]].net
                /\ islands[ab[1]].device # None /\ islands[ab[2]].device = None
                /\ Touch(islands[ab[1]].box, islands[ab[2]].box)}
        BY <3>1 DEF Terminal
      <4> QED  BY <4>1 DEF DeviceEdges
    <3>2. CASE Terminal(islands[w], islands[v])
      <4>1. <<w, v>> \in {ab \in (DOMAIN islands) \X (DOMAIN islands) :
                /\ islands[ab[1]].net = islands[ab[2]].net
                /\ islands[ab[1]].device # None /\ islands[ab[2]].device = None
                /\ Touch(islands[ab[1]].box, islands[ab[2]].box)}
        BY <3>2 DEF Terminal
      <4>2. {w, v} \in DeviceEdges(islands)
        BY <4>1 DEF DeviceEdges
      <4>3. {w, v} = {v, w}
        OBVIOUS
      <4> QED  BY <4>2, <4>3
    <3> QED  BY <1>1, <3>1, <3>2
  <2>2. {v, w} \in Edges(islands, contacts)
    BY <2>1, EdgesAre
  <2>3. {v, w} \subseteq {k \in DOMAIN islands : islands[k].net = net}
    OBVIOUS
  <2> QED  BY <2>2, <2>3
<1>2. CASE \E c \in contacts : /\ islands[v].net = c.net /\ islands[w].net = c.net
                               /\ Touch(islands[v].box, c.box) /\ Touch(islands[w].box, c.box)
  <2>1. PICK c \in contacts : /\ islands[v].net = c.net /\ islands[w].net = c.net
                              /\ Touch(islands[v].box, c.box) /\ Touch(islands[w].box, c.box)
    BY <1>2
  <2>2. v \in Met(islands, c) /\ w \in Met(islands, c)
    BY <2>1 DEF Met
  <2>3. \A e \in Bridges(islands, c) : \A x, y \in e : x \in part <=> y \in part
    <3> TAKE e \in Bridges(islands, c)
    <3>1. e \in Edges(islands, contacts)
      BY EdgesAre
    <3>2. PICK p \in Met(islands, c) \X Met(islands, c) : e = {p[1], p[2]}
      BY DEF Bridges
    <3>3. \A x \in Met(islands, c) : x \in DOMAIN islands /\ islands[x].net = net
      BY <2>1 DEF Met
    <3>4. e \subseteq {k \in DOMAIN islands : islands[k].net = net}
      BY <3>2, <3>3
    <3> QED  BY <3>1, <3>4
  <2> QED  BY <2>2, <2>3, BridgesHold
<1> QED  BY <1>1, <1>2 DEF Joins

LEMMA NetVerdict ==
    ASSUME NEW raw, PieceList(raw), NEW order \in Bijection(1..Cardinality(Groups(raw)), Groups(raw)),
           NEW islands, islands = [k \in DOMAIN order |-> Island(raw, order[k])],
           NEW contacts, NEW net, OfNet(raw, net) # {}
    PROVE  NetFails(islands, Edges(islands, contacts), net) <=> Severed(raw, contacts, net)
<1> DEFINE m == Cardinality(Groups(raw))
           own == OfNet(raw, net)
           nodes == {k \in DOMAIN islands : islands[k].net = net}
           edges == {e \in Edges(islands, contacts) : e \subseteq nodes}
<1>1. m \in Nat /\ IsFiniteSet(Groups(raw))
  BY GroupsKnown, FS_CardinalityType
<1>2. /\ order \in [1..m -> Groups(raw)]
      /\ \A k, l \in 1..m : order[k] = order[l] => k = l
      /\ \A g \in Groups(raw) : \E k \in 1..m : order[k] = g
  BY DEF Bijection, Injection, Surjection, IsInjective
<1>3. DOMAIN islands = 1..m /\ \A k \in 1..m : islands[k] = Island(raw, order[k])
  BY <1>2
<1>4. IslandList(islands, m)
  BY <1>1, <1>2, <1>3, IslandIs DEF IslandList
<1>5. \A k \in 1..m : k \in nodes <=> order[k] \in own
  BY <1>2, <1>3 DEF OfNet
<1>6. nodes \subseteq 1..m /\ IsFiniteSet(nodes)
  <2>1. nodes \subseteq 1..m
    BY <1>3
  <2>2. IsFiniteSet(1..m)
    BY <1>1, FS_Interval
  <2> QED  BY <2>1, <2>2, FS_Subset
<1>7. \A g \in own : \E k \in nodes : order[k] = g
  BY <1>2, <1>5 DEF OfNet
<1>8. nodes # {}
  BY <1>7
<1>9. NetFails(islands, Edges(islands, contacts), net)
      <=> Cardinality(nodes) > 1 /\ ~Crossed(nodes, edges)
  BY <1>6, <1>8, OneComponent DEF NetFails
<1> HIDE DEF m
<1>10. ASSUME ~Crossed(nodes, edges)
       PROVE  Cardinality(nodes) > 1
  <2>1. PICK part \in (SUBSET nodes) \ {{}, nodes} : TRUE
    BY <1>10 DEF Crossed
  <2>2. PICK v \in part, w \in nodes : w \notin part
    BY <2>1
  <2>3. v \in nodes /\ v # w
    BY <2>2
  <2> HIDE DEF nodes
  <2>4. Cardinality({v, w}) = 2 /\ {v, w} \subseteq nodes
    <3>1. IsFiniteSet({v}) /\ Cardinality({v}) = 1
      BY FS_Singleton
    <3>2. w \notin {v}
      BY <2>3
    <3>3. {v} \cup {w} = {v, w}
      OBVIOUS
    <3>4. Cardinality({v} \cup {w}) = Cardinality({v}) + 1
      BY ONLY <3>1, <3>2, FS_AddElement
    <3>5. Cardinality({v, w}) = 2
      <4>1. Cardinality({v, w}) = Cardinality({v}) + 1
        BY ONLY <3>3, <3>4, Zenon
      <4> QED  BY ONLY <3>1, <4>1, SMT
    <3> QED  BY <2>2, <2>3, <3>5
  <2>5. Cardinality({v, w}) <= Cardinality(nodes) /\ Cardinality(nodes) \in Nat
    BY <1>6, <2>4, FS_Subset, FS_CardinalityType
  <2> QED  BY <2>4, <2>5
<1>11. ASSUME ~Crossed(nodes, edges)
       PROVE  Severed(raw, contacts, net)
  <2>1. PICK part \in (SUBSET nodes) \ {{}, nodes} :
            ~\E v \in part : \E w \in nodes \ part : {v, w} \in edges
    BY <1>11 DEF Crossed
  <2> DEFINE half == {order[k] : k \in part}
  <2>2. \A k \in nodes : k \in 1..m /\ (order[k] \in half <=> k \in part)
    <3>1. part \subseteq nodes
      OBVIOUS
    <3> HIDE DEF nodes
    <3> QED  BY <1>2, <1>6, <3>1
  <2>3. half \in (SUBSET own) \ {{}, own}
    <3>1. half \subseteq own
      BY <1>5, <2>2
    <3>2. half # {}
      <4>1. part # {}
        OBVIOUS
      <4> QED  BY ONLY <4>1
    <3>3. PICK w \in nodes : w \notin part
      OBVIOUS
    <3>4. order[w] \in own /\ order[w] \notin half
      BY <1>5, <2>2, <3>3
    <3> QED  BY <3>1, <3>2, <3>4
  <2>4. ASSUME NEW g \in half, NEW h \in own \ half, Joins(contacts, Island(raw, g), Island(raw, h))
        PROVE  FALSE
    <3>1. PICK v \in part : order[v] = g
      OBVIOUS
    <3>2. PICK w \in nodes : order[w] = h
      BY <1>7
    <3>3. v \in nodes /\ w \notin part /\ v \in 1..m /\ w \in 1..m
      BY <2>2, <2>4, <3>1, <3>2
    <3>4. islands[v].net = net /\ islands[w].net = net
      BY <3>2, <3>3
    <3>5. Joins(contacts, islands[v], islands[w])
      BY <1>3, <2>4, <3>1, <3>2, <3>3
    <3>6. ASSUME NEW e \in Edges(islands, contacts), e \subseteq nodes, NEW x \in e, NEW y \in e, x \in part
          PROVE  y \in part
      <4>1. x \in nodes /\ y \in nodes
        BY <3>6
      <4>2. CASE x = y
        BY <3>6, <4>2
      <4>3. CASE x # y
        <5>1. {x, y} = e
          <6>1. e \in Edges(islands, contacts) /\ x \in e /\ y \in e /\ x # y
            BY <3>6, <4>3
          <6> QED  BY ONLY <6>1, EdgeIsPair
        <5>2. {x, y} \in edges
          BY <3>6, <5>1
        <5> QED  BY <2>1, <3>6, <4>1, <5>2
      <4> QED  BY <4>2, <4>3
    <3>7. \A e \in Edges(islands, contacts) : e \subseteq nodes => \A x, y \in e : x \in part <=> y \in part
      BY <3>6
    <3>8. v \in part <=> w \in part
      <4>1. v \in DOMAIN islands /\ w \in DOMAIN islands
        BY <1>3, <3>3
      <4> QED  BY ONLY <1>4, <3>4, <3>5, <3>7, <4>1, JoinedHold
    <3> QED  BY <3>3, <3>8
  <2> QED  BY <2>3, <2>4 DEF Severed
<1>12. ASSUME Severed(raw, contacts, net)
       PROVE  ~Crossed(nodes, edges)
  <2>1. PICK half \in (SUBSET own) \ {{}, own} :
            \A g \in half : \A h \in own \ half : ~Joins(contacts, Island(raw, g), Island(raw, h))
    BY <1>12 DEF Severed
  <2> DEFINE part == {k \in nodes : order[k] \in half}
  <2>2. part \in (SUBSET nodes) \ {{}, nodes}
    <3>1. PICK g \in half, h \in own : h \notin half
      OBVIOUS
    <3>2. PICK v \in nodes, w \in nodes : order[v] = g /\ order[w] = h
      <4>1. g \in own /\ h \in own
        OBVIOUS
      <4> QED  BY <1>7, <4>1
    <3>3. v \in part /\ w \in nodes /\ w \notin part
      BY <3>1, <3>2
    <3> QED  BY <3>3
  <2>3. ASSUME NEW v \in part, NEW w \in nodes \ part, {v, w} \in edges
        PROVE  FALSE
    <3>1. Joins(contacts, islands[v], islands[w])
      BY <2>3, EdgeJoins
    <3>2. v \in 1..m /\ w \in 1..m /\ order[v] \in half /\ order[w] \in own \ half
      BY <1>5, <1>6
    <3> QED  BY <1>3, <2>1, <3>1, <3>2
  <2> HIDE DEF part, nodes, edges
  <2>4. ~\E v \in part : \E w \in nodes \ part : {v, w} \in edges
    BY ONLY <2>3
  <2> QED  BY <2>2, <2>4 DEF Crossed
<1> QED  BY <1>9, <1>10, <1>11, <1>12

-----------------------------------------------------------------------------
(* The pieces of a space: each a box of integers, as its metal is. *)

LEMMA FlatList ==
    ASSUME NEW seqs, IsList(seqs), \A i \in DOMAIN seqs : IsList(seqs[i])
    PROVE  /\ IsList(Flat(seqs))
           /\ \A x : x \in Range(Flat(seqs)) <=> \E i \in DOMAIN seqs : x \in Range(seqs[i])
<1> DEFINE T == UNION {Range(seqs[i]) : i \in DOMAIN seqs}
<1>1. ASSUME NEW i \in DOMAIN seqs PROVE seqs[i] \in Seq(T)
  <2>1. seqs[i] \in Seq(Range(seqs[i])) /\ Range(seqs[i]) \subseteq T
    BY DEF IsList
  <2> HIDE DEF T
  <2> QED  BY <2>1
<1> HIDE DEF T
<1>2. /\ Flat(seqs) \in Seq(T)
      /\ \A x : x \in Range(Flat(seqs)) <=> \E i \in DOMAIN seqs : x \in Range(seqs[i])
  BY <1>1, FlatRange
<1> QED  BY <1>2, ListOf

LEMMA JoinedList ==
    ASSUME NEW s, NEW t, IsList(s), IsList(t)
    PROVE  IsList(s \o t) /\ Range(s \o t) = Range(s) \cup Range(t)
<1> DEFINE T == Range(s) \cup Range(t)
<1>1. s \in Seq(T) /\ t \in Seq(T)
  <2>1. s \in Seq(Range(s)) /\ t \in Seq(Range(t)) /\ Range(s) \subseteq T /\ Range(t) \subseteq T
    BY DEF IsList
  <2> HIDE DEF T
  <2> QED  BY <2>1
<1> HIDE DEF T
<1>2. s \o t \in Seq(T) /\ Range(s \o t) = Range(s) \cup Range(t)
  BY <1>1, Joined
<1> QED  BY <1>2, ListOf

LEMMA ShortLists ==
    ASSUME NEW x
    PROVE  IsList(<<>>) /\ Range(<<>>) = {} /\ IsList(<<x>>) /\ Range(<<x>>) = {x}
<1>1. Range(<<>>) = {} /\ Range(<<x>>) = {x}
  BY DEF Range
<1> QED  BY <1>1 DEF IsList

Boxed(s) == IsList(s) /\ \A x \in Range(s) : IsBox(x.box)

LEMMA MapBoxed ==
    ASSUME NEW s, IsList(s), NEW t, t = [i \in DOMAIN s |-> t[i]],
           \A i \in DOMAIN s : IsBox(t[i].box)
    PROVE  Boxed(t)
<1>1. IsList(t)
  BY SameLength
<1>2. \A x \in Range(t) : \E i \in DOMAIN s : x = t[i]
  BY DEF Range
<1> QED  BY <1>1, <1>2 DEF Boxed

LEMMA FlatBoxed ==
    ASSUME NEW s, IsList(s), NEW t, t = [i \in DOMAIN s |-> t[i]], \A i \in DOMAIN s : Boxed(t[i])
    PROVE  Boxed(Flat(t))
<1>1. IsList(t) /\ DOMAIN t = DOMAIN s
  BY SameLength
<1> QED  BY <1>1, FlatList DEF Boxed

LEMMA JoinedBoxed ==
    ASSUME NEW s, NEW t, Boxed(s), Boxed(t)
    PROVE  Boxed(s \o t)
  BY JoinedList DEF Boxed

LEMMA GrownIsBox ==
    ASSUME NEW b, IsBox(b), NEW e \in Int
    PROVE  IsBox(Grown(b, e))
<1>1. \A d \in {1, 2, 3} : b.lo[d] \in Int /\ b.hi[d] \in Int
  BY DEF IsBox, Axes
<1>2. /\ Grown(b, e).lo[1] = b.lo[1] - e /\ Grown(b, e).lo[2] = b.lo[2] - e /\ Grown(b, e).lo[3] = b.lo[3]
      /\ Grown(b, e).hi[1] = b.hi[1] + e /\ Grown(b, e).hi[2] = b.hi[2] + e /\ Grown(b, e).hi[3] = b.hi[3]
  BY DEF Grown
<1>3. \A d \in Axes : d \in {1, 2, 3}
  BY DEF Axes
<1> QED  BY <1>1, <1>2, <1>3 DEF IsBox

LEMMA PairExtremes ==
    ASSUME NEW a \in Int, NEW b \in Int
    PROVE  Min({a, b}) \in Int /\ Max({a, b}) \in Int
<1>1. \E x \in {a, b} : \A y \in {a, b} : x <= y
  OBVIOUS
<1>2. \E x \in {a, b} : \A y \in {a, b} : x >= y
  OBVIOUS
<1> QED  BY <1>1, <1>2 DEF Min, Max

LEMMA SegmentIsBox ==
    ASSUME NEW trace, NEW s, trace.z[1] \in Int, trace.z[2] \in Int, trace.half \in Int,
           \A p \in {s[1], s[2]} : p[1] \in Int /\ p[2] \in Int
    PROVE  IsBox(SegmentBox(trace, s))
<1> DEFINE B(p) == [lo |-> <<p[1], p[2], trace.z[1]>>, hi |-> <<p[1], p[2], trace.z[2]>>]
           boxes == {B(p) : p \in {s[1], s[2]}}
           lo(d) == {b.lo[d] : b \in boxes}
           hi(d) == {b.hi[d] : b \in boxes}
<1>1. IsBox(B(s[1])) /\ IsBox(B(s[2]))
  <2>1. ASSUME NEW p \in {s[1], s[2]} PROVE IsBox(B(p))
    <3>1. \A d \in Axes : d \in {1, 2, 3}
      BY DEF Axes
    <3>2. /\ B(p).lo[1] \in Int /\ B(p).lo[2] \in Int /\ B(p).lo[3] \in Int
          /\ B(p).hi[1] \in Int /\ B(p).hi[2] \in Int /\ B(p).hi[3] \in Int
      OBVIOUS
    <3> HIDE DEF B
    <3> QED  BY <3>1, <3>2 DEF IsBox
  <2> HIDE DEF B
  <2> QED  BY <2>1
<1>2. boxes = {B(s[1]), B(s[2])}
  OBVIOUS
<1> HIDE DEF B
<1>3. \A d \in Axes : lo(d) = {B(s[1]).lo[d], B(s[2]).lo[d]} /\ hi(d) = {B(s[1]).hi[d], B(s[2]).hi[d]}
  BY <1>2
<1>4. \A d \in Axes : Min(lo(d)) \in Int /\ Max(hi(d)) \in Int
  <2> HIDE DEF lo, hi, boxes
  <2> QED  BY <1>1, <1>3, PairExtremes DEF IsBox
<1>5. IsBox(Hull(boxes))
  <2>1. \A d \in Axes : Hull(boxes).lo[d] = Min(lo(d)) /\ Hull(boxes).hi[d] = Max(hi(d))
    <3> HIDE DEF boxes
    <3> QED  BY DEF Hull
  <2> HIDE DEF lo, hi, boxes
  <2> QED  BY <1>4, <2>1 DEF IsBox
<1>6. SegmentBox(trace, s) = Grown(Hull(boxes), trace.half)
  BY DEF SegmentBox, B
<1> HIDE DEF boxes
<1> QED  BY <1>5, <1>6, GrownIsBox

LEMMA PieceIs ==
    ASSUME NEW net, NEW material, NEW box, NEW kind, NEW device
    PROVE  LET p == Piece(net, material, box, kind, device) IN
           /\ p.net = net /\ p.material = material /\ p.box = box /\ p.kind = kind
           /\ p.device = device
  BY DEF Piece

(* What a space is made of, without the tests. *)
LEMMA MetalIs ==
    ASSUME NEW space, IsMetal(space)
    PROVE  /\ IsList(space.pours) /\ IsList(space.contacts) /\ IsList(space.traces) /\ IsList(space.vias)
           /\ \A i \in DOMAIN space.pours : IsList(space.pours[i].regions)
           /\ \A i \in DOMAIN space.pours : \A k \in DOMAIN space.pours[i].regions :
                 IsBox(space.pours[i].regions[k])
           /\ \A i \in DOMAIN space.contacts : IsBox(space.contacts[i].box)
           /\ \A i \in DOMAIN space.traces :
                 /\ space.traces[i].z[1] \in Int /\ space.traces[i].z[2] \in Int
                 /\ space.traces[i].half \in Int /\ IsList(space.traces[i].segments)
           /\ \A i \in DOMAIN space.traces : \A k \in DOMAIN space.traces[i].segments :
                 \A p \in {space.traces[i].segments[k][1], space.traces[i].segments[k][2]} :
                    p[1] \in Int /\ p[2] \in Int
           /\ \A i \in DOMAIN space.vias :
                 /\ space.vias[i].at[1] \in Int /\ space.vias[i].at[2] \in Int
                 /\ space.vias[i].z[1] \in Int /\ space.vias[i].z[2] \in Int
                 /\ space.vias[i].radius \in Int
  BY DEF IsMetal, Listed

LEMMA PourBoxed ==
    ASSUME NEW pour, IsList(pour.regions), \A k \in DOMAIN pour.regions : IsBox(pour.regions[k])
    PROVE  Boxed(PourPieces(pour))
<1> DEFINE e == IF pour.kind = "contact" THEN Enclosure ELSE 0
           t == [i \in DOMAIN pour.regions |->
                   Piece(pour.net, pour.material, Grown(pour.regions[i], e), pour.kind, pour.device)]
<1>1. e \in Int
  BY EnclosureTyped
<1>2. PourPieces(pour) = IF pour.mask THEN <<>> ELSE t
  BY DEF PourPieces
<1> HIDE DEF e
<1>3. \A i \in DOMAIN pour.regions : IsBox(t[i].box)
  BY <1>1, GrownIsBox, PieceIs
<1>4. t = [i \in DOMAIN pour.regions |-> t[i]]
  OBVIOUS
<1> HIDE DEF t
<1>5. Boxed(t)
  BY <1>3, <1>4, MapBoxed
<1>6. Boxed(<<>>)
  BY ShortLists DEF Boxed
<1> QED  BY <1>2, <1>5, <1>6

LEMMA SegmentsBoxed ==
    ASSUME NEW trace, NEW vertical, IsList(trace.segments),
           trace.z[1] \in Int, trace.z[2] \in Int, trace.half \in Int,
           \A k \in DOMAIN trace.segments :
               \A p \in {trace.segments[k][1], trace.segments[k][2]} : p[1] \in Int /\ p[2] \in Int
    PROVE  Boxed(SegmentPieces(trace, vertical))
<1> DEFINE P(s) == Piece(trace.net, trace.material, SegmentBox(trace, s),
                         IF vertical THEN "contact" ELSE "pour", None)
           t == [i \in DOMAIN trace.segments |->
                   IF (trace.segments[i][1] = trace.segments[i][2]) = vertical
                   THEN <<P(trace.segments[i])>> ELSE <<>>]
<1>1. SegmentPieces(trace, vertical) = Flat(t)
  BY DEF SegmentPieces
<1>2. ASSUME NEW i \in DOMAIN trace.segments
      PROVE  Boxed(t[i])
  <2> DEFINE p == P(trace.segments[i])
  <2>1. IsBox(p.box)
    BY SegmentIsBox, PieceIs
  <2>2. t[i] = <<p>> \/ t[i] = <<>>
    OBVIOUS
  <2> HIDE DEF p, t
  <2>3. Boxed(<<p>>) /\ Boxed(<<>>)
    BY <2>1, ShortLists DEF Boxed
  <2> QED  BY <2>2, <2>3
<1>3. t = [i \in DOMAIN trace.segments |-> t[i]]
  OBVIOUS
<1> HIDE DEF t
<1> QED  BY <1>1, <1>2, <1>3, FlatBoxed

LEMMA PiecesKnown ==
    ASSUME NEW space, IsMetal(space)
    PROVE  /\ Boxed(Pieces(space))
           /\ \A c \in Range(space.contacts) : ContactPiece(c) \in Range(Pieces(space))
<1> DEFINE pours == [i \in DOMAIN space.pours |-> PourPieces(space.pours[i])]
           contacts == [i \in DOMAIN space.contacts |-> ContactPiece(space.contacts[i])]
           verticals == [i \in DOMAIN space.traces |-> SegmentPieces(space.traces[i], TRUE)]
           vias == [i \in DOMAIN space.vias |-> ViaPiece(space.vias[i])]
           levels == [i \in DOMAIN space.traces |-> SegmentPieces(space.traces[i], FALSE)]
<1>1. Pieces(space) = Flat(pours) \o contacts \o Flat(verticals) \o vias \o Flat(levels)
  BY DEF Pieces
<1>2. /\ IsList(space.pours) /\ IsList(space.contacts) /\ IsList(space.traces) /\ IsList(space.vias)
      /\ \A i \in DOMAIN space.pours : IsList(space.pours[i].regions)
  BY MetalIs
<1>3. Boxed(Flat(pours))
  <2>1. \A i \in DOMAIN space.pours : Boxed(PourPieces(space.pours[i]))
    BY <1>2, MetalIs, PourBoxed
  <2>2. pours = [i \in DOMAIN space.pours |-> pours[i]] /\ \A i \in DOMAIN space.pours : Boxed(pours[i])
    BY <2>1
  <2> HIDE DEF pours
  <2> QED  BY <1>2, <2>2, FlatBoxed
<1>4. Boxed(contacts)
  <2>1. \A i \in DOMAIN space.contacts : IsBox(ContactPiece(space.contacts[i]).box)
    <3> TAKE i \in DOMAIN space.contacts
    <3> DEFINE c == space.contacts[i]
    <3>1. IsBox(c.box)
      BY MetalIs
    <3> HIDE DEF c
    <3>2. IsBox(Grown(c.box, Enclosure))
      BY <3>1, GrownIsBox, EnclosureTyped
    <3>3. ContactPiece(c).box = Grown(c.box, Enclosure)
      BY PieceIs DEF ContactPiece
    <3> QED  BY <3>2, <3>3 DEF c
  <2>2. contacts = [i \in DOMAIN space.contacts |-> contacts[i]]
        /\ \A i \in DOMAIN space.contacts : IsBox(contacts[i].box)
    BY <2>1
  <2> HIDE DEF contacts
  <2> QED  BY <1>2, <2>2, MapBoxed
<1>5. ASSUME NEW vertical \in BOOLEAN
      PROVE  Boxed(Flat([i \in DOMAIN space.traces |-> SegmentPieces(space.traces[i], vertical)]))
  <2> DEFINE t == [i \in DOMAIN space.traces |-> SegmentPieces(space.traces[i], vertical)]
  <2>1. \A i \in DOMAIN space.traces : Boxed(SegmentPieces(space.traces[i], vertical))
    <3> TAKE i \in DOMAIN space.traces
    <3>1. /\ space.traces[i].z[1] \in Int /\ space.traces[i].z[2] \in Int
          /\ space.traces[i].half \in Int /\ IsList(space.traces[i].segments)
      BY MetalIs
    <3>2. \A k \in DOMAIN space.traces[i].segments :
             \A p \in {space.traces[i].segments[k][1], space.traces[i].segments[k][2]} :
                p[1] \in Int /\ p[2] \in Int
      BY MetalIs
    <3> QED  BY ONLY <3>1, <3>2, SegmentsBoxed
  <2>2. t = [i \in DOMAIN space.traces |-> t[i]] /\ \A i \in DOMAIN space.traces : Boxed(t[i])
    BY <2>1
  <2> HIDE DEF t
  <2>3. Boxed(Flat(t))
    BY <1>2, <2>2, FlatBoxed
  <2> QED  BY <2>3 DEF t
<1>6. Boxed(vias)
  <2>1. \A i \in DOMAIN space.vias : IsBox(ViaPiece(space.vias[i]).box)
    <3> TAKE i \in DOMAIN space.vias
    <3> DEFINE via == space.vias[i]
               b == [lo |-> <<via.at[1], via.at[2], via.z[1]>>, hi |-> <<via.at[1], via.at[2], via.z[2]>>]
    <3>1. /\ via.at[1] \in Int /\ via.at[2] \in Int /\ via.z[1] \in Int /\ via.z[2] \in Int
          /\ via.radius \in Int
      BY MetalIs
    <3> HIDE DEF via
    <3>2. /\ b.lo[1] \in Int /\ b.lo[2] \in Int /\ b.lo[3] \in Int
          /\ b.hi[1] \in Int /\ b.hi[2] \in Int /\ b.hi[3] \in Int
      BY <3>1
    <3>3. ViaPiece(via).box = Grown(b, via.radius + Enclosure)
      BY PieceIs DEF ViaPiece
    <3> HIDE DEF b
    <3>4. IsBox(b)
      <4>1. \A d \in Axes : d \in {1, 2, 3}
        BY DEF Axes
      <4> QED  BY <3>2, <4>1 DEF IsBox
    <3>5. via.radius + Enclosure \in Int
      BY <3>1, EnclosureTyped
    <3> QED  BY <3>3, <3>4, <3>5, GrownIsBox DEF via
  <2>2. vias = [i \in DOMAIN space.vias |-> vias[i]] /\ \A i \in DOMAIN space.vias : IsBox(vias[i].box)
    BY <2>1
  <2> HIDE DEF vias
  <2> QED  BY <1>2, <2>2, MapBoxed
<1>7. Boxed(Flat(verticals)) /\ Boxed(Flat(levels))
  BY <1>5
<1>8. \A c \in Range(space.contacts) : ContactPiece(c) \in Range(contacts)
  BY DEF Range
<1> HIDE DEF pours, contacts, verticals, vias, levels
<1> DEFINE a == Flat(pours) \o contacts
           b == a \o Flat(verticals)
           c == b \o vias
<1>9. Boxed(a) /\ Range(contacts) \subseteq Range(a)
  BY <1>3, <1>4, JoinedBoxed, JoinedList DEF Boxed
<1> HIDE DEF a
<1>10. Boxed(b) /\ Range(a) \subseteq Range(b)
  BY <1>7, <1>9, JoinedBoxed, JoinedList DEF Boxed
<1> HIDE DEF b
<1>11. Boxed(c) /\ Range(b) \subseteq Range(c)
  BY <1>6, <1>10, JoinedBoxed, JoinedList DEF Boxed
<1> HIDE DEF c
<1>12. Boxed(c \o Flat(levels)) /\ Range(c) \subseteq Range(c \o Flat(levels))
  BY <1>7, <1>11, JoinedBoxed, JoinedList DEF Boxed
<1>13. Pieces(space) = c \o Flat(levels)
  BY <1>1 DEF a, b, c
<1> QED  BY <1>8, <1>9, <1>10, <1>11, <1>12, <1>13

(* The pieces the islands are made of: those of a net and a conductive material. *)
LEMMA RawKnown ==
    ASSUME NEW space, IsMetal(space)
    PROVE  /\ PieceList(RawIslands(space))
           /\ \A p : p \in Range(RawIslands(space))
                 <=> p \in Range(Pieces(space)) /\ p.net # None /\ p.material \in Conductive
<1> DEFINE pieces == Pieces(space)
           Is(p) == p.net # None /\ p.material \in Conductive
           t == [i \in DOMAIN pieces |-> IF Is(pieces[i]) THEN <<pieces[i]>> ELSE <<>>]
<1>1. RawIslands(space) = Flat(t)
  BY DEF RawIslands
<1>2. Boxed(pieces)
  BY PiecesKnown
<1> HIDE DEF pieces, Is
<1>3. t = [i \in DOMAIN pieces |-> t[i]] /\ DOMAIN t = DOMAIN pieces
      /\ \A i \in DOMAIN pieces : t[i] = IF Is(pieces[i]) THEN <<pieces[i]>> ELSE <<>>
  OBVIOUS
<1> HIDE DEF t
<1>4. \A i \in DOMAIN pieces : IsList(t[i]) /\ Range(t[i]) = IF Is(pieces[i]) THEN {pieces[i]} ELSE {}
  BY <1>3, ShortLists
<1>5. IsList(t)
  BY <1>2, <1>3, SameLength DEF Boxed
<1>6. /\ IsList(Flat(t))
      /\ \A x : x \in Range(Flat(t)) <=> \E i \in DOMAIN t : x \in Range(t[i])
  BY <1>3, <1>4, <1>5, FlatList
<1>7. \A p : p \in Range(Flat(t)) <=> p \in Range(pieces) /\ Is(p)
  <2>1. \A p : p \in Range(pieces) <=> \E i \in DOMAIN pieces : p = pieces[i]
    BY DEF Range
  <2>2. \A i \in DOMAIN pieces : \A p : p \in Range(t[i]) <=> p = pieces[i] /\ Is(p)
    <3> TAKE i \in DOMAIN pieces
    <3>1. Range(t[i]) = IF Is(pieces[i]) THEN {pieces[i]} ELSE {}
      BY <1>4
    <3> QED  BY <3>1
  <2>3. \A p : p \in Range(Flat(t)) <=> \E i \in DOMAIN pieces : p \in Range(t[i])
    BY <1>3, <1>6
  <2> QED  BY ONLY <2>1, <2>2, <2>3
<1>8. PieceList(Flat(t))
  <2>1. \A i \in DOMAIN Flat(t) : Flat(t)[i] \in Range(Flat(t))
    BY DEF Range
  <2>2. \A i \in DOMAIN Flat(t) : IsBox(Flat(t)[i].box)
    BY <1>2, <1>7, <2>1 DEF Boxed
  <2> QED  BY <1>6, <2>2 DEF PieceList
<1> QED  BY <1>1, <1>7, <1>8 DEF pieces, Is

-----------------------------------------------------------------------------
(* The verdict on a space. *)

Contacts(space) == {p \in Placements(space) : p.net # None}

(* The nets that fail are those whose groups are severed. *)
LEMMA FailingAre ==
    ASSUME NEW space, IsMetal(space), NEW islands \in IslandOrders(RawIslands(space)), NEW net
    PROVE  net \in FailingNets(space, islands)
           <=> /\ OfNet(RawIslands(space), net) # {}
               /\ Severed(RawIslands(space), Contacts(space), net)
<1> DEFINE raw == RawIslands(space)
<1>1. PieceList(raw)
  BY RawKnown
<1>2. PICK order \in Bijection(1..Cardinality(Groups(raw)), Groups(raw)) :
          islands = [k \in DOMAIN order |-> Island(raw, order[k])]
  BY DEF IslandOrders
<1>3. net \in FailingNets(space, islands)
      <=> net \in {islands[k].net : k \in DOMAIN islands} /\ NetFails(islands, Edges(islands, Contacts(space)), net)
  BY DEF FailingNets, Edges, Contacts
<1> HIDE DEF raw
<1>4. net \in {islands[k].net : k \in DOMAIN islands} <=> OfNet(raw, net) # {}
  <2>1. /\ order \in [1..Cardinality(Groups(raw)) -> Groups(raw)]
        /\ \A g \in Groups(raw) : \E k \in 1..Cardinality(Groups(raw)) : order[k] = g
    BY DEF Bijection, Injection, Surjection
  <2>2. DOMAIN islands = 1..Cardinality(Groups(raw))
        /\ \A k \in DOMAIN islands : islands[k] = Island(raw, order[k]) /\ order[k] \in Groups(raw)
    BY <1>2, <2>1
  <2>3. ASSUME NEW k \in DOMAIN islands, net = islands[k].net
        PROVE  order[k] \in OfNet(raw, net)
    BY <2>2, <2>3 DEF OfNet
  <2>4. ASSUME NEW g \in OfNet(raw, net)
        PROVE  \E k \in DOMAIN islands : net = islands[k].net
    <3>1. PICK k \in DOMAIN islands : order[k] = g
      BY <2>1, <2>2 DEF OfNet
    <3> QED  BY <2>2, <3>1 DEF OfNet
  <2> QED  BY <2>3, <2>4
<1>5. OfNet(raw, net) # {}
      => (NetFails(islands, Edges(islands, Contacts(space)), net) <=> Severed(raw, Contacts(space), net))
  <2> SUFFICES ASSUME OfNet(raw, net) # {}
               PROVE  NetFails(islands, Edges(islands, Contacts(space)), net)
                      <=> Severed(raw, Contacts(space), net)
    OBVIOUS
  <2> QED  BY <1>1, <1>2, NetVerdict
<1> QED  BY <1>3, <1>4, <1>5 DEF raw

(* Whatever order the hash map gives. *)
LEMMA OneVerdict ==
    ASSUME NEW space, IsMetal(space), NEW islands \in IslandOrders(RawIslands(space)),
           NEW others \in IslandOrders(RawIslands(space))
    PROVE  FailingNets(space, islands) = FailingNets(space, others)
<1> DEFINE Nets(x) == {x[k].net : k \in DOMAIN x}
           Fails(x, net) == NetFails(x, Edges(x, Contacts(space)), net)
<1>1. /\ FailingNets(space, islands) = {net \in Nets(islands) : Fails(islands, net)}
      /\ FailingNets(space, others) = {net \in Nets(others) : Fails(others, net)}
  BY DEF FailingNets, Edges, Contacts
<1>2. \A net : net \in FailingNets(space, islands) <=> net \in FailingNets(space, others)
  BY FailingAre
<1> HIDE DEF Nets, Fails
<1> QED  BY <1>1, <1>2

-----------------------------------------------------------------------------
(* The verdict is right: what it says of the boxes around the islands, said of the
   pieces. *)

LEMMA PieceBox ==
    ASSUME NEW raw, PieceList(raw), NEW g \in Groups(raw), NEW i \in g, NEW b, IsBox(b),
           Touch(raw[i].box, b)
    PROVE  Touch(Island(raw, g).box, b)
<1>1. g \in SUBSET DOMAIN raw /\ g # {} /\ IsBox(raw[i].box)
  BY GroupsKnown DEF GroupsAre, PieceList
<1>2. /\ Island(raw, g).box = HullOf(raw, g) /\ IsBox(HullOf(raw, g))
      /\ \A d \in Axes : /\ HullOf(raw, g).lo[d] <= raw[i].box.lo[d]
                         /\ HullOf(raw, g).hi[d] >= raw[i].box.hi[d]
  BY <1>1, HullIsBox, IslandIs
<1> QED  BY <1>1, <1>2, TouchGrows

LEMMA PlacementBox ==
    ASSUME NEW space, IsMetal(space), NEW c \in Placements(space)
    PROVE  IsBox(c.box)
<1> DEFINE pieces == Pieces(space)
<1>1. Placements(space) = {[net |-> p.net, box |-> p.box] : p \in {q \in Range(pieces) : q.kind = "contact"}}
          \cup {[net |-> d.net, box |-> d.box] :
                  d \in {x \in Range(space.contacts) : x.material \in Conductive}}
  BY DEF Placements
<1> HIDE DEF pieces
<1>2. CASE \E p \in Range(pieces) : c.box = p.box
  BY <1>2, PiecesKnown DEF Boxed, pieces
<1>3. CASE \E d \in Range(space.contacts) : c.box = d.box
  <2>1. PICK i \in DOMAIN space.contacts : c.box = space.contacts[i].box
    BY <1>3 DEF Range
  <2> QED  BY <2>1, MetalIs
<1> QED  BY <1>1, <1>2, <1>3

(* A net that fails is parted: the pieces of its severed groups. *)
LEMMA AlarmIsTrue ==
    ASSUME NEW space, IsMetal(space), NEW islands \in IslandOrders(RawIslands(space)),
           NEW net \in FailingNets(space, islands)
    PROVE  ~ContinuousByRule(space, net)
<1> DEFINE raw == RawIslands(space)
           D == DOMAIN raw
           own == {i \in D : raw[i].net = net}
<1>1. PieceList(raw) /\ GroupsAre(raw)
  BY RawKnown, GroupsKnown
<1>2. PICK half \in (SUBSET OfNet(raw, net)) \ {{}, OfNet(raw, net)} :
          \A g \in half : \A h \in OfNet(raw, net) \ half :
              ~Joins(Contacts(space), Island(raw, g), Island(raw, h))
  BY FailingAre DEF Severed
<1>3. \A i \in D : raw[i] \in Range(raw) /\ raw[i].net # None
  BY RawKnown DEF Range
<1> HIDE DEF raw
<1>4. \A g \in Groups(raw) : g # {} /\ \A i \in g : i \in D /\ raw[i].net = Island(raw, g).net
  BY <1>1, IslandIs DEF GroupsAre
<1> DEFINE part == UNION half
<1>5. \A g \in OfNet(raw, net) : \A i \in g : i \in own
  BY <1>4 DEF OfNet
<1>6. \A i \in own : \E g \in OfNet(raw, net) : i \in g
  BY <1>1, <1>4 DEF GroupsAre, OfNet
<1>7. \A g, h \in OfNet(raw, net) : \A i \in g : i \in h => g = h
  BY <1>1 DEF GroupsAre, OfNet
<1>8. part \in (SUBSET own) \ {{}, own}
  <2>1. part \subseteq own
    BY <1>5
  <2>2. PICK g \in half, h \in OfNet(raw, net) : h \notin half
    OBVIOUS
  <2>3. PICK i \in g, j \in h : TRUE
    BY <1>4, <2>2 DEF OfNet
  <2>4. j \notin part
    BY <1>7, <2>2, <2>3
  <2>5. i \in part /\ j \in own
    BY <1>5, <2>2, <2>3
  <2> QED  BY <2>1, <2>4, <2>5
<1>9. ASSUME NEW i \in part, NEW j \in own \ part, Weldable(raw[i], raw[j])
      PROVE  FALSE
  <2>1. PICK g \in half : i \in g
    OBVIOUS
  <2>2. j \in g
    BY <1>1, <1>9, <2>1 DEF GroupsAre, OfNet
  <2> QED  BY <1>9, <2>1, <2>2
<1>10. ASSUME NEW i \in part, NEW j \in own \ part, NEW c \in Placements(space), c.net = net,
              Touch(raw[i].box, c.box), Touch(raw[j].box, c.box)
       PROVE  FALSE
  <2>1. PICK g \in half : i \in g
    OBVIOUS
  <2>2. PICK h \in OfNet(raw, net) : j \in h
    BY <1>6
  <2>3. h \notin half
    BY <1>10, <2>2
  <2>4. g \in OfNet(raw, net) /\ g \in Groups(raw) /\ h \in Groups(raw)
        /\ Island(raw, g).net = net /\ Island(raw, h).net = net
    BY DEF OfNet
  <2>5. IsBox(c.box)
    BY PlacementBox
  <2>6. Touch(Island(raw, g).box, c.box) /\ Touch(Island(raw, h).box, c.box)
    BY <1>1, <1>10, <2>1, <2>2, <2>4, <2>5, PieceBox
  <2>7. c \in Contacts(space)
    BY <1>3, <1>10 DEF Contacts
  <2> QED  BY <1>2, <1>10, <2>3, <2>4, <2>6, <2>7 DEF Joins
<1> SUFFICES ASSUME ContinuousByRule(space, net)
             PROVE  FALSE
  OBVIOUS
<1>11. \A p \in (SUBSET own) \ {{}, own} :
           \E i \in p : \E j \in own \ p :
               \/ Weldable(raw[i], raw[j])
               \/ \E c \in Placements(space) :
                     c.net = net /\ Touch(raw[i].box, c.box) /\ Touch(raw[j].box, c.box)
  BY DEF ContinuousByRule, Linked, raw
<1>12. PICK i \in part, j \in own \ part :
               \/ Weldable(raw[i], raw[j])
               \/ \E c \in Placements(space) :
                     c.net = net /\ Touch(raw[i].box, c.box) /\ Touch(raw[j].box, c.box)
  <2> HIDE DEF part, own
  <2> QED  BY <1>8, <1>11
<1> HIDE DEF part, own
<1> QED  BY <1>9, <1>10, <1>12

(* A box that is grown touches what it touched. *)
LEMMA TouchGrown ==
    ASSUME NEW a, NEW b, IsBox(a), IsBox(b), NEW e \in Nat, Touch(a, b)
    PROVE  Touch(a, Grown(b, e))
<1>1. \A d \in Axes : d \in {1, 2, 3}
  BY DEF Axes
<1>2. \A d \in {1, 2, 3} : /\ a.lo[d] \in Int /\ a.hi[d] \in Int /\ b.lo[d] \in Int /\ b.hi[d] \in Int
                           /\ a.lo[d] <= b.hi[d] /\ a.hi[d] >= b.lo[d]
  BY DEF IsBox, Axes, Touch
<1>3. /\ Grown(b, e).lo[1] = b.lo[1] - e /\ Grown(b, e).lo[2] = b.lo[2] - e /\ Grown(b, e).lo[3] = b.lo[3]
      /\ Grown(b, e).hi[1] = b.hi[1] + e /\ Grown(b, e).hi[2] = b.hi[2] + e /\ Grown(b, e).hi[3] = b.hi[3]
  BY DEF Grown
<1>4. \A d \in {1, 2, 3} : a.lo[d] <= Grown(b, e).hi[d] /\ a.hi[d] >= Grown(b, e).lo[d]
  BY <1>2, <1>3
<1> QED  BY <1>1, <1>4 DEF Touch

(* A contact that conducts is a piece too: what it touches, touches that piece. *)
LEMMA ContactIsPiece ==
    ASSUME NEW space, IsMetal(space), ContactsConduct(space), Enclosure >= 0,
           NEW c \in Placements(space), c.net # None
    PROVE  \E k \in DOMAIN RawIslands(space) :
              /\ RawIslands(space)[k].net = c.net
              /\ \A b : IsBox(b) /\ Touch(b, c.box) => Touch(b, RawIslands(space)[k].box)
<1> DEFINE raw == RawIslands(space)
           pieces == Pieces(space)
<1>1. \A p \in Range(pieces) : p.kind = "contact" => p.material \in Conductive
  BY DEF ContactsConduct
<1>2. \A p \in Range(raw) : \E k \in DOMAIN raw : raw[k] = p
  BY DEF Range
<1>3. \A p : p \in Range(pieces) /\ p.net # None /\ p.material \in Conductive => p \in Range(raw)
  BY RawKnown
<1>4. Placements(space) = {[net |-> p.net, box |-> p.box] : p \in {q \in Range(pieces) : q.kind = "contact"}}
          \cup {[net |-> d.net, box |-> d.box] :
                  d \in {x \in Range(space.contacts) : x.material \in Conductive}}
  BY DEF Placements
<1> HIDE DEF raw, pieces
<1>5. CASE \E p \in Range(pieces) : p.kind = "contact" /\ c = [net |-> p.net, box |-> p.box]
  <2>1. PICK p \in Range(pieces) : p.kind = "contact" /\ c = [net |-> p.net, box |-> p.box]
    BY <1>5
  <2>2. c.net = p.net /\ c.box = p.box /\ p \in Range(raw)
    BY <1>1, <1>3, <2>1
  <2>3. PICK k \in DOMAIN raw : raw[k] = p
    BY <1>2, <2>2
  <2> QED  BY <2>2, <2>3 DEF raw
<1>6. CASE \E d \in Range(space.contacts) : c = [net |-> d.net, box |-> d.box]
  <2>1. PICK d \in Range(space.contacts) : c = [net |-> d.net, box |-> d.box]
    BY <1>6
  <2>2. c.net = d.net /\ c.box = d.box
    BY <2>1
  <2> DEFINE p == ContactPiece(d)
  <2>3. p.net = d.net /\ p.kind = "contact" /\ p.box = Grown(d.box, Enclosure)
    BY PieceIs DEF ContactPiece
  <2>4. p \in Range(pieces)
    BY PiecesKnown DEF pieces
  <2> HIDE DEF p
  <2>5. p \in Range(raw)
    BY <1>1, <1>3, <2>2, <2>3, <2>4
  <2>6. PICK k \in DOMAIN raw : raw[k] = p
    BY <1>2, <2>5
  <2>7. IsBox(d.box)
    BY <2>2, PlacementBox
  <2>8. Enclosure \in Nat
    BY EnclosureTyped
  <2>9. \A b : IsBox(b) /\ Touch(b, d.box) => Touch(b, Grown(d.box, Enclosure))
    BY <2>7, <2>8, TouchGrown
  <2> QED  BY <2>2, <2>3, <2>6, <2>9 DEF raw
<1> QED  BY <1>4, <1>5, <1>6

(* Where boxes are metal and contacts conduct, a net that passes is not parted. *)
LEMMA PassIsTrue ==
    ASSUME NEW space, IsMetal(space), HullsAreMetal(space), ContactsConduct(space), Enclosure >= 0,
           NEW islands \in IslandOrders(RawIslands(space)),
           NEW net, net \in {p.net : p \in Range(RawIslands(space))},
           net \notin FailingNets(space, islands)
    PROVE  Continuous(space, net)
<1> DEFINE raw == RawIslands(space)
           D == DOMAIN raw
           own == {i \in D : raw[i].net = net}
<1>1. PieceList(raw) /\ GroupsAre(raw)
  BY RawKnown, GroupsKnown
<1>2. \A i \in D : raw[i] \in Range(raw) /\ raw[i].net # None /\ IsBox(raw[i].box)
  BY <1>1, RawKnown DEF Range, PieceList
<1>3. \E i \in D : raw[i].net = net
  BY DEF Range
<1>4. OfNet(raw, net) # {} => ~Severed(raw, Contacts(space), net)
  BY FailingAre
<1>5. \A g \in Groups(raw) : \A b :
         Touch(HullOf(raw, g), b)
         /\ (\/ \E c \in Placements(space) : b = c.box
             \/ \E j \in D \ g : b = raw[j].box
             \/ \E h \in Groups(raw) \ {g} : b = HullOf(raw, h))
         => \E i \in g : Touch(raw[i].box, b)
  BY DEF HullsAreMetal, HullOf
<1>6. \A c \in Placements(space) : c.net # None =>
         /\ IsBox(c.box)
         /\ \E k \in D : /\ raw[k].net = c.net
                         /\ \A b : IsBox(b) /\ Touch(b, c.box) => Touch(b, raw[k].box)
  BY ContactIsPiece, PlacementBox
<1>7. Continuous(space, net) <=> \A p \in (SUBSET own) \ {{}, own} :
          \E i \in p : \E j \in own \ p : Touch(raw[i].box, raw[j].box)
  BY DEF Continuous, Linked
<1> HIDE DEF raw
<1>8. \A g \in Groups(raw) :
         /\ g # {} /\ Island(raw, g).box = HullOf(raw, g) /\ IsBox(HullOf(raw, g))
         /\ \A i \in g : i \in D /\ raw[i].net = Island(raw, g).net
  BY <1>1, IslandIs DEF GroupsAre
<1>9. \A g \in OfNet(raw, net) : g \in Groups(raw) /\ \A i \in g : i \in own
  BY <1>8 DEF OfNet
<1>10. \A i \in own : \E g \in OfNet(raw, net) : i \in g
  BY <1>1, <1>8 DEF GroupsAre, OfNet
<1> SUFFICES ASSUME NEW part \in (SUBSET own) \ {{}, own},
                    \A i \in part : \A j \in own \ part : ~Touch(raw[i].box, raw[j].box)
             PROVE  FALSE
  BY <1>7
<1>11. \A i, j \in own : Touch(raw[i].box, raw[j].box) => (i \in part <=> j \in part)
  <2> SUFFICES ASSUME NEW i \in own, NEW j \in own, Touch(raw[i].box, raw[j].box), i \notin part, j \in part
               PROVE  FALSE
    OBVIOUS
  <2>1. Touch(raw[j].box, raw[i].box)
    BY <1>2, TouchBack
  <2> QED  BY <2>1
<1>12. Uncrossed(raw, part)
  <2> SUFFICES ASSUME NEW x \in D, NEW y \in D, Weldable(raw[x], raw[y])
               PROVE  x \in part <=> y \in part
    BY DEF Uncrossed
  <2>1. raw[x].net = raw[y].net /\ Touch(raw[x].box, raw[y].box)
    BY DEF Weldable
  <2>2. CASE raw[x].net = net
    BY <1>11, <2>1, <2>2
  <2>3. CASE raw[x].net # net
    BY <2>1, <2>3
  <2> QED  BY <2>2, <2>3
<1>13. \A g \in Groups(raw) : \A i, j \in g : i \in part <=> j \in part
  BY <1>1, <1>12, GroupsWhole
<1> DEFINE half == {g \in OfNet(raw, net) : \A i \in g : i \in part}
<1>14. half \in (SUBSET OfNet(raw, net)) \ {{}, OfNet(raw, net)}
  <2>1. PICK i \in part, j \in own : j \notin part
    OBVIOUS
  <2>2. PICK g \in OfNet(raw, net) : i \in g
    BY <1>10
  <2>3. PICK h \in OfNet(raw, net) : j \in h
    BY <1>10
  <2>4. g \in half
    BY <1>9, <1>13, <2>2
  <2>5. h \notin half
    BY <2>1, <2>3
  <2> QED  BY <2>3, <2>4, <2>5
<1>15. ~Severed(raw, Contacts(space), net)
  BY <1>4, <1>14
<1>16. PICK g \in half, h \in OfNet(raw, net) \ half :
           Joins(Contacts(space), Island(raw, g), Island(raw, h))
  <2> HIDE DEF half
  <2> QED  BY <1>14, <1>15 DEF Severed
<1>17. /\ g \in Groups(raw) /\ h \in Groups(raw) /\ g # h
       /\ \A i \in g : i \in part /\ i \in own
       /\ \A j \in h : j \notin part /\ j \in own /\ j \notin g
  <2>1. g \in OfNet(raw, net) /\ h \in OfNet(raw, net) /\ h \notin half /\ g # h
    OBVIOUS
  <2>2. \A j \in h : j \notin part
    BY <1>9, <1>13, <2>1
  <2> QED  BY <1>9, <2>1, <2>2
<1> HIDE DEF half
<1>18. ASSUME NEW a \in {g, h}, NEW b \in {g, h}, a # b, Touch(HullOf(raw, a), HullOf(raw, b))
       PROVE  FALSE
  <2>1. a \in Groups(raw) /\ b \in Groups(raw)
    BY <1>17
  <2>2. PICK i \in a : Touch(raw[i].box, HullOf(raw, b))
    BY <1>5, <1>18, <2>1
  <2>3. i \in D /\ i \notin b
    BY <1>17, <1>18, <2>2
  <2>4. Touch(HullOf(raw, b), raw[i].box)
    BY <1>2, <1>8, <2>1, <2>2, <2>3, TouchBack
  <2>5. PICK j \in b : Touch(raw[j].box, raw[i].box)
    BY <1>5, <2>1, <2>3, <2>4
  <2> QED  BY <1>11, <1>17, <1>18, <2>2, <2>5
<1>19. CASE Terminal(Island(raw, g), Island(raw, h)) \/ Terminal(Island(raw, h), Island(raw, g))
  <2>1. Touch(HullOf(raw, g), HullOf(raw, h)) \/ Touch(HullOf(raw, h), HullOf(raw, g))
    BY <1>8, <1>17, <1>19 DEF Terminal
  <2> QED  BY <1>17, <1>18, <2>1
<1>20. CASE \E c \in Contacts(space) : /\ Island(raw, g).net = c.net /\ Island(raw, h).net = c.net
                                       /\ Touch(Island(raw, g).box, c.box) /\ Touch(Island(raw, h).box, c.box)
  <2>1. PICK c \in Contacts(space) : /\ Island(raw, g).net = c.net
                                     /\ Touch(Island(raw, g).box, c.box) /\ Touch(Island(raw, h).box, c.box)
    BY <1>20
  <2>2. c \in Placements(space) /\ c.net # None /\ Island(raw, g).net = net
    BY <1>16, <1>17 DEF Contacts, OfNet, half
  <2>3. Touch(HullOf(raw, g), c.box) /\ Touch(HullOf(raw, h), c.box)
    BY <1>8, <1>17, <2>1
  <2>4. PICK i \in g : Touch(raw[i].box, c.box)
    BY <1>5, <1>17, <2>2, <2>3
  <2>5. PICK j \in h : Touch(raw[j].box, c.box)
    BY <1>5, <1>17, <2>2, <2>3
  <2>6. PICK k \in D : /\ raw[k].net = c.net
                       /\ \A b : IsBox(b) /\ Touch(b, c.box) => Touch(b, raw[k].box)
    BY <1>6, <2>2
  <2>7. Touch(raw[i].box, raw[k].box) /\ Touch(raw[j].box, raw[k].box)
    BY <1>2, <1>17, <2>4, <2>5, <2>6
  <2>8. k \in own /\ i \in own /\ j \in own
    BY <1>17, <2>1, <2>2, <2>6
  <2> QED  BY <1>11, <1>17, <2>7, <2>8
<1> QED  BY <1>16, <1>19, <1>20 DEF Joins

-----------------------------------------------------------------------------
(* The collector. *)

CollectorOK(c, limit) ==
    /\ c = [reports |-> c.reports, maxErrors |-> limit]
    /\ c.reports \in Seq({"error"}) /\ Errors(c) <= limit

LEMMA CountUpTo == ASSUME NEW n \in Nat PROVE Cardinality(1..n) = n
<1>1. 1 \in Int /\ n \in Int
  OBVIOUS
<1>2. Cardinality(1..n) = IF 1 > n THEN 0 ELSE n - 1 + 1
  BY <1>1, FS_Interval
<1> QED  BY <1>2

LEMMA ErrorsOf ==
    ASSUME NEW limit \in Nat, NEW c, CollectorOK(c, limit)
    PROVE  /\ Errors(c) = Len(c.reports) /\ Len(c.reports) \in Nat
           /\ HasErrors(c) <=> Len(c.reports) > 0
           /\ ShouldStop(c) <=> Len(c.reports) >= limit
<1>1. c.reports \in Seq({"error"}) /\ Len(c.reports) \in Nat
      /\ DOMAIN c.reports = 1..Len(c.reports)
  BY DEF CollectorOK
<1>2. \A i \in 1..Len(c.reports) : c.reports[i] = "error"
  BY <1>1
<1>3. {i \in DOMAIN c.reports : c.reports[i] = "error"} = 1..Len(c.reports)
  BY <1>1, <1>2
<1>4. Errors(c) = Len(c.reports)
  BY <1>1, <1>3, CountUpTo DEF Errors
<1>5. HasErrors(c) <=> Len(c.reports) > 0
  BY <1>1, <1>2 DEF HasErrors, Contains
<1>6. c.maxErrors = limit
  BY DEF CollectorOK
<1> QED  BY <1>1, <1>4, <1>5, <1>6 DEF ShouldStop

LEMMA ReportOK ==
    ASSUME NEW limit \in Nat, NEW c, CollectorOK(c, limit)
    PROVE  /\ CollectorOK(Report(c, "error"), limit)
           /\ HasErrors(c) \/ ~ShouldStop(c) => HasErrors(Report(c, "error"))
<1>1. CASE ShouldStop(c)
  BY <1>1 DEF Report
<1>2. CASE ~ShouldStop(c)
  <2> DEFINE d == Report(c, "error")
  <2>1. d = [reports |-> Append(c.reports, "error"), maxErrors |-> limit]
    <3>1. c = [reports |-> c.reports, maxErrors |-> limit]
      BY DEF CollectorOK
    <3>2. d = [c EXCEPT !.reports = Append(@, "error")]
      BY <1>2 DEF Report
    <3> HIDE DEF d
    <3>3. ASSUME NEW r, c = [reports |-> r, maxErrors |-> limit]
          PROVE  d = [reports |-> Append(r, "error"), maxErrors |-> limit]
      BY ONLY <3>2, <3>3
    <3> QED  BY ONLY <3>1, <3>3
  <2>2. d.reports \in Seq({"error"}) /\ Len(d.reports) = Len(c.reports) + 1
        /\ d = [reports |-> d.reports, maxErrors |-> limit]
        /\ \A i \in 1..Len(d.reports) : d.reports[i] = "error"
    BY <2>1 DEF CollectorOK
  <2> HIDE DEF d
  <2>3. {i \in DOMAIN d.reports : d.reports[i] = "error"} = 1..Len(d.reports)
    BY <2>2
  <2>4. Len(c.reports) < limit /\ Len(c.reports) \in Nat
    BY <1>2, ErrorsOf
  <2>5. Errors(d) = Len(d.reports)
    <3>1. Len(d.reports) \in Nat
      BY <2>2, <2>4
    <3> QED  BY <2>3, <3>1, CountUpTo DEF Errors
  <2>6. CollectorOK(d, limit)
    BY <2>2, <2>4, <2>5 DEF CollectorOK
  <2>7. HasErrors(d)
    BY <2>2, <2>4, <2>6, ErrorsOf
  <2> QED  BY <2>6, <2>7 DEF d
<1> QED  BY <1>1, <1>2

LEMMA EmptyCollector ==
    ASSUME NEW limit \in Nat
    PROVE  /\ CollectorOK(Collector(limit), limit) /\ ~HasErrors(Collector(limit))
<1> DEFINE c == Collector(limit)
<1>1. c.reports = <<>> /\ c = [reports |-> c.reports, maxErrors |-> limit]
  BY DEF Collector
<1>2. {i \in DOMAIN c.reports : c.reports[i] = "error"} = {}
  BY <1>1
<1>3. Errors(c) = 0
  BY <1>2, FS_EmptySet DEF Errors
<1>4. CollectorOK(c, limit)
  BY <1>1, <1>3 DEF CollectorOK
<1> QED  BY <1>1, <1>4, ErrorsOf

-----------------------------------------------------------------------------
(* The grammar: what a source reads as from each of its positions. *)

Names == Keywords \cup {"x"}
Readings == Seq(Names) \cup {Broken}
Positions == 1..Len(tokens) + 1
Within(item, rest) == IF rest = Broken THEN Broken ELSE <<item>> \o rest

ReadAt(f, i) ==
    IF Token(i) = "eof" THEN <<>>
    ELSE IF Token(i) = "semicolon" THEN f[i + 1]
    ELSE IF Token(i) = "x" THEN Within("x", f[i + 1])
    ELSE IF Token(i + 1) # "x" THEN Broken
    ELSE IF Token(i) \in Keywords THEN Within(Token(i), f[i + 2])
    ELSE IF Token(i) = "hash" /\ Token(i + 2) \notin {"eof", "semicolon"} THEN f[i + 2] ELSE Broken

LEMMA TokenIs ==
    ASSUME tokens \in Seq(Classes), NEW i \in Nat \ {0}
    PROVE  /\ Token(i) \in Classes \cup {"eof"}
           /\ Token(i) # "eof" => i <= Len(tokens)
           /\ i <= Len(tokens) => Token(i) # "eof"
           /\ Token(i) = "eof" \/ Token(i) = "semicolon" \/ Token(i) = "x" \/ Token(i) = "hash"
              \/ Token(i) = "brace" \/ Token(i) \in Keywords
<1>1. Len(tokens) \in Nat
  OBVIOUS
<1>2. i <= Len(tokens) => tokens[i] \in Classes
  OBVIOUS
<1>3. "eof" \notin Classes
  BY DEF Classes, Keywords
<1>4. /\ Token(i) \in Classes \cup {"eof"}
      /\ Token(i) # "eof" => i <= Len(tokens)
      /\ i <= Len(tokens) => Token(i) # "eof"
  BY <1>1, <1>2, <1>3 DEF Token
<1> QED  BY <1>4 DEF Classes

LEMMA WithinTyped ==
    ASSUME NEW item \in Names, NEW rest \in Readings
    PROVE  /\ Within(item, rest) \in Readings
           /\ Within(item, rest) = Broken <=> rest = Broken
<1>1. "broken" \notin Names
  BY DEF Names, Keywords
<1>2. CASE rest = Broken
  BY <1>2 DEF Within, Readings
<1>3. CASE rest # Broken
  <2>1. rest \in Seq(Names)
    BY <1>3 DEF Readings
  <2>2. <<item>> \o rest \in Seq(Names) /\ (<<item>> \o rest)[1] = item
    BY <2>1
  <2>3. Broken[1] = "broken"
    BY DEF Broken
  <2>4. <<item>> \o rest # Broken
    BY <1>1, <2>2, <2>3
  <2> QED  BY <1>3, <2>2, <2>4 DEF Within, Readings
<1> QED  BY <1>2, <1>3

IsReading(f, k) ==
    /\ f \in [k..Len(tokens) + 1 -> Readings]
    /\ \A i \in k..Len(tokens) + 1 : f[i] = ReadAt(f, i)

LEMMA ReadAtTyped ==
    ASSUME tokens \in Seq(Classes), NEW i \in Positions, NEW f,
           \A j \in i + 1..Len(tokens) + 1 : f[j] \in Readings
    PROVE  ReadAt(f, i) \in Readings
<1>1. Len(tokens) \in Nat /\ i \in Nat \ {0} /\ i + 1 \in Nat \ {0}
  BY DEF Positions
<1>2. i <= Len(tokens) => f[i + 1] \in Readings
  BY <1>1
<1>3. i + 1 <= Len(tokens) => f[i + 2] \in Readings
  BY <1>1
<1>4. Broken \in Readings /\ <<>> \in Readings
  BY DEF Readings
<1>5. Token(i) # "eof" => i <= Len(tokens)
  BY <1>1, TokenIs
<1>6. Token(i + 1) = "x" => i + 1 <= Len(tokens)
  BY <1>1, TokenIs
<1>7. CASE Token(i) = "eof"
  BY <1>4, <1>7 DEF ReadAt
<1>8. CASE Token(i) = "semicolon"
  BY <1>2, <1>4, <1>5, <1>8 DEF ReadAt
<1>9. CASE Token(i) = "x"
  BY <1>2, <1>5, <1>9, WithinTyped DEF ReadAt, Names
<1>10. CASE Token(i) = "hash"
  BY <1>3, <1>4, <1>6, <1>10 DEF ReadAt, Keywords
<1>11. CASE Token(i) = "brace"
  BY <1>4, <1>11 DEF ReadAt, Keywords
<1>12. CASE Token(i) \in Keywords
  <2>1. Token(i) \notin {"eof", "semicolon", "x", "hash"}
    BY <1>12 DEF Keywords
  <2>2. CASE Token(i + 1) = "x"
    <3>1. ReadAt(f, i) = Within(Token(i), f[i + 2])
      BY <1>12, <2>1, <2>2 DEF ReadAt
    <3> QED  BY <1>3, <1>6, <1>12, <2>2, <3>1, WithinTyped DEF Names
  <2>3. CASE Token(i + 1) # "x"
    BY <1>4, <2>1, <2>3 DEF ReadAt
  <2> QED  BY <2>2, <2>3
<1> QED  BY <1>1, <1>7, <1>8, <1>9, <1>10, <1>11, <1>12, TokenIs

LEMMA ReadAtAgrees ==
    ASSUME tokens \in Seq(Classes), NEW i \in Positions, NEW f, NEW g,
           \A j \in i + 1..Len(tokens) + 1 : f[j] = g[j]
    PROVE  ReadAt(f, i) = ReadAt(g, i)
<1>1. Len(tokens) \in Nat /\ i \in Nat \ {0} /\ i + 1 \in Nat \ {0}
  BY DEF Positions
<1>2. i <= Len(tokens) => f[i + 1] = g[i + 1]
  BY <1>1
<1>3. i + 1 <= Len(tokens) => f[i + 2] = g[i + 2]
  BY <1>1
<1>4. Token(i) # "eof" => i <= Len(tokens)
  BY <1>1, TokenIs
<1>5. Token(i + 1) = "x" => i + 1 <= Len(tokens)
  BY <1>1, TokenIs
<1>6. CASE Token(i) = "eof"
  BY <1>6 DEF ReadAt
<1>7. CASE Token(i) # "eof" /\ Token(i + 1) = "x"
  BY <1>2, <1>3, <1>4, <1>5, <1>7 DEF ReadAt
<1>8. CASE Token(i) # "eof" /\ Token(i + 1) # "x"
  BY <1>2, <1>4, <1>8 DEF ReadAt
<1> QED  BY <1>6, <1>7, <1>8

LEMMA ReadingExists ==
    ASSUME tokens \in Seq(Classes)
    PROVE  \E f : IsReading(f, 1)
<1> DEFINE N == Len(tokens)
           S == {n \in 0..N : \E f : IsReading(f, n + 1)}
<1>0. N \in Nat
  OBVIOUS
<1>1. ASSUME NEW n \in 0..N, \A m \in n + 1..N : m \in S
      PROVE  n \in S
  <2> DEFINE k == n + 1
  <2>0. k \in Positions /\ k \in Nat /\ k <= N + 1
    BY <1>0 DEF Positions
  <2>1. \E g : IsReading(g, k + 1)
    <3>1. CASE n = N
      <4> DEFINE g == [p \in {} |-> Broken]
      <4>1. k + 1..N + 1 = {} /\ \A i \in k + 1..N + 1 : FALSE
        BY <1>0, <3>1
      <4>2. IsReading(g, k + 1)
        BY <4>1 DEF IsReading
      <4> QED  BY <4>2
    <3>2. CASE n # N
      <4>1. n + 1 \in S
        BY <1>0, <1>1, <3>2
      <4> QED  BY <4>1
    <3> QED  BY <3>1, <3>2
  <2>2. PICK g : IsReading(g, k + 1)
    BY <2>1
  <2> DEFINE f == [i \in k..N + 1 |-> IF i = k THEN ReadAt(g, k) ELSE g[i]]
  <2>4. \A j \in k + 1..N + 1 : g[j] \in Readings /\ g[j] = ReadAt(g, j)
    BY <2>2 DEF IsReading
  <2>5. ReadAt(g, k) \in Readings
    BY <2>0, <2>4, ReadAtTyped
  <2>6. f[k] = ReadAt(g, k)
    BY <1>0, <2>0
  <2>7. \A j \in k + 1..N + 1 : f[j] = g[j]
    BY <1>0, <2>0
  <2>8. \A j \in k..N + 1 : j = k \/ j \in k + 1..N + 1
    BY <1>0, <2>0
  <2>9. f \in [k..N + 1 -> Readings]
    BY <2>4, <2>5, <2>8
  <2> HIDE DEF f
  <2>10. ASSUME NEW i \in k..N + 1
         PROVE  f[i] = ReadAt(f, i)
    <3>1. i \in Positions
      BY <1>0, <2>0 DEF Positions
    <3>2. \A j \in i + 1..N + 1 : g[j] = f[j]
      BY <1>0, <2>0, <2>7
    <3>3. ReadAt(g, i) = ReadAt(f, i)
      BY <3>1, <3>2, ReadAtAgrees
    <3>4. CASE i = k
      BY <2>6, <3>3, <3>4
    <3>5. CASE i # k
      BY <2>4, <2>7, <2>8, <3>3, <3>5
    <3> QED  BY <3>4, <3>5
  <2>11. IsReading(f, k)
    BY <2>9, <2>10 DEF IsReading
  <2> QED  BY <2>11
<1>2. \A n \in 0..N : n \in S
  <2> HIDE DEF S
  <2> QED  BY <1>0, <1>1, Descend
<1>3. PICK f : IsReading(f, 0 + 1)
  BY <1>0, <1>2
<1> QED  BY <1>3

(* Read is such a reading. *)
LEMMA ReadIs ==
    ASSUME tokens \in Seq(Classes)
    PROVE  IsReading(Read(tokens), 1)
<1> DEFINE W(f) == f = [i \in 1..(Len(tokens) + 1) |-> ReadAt(f, i)]
<1>1. PICK f : IsReading(f, 1)
  BY ReadingExists
<1>2. W(f)
  BY <1>1 DEF IsReading
<1>3. Read(tokens) = CHOOSE g : W(g)
  BY DEF Read, ReadAt, Token, Within
<1>4. W(Read(tokens))
  BY <1>2, <1>3
<1>5. PICK g : g = Read(tokens)
  OBVIOUS
<1>6. g = [i \in 1..(Len(tokens) + 1) |-> ReadAt(g, i)]
  BY <1>4, <1>5
<1> HIDE DEF W
<1> DEFINE N == Len(tokens)
           S == {n \in 0..N : g[n + 1] \in Readings}
<1>7. N \in Nat
  OBVIOUS
<1>8. \A i \in 1..N + 1 : g[i] = ReadAt(g, i)
  BY <1>6
<1>9. ASSUME NEW n \in 0..N, \A m \in n + 1..N : m \in S
      PROVE  n \in S
  <2>1. n + 1 \in Positions
    BY <1>7 DEF Positions
  <2>2. \A j \in n + 1 + 1..N + 1 : j - 1 \in n + 1..N /\ (j - 1) + 1 = j
    BY <1>7
  <2>3. \A j \in n + 1 + 1..N + 1 : g[j] \in Readings
    BY <1>9, <2>2
  <2>4. g[n + 1] = ReadAt(g, n + 1)
    BY <1>8, <2>1 DEF Positions
  <2> QED  BY <2>1, <2>3, <2>4, ReadAtTyped
<1>10. \A n \in 0..N : n \in S
  <2> HIDE DEF S
  <2> QED  BY <1>7, <1>9, Descend
<1>11. \A i \in 1..N + 1 : i - 1 \in 0..N /\ (i - 1) + 1 = i
  BY <1>7
<1>12. \A i \in 1..N + 1 : g[i] \in Readings
  BY <1>10, <1>11
<1>13. g \in [1..N + 1 -> Readings]
  BY <1>6, <1>8, <1>12
<1> QED  BY <1>5, <1>8, <1>13 DEF IsReading


-----------------------------------------------------------------------------
(* The parser's helpers, against what the source reads as. *)

R(i) == Read(tokens)[i]

LEMMA ReadingOf ==
    ASSUME tokens \in Seq(Classes), NEW i \in Positions
    PROVE  /\ R(i) \in Readings
           /\ Token(i) = "eof" => R(i) = <<>>
           /\ Token(i) = "semicolon" => R(i) = R(i + 1)
           /\ Token(i) = "x" => R(i) = Within("x", R(i + 1))
           /\ Token(i) \in Keywords /\ Token(i + 1) = "x" =>
                R(i) = Within(Token(i), R(i + 2))
           /\ Token(i) = "hash" /\ Token(i + 1) = "x" /\ Token(i + 2) \notin {"eof", "semicolon"} =>
                R(i) = R(i + 2)
           /\ Token(i) = "hash" /\ Token(i + 1) = "x" /\ Token(i + 2) \in {"eof", "semicolon"} =>
                R(i) = Broken
           /\ Token(i) \notin {"eof", "semicolon", "x"} /\ Token(i + 1) # "x" => R(i) = Broken
           /\ Token(i) = "brace" => R(i) = Broken
<1>1. IsReading(Read(tokens), 1)
  BY ReadIs
<1>2. R(i) = ReadAt(Read(tokens), i) /\ R(i) \in Readings
  BY <1>1 DEF IsReading, Positions, R
<1>3. Token(i) \in Keywords => Token(i) \notin {"eof", "semicolon", "x", "hash"}
  BY DEF Keywords
<1>4. {"hash", "brace"} \cap Keywords = {}
  BY DEF Keywords
<1>5. R(i) = IF Token(i) = "eof" THEN <<>>
             ELSE IF Token(i) = "semicolon" THEN R(i + 1)
             ELSE IF Token(i) = "x" THEN Within("x", R(i + 1))
             ELSE IF Token(i + 1) # "x" THEN Broken
             ELSE IF Token(i) \in Keywords THEN Within(Token(i), R(i + 2))
             ELSE IF Token(i) = "hash" /\ Token(i + 2) \notin {"eof", "semicolon"} THEN R(i + 2)
             ELSE Broken
  BY <1>2 DEF ReadAt, R
<1> QED  BY <1>2, <1>3, <1>4, <1>5

LEMMA PastSemicolonsIs ==
    ASSUME tokens \in Seq(Classes), NEW i \in Positions
    PROVE  /\ PastSemicolons(i) \in i..Len(tokens) + 1
           /\ Token(PastSemicolons(i)) # "semicolon" /\ R(PastSemicolons(i)) = R(i)
<1> DEFINE N == Len(tokens)
           S == {n \in i..N + 1 : Token(n) # "semicolon"}
           p == PastSemicolons(i)
           From(k) == Token(k) # "semicolon" /\ \A j \in i..k - 1 : Token(j) = "semicolon"
<1>1. N \in Nat /\ i \in Nat \ {0} /\ i <= N + 1
  BY DEF Positions
<1>2. N + 1 \in S
  BY <1>1 DEF Token
<1>3. PICK x \in S : \A y \in S : x <= y
  <2>1. S \in SUBSET Nat
    BY <1>1
  <2> HIDE DEF S
  <2> QED  BY <1>2, <2>1, LeastIndex
<1>4. \A j \in i..x - 1 : Token(j) = "semicolon"
  BY <1>1, <1>3
<1>5. x \in i..N + 1 /\ From(x)
  BY <1>3, <1>4
<1>6. p = CHOOSE k \in i..N + 1 : From(k)
  BY DEF PastSemicolons
<1> HIDE DEF From, p
<1>7. p \in i..N + 1 /\ From(p)
  BY <1>5, <1>6
<1> DEFINE T == {n \in 0..p - i : R(i + n) = R(p)}
<1>8. p - i \in Nat /\ i + (p - i) = p
  BY <1>1, <1>7
<1>9. ASSUME NEW n \in 0..p - i, \A m \in n + 1..p - i : m \in T
      PROVE  n \in T
  <2>1. CASE n = p - i
    BY <1>8, <2>1
  <2>2. CASE n # p - i
    <3>1. n + 1 \in T /\ i + (n + 1) = (i + n) + 1
      BY <1>1, <1>8, <1>9, <2>2
    <3>2. i + n \in i..p - 1 /\ i + n \in Positions
      BY <1>1, <1>7, <1>8, <2>2 DEF Positions
    <3>3. Token(i + n) = "semicolon"
      BY <1>7, <3>2 DEF From
    <3>4. R(i + n) = R((i + n) + 1)
      BY <3>2, <3>3, ReadingOf
    <3> QED  BY <3>1, <3>4
  <2> QED  BY <2>1, <2>2
<1> HIDE DEF T
<1>10. \A n \in 0..p - i : n \in T
  <2> DEFINE D == p - i
  <2>1. D \in Nat /\ \A n \in 0..D : (\A m \in n + 1..D : m \in T) => n \in T
    BY <1>8, <1>9
  <2> HIDE DEF D
  <2>2. \A n \in 0..D : n \in T
    BY <2>1, Descend
  <2> QED  BY <2>2 DEF D
<1>11. R(i + 0) = R(p) /\ i + 0 = i
  <2>1. 0 \in 0..p - i
    BY <1>8
  <2> QED  BY <1>1, <1>10, <2>1 DEF T
<1> QED  BY <1>7, <1>11 DEF From, p

(* Recovery goes forward, and stays within the source. *)
LEMMA SynchronizeAdvances ==
    ASSUME tokens \in Seq(Classes), NEW i \in Positions
    PROVE  /\ Synchronize(i) \in i..Len(tokens) + 1
           /\ i <= Len(tokens) => Synchronize(i) > i
<1> DEFINE N == Len(tokens)
           from == IF i <= N THEN i + 1 ELSE i
           stops == {k \in from..N : tokens[k] \in {"import", "space", "let", "semicolon"}}
<1>1. N \in Nat /\ i \in Nat \ {0} /\ i <= N + 1 /\ from \in Nat
  BY DEF Positions
<1>2. Synchronize(i) = IF stops = {} THEN N + 1
                       ELSE CHOOSE k \in stops : \A j \in stops : k <= j
  BY DEF Synchronize
<1>3. CASE stops = {}
  BY <1>1, <1>2, <1>3
<1>4. CASE stops # {}
  <2>1. stops \in SUBSET Nat
    BY <1>1
  <2>2. stops \subseteq from..N
    OBVIOUS
  <2> HIDE DEF stops
  <2>3. \E k \in stops : \A j \in stops : k <= j
    BY <1>4, <2>1, LeastIndex
  <2>4. Synchronize(i) \in stops
    BY <1>2, <1>4, <2>3
  <2>5. from >= i /\ (i <= N => from > i)
    BY <1>1
  <2>6. Synchronize(i) \in from..N
    BY <2>2, <2>4
  <2>7. Synchronize(i) \in Int /\ from <= Synchronize(i) /\ Synchronize(i) <= N
    BY <1>1, <2>6
  <2> HIDE DEF from
  <2> QED  BY <1>1, <2>5, <2>7
<1> QED  BY <1>3, <1>4

(* The attributes' results at a position, given those at the later ones. *)
AttributesFrom(f, i) ==
    IF Token(i) # "hash" THEN Got(i)
    ELSE IF ParseAttribute(i).ok THEN f[i + 2] ELSE Tripped(Synchronize(i + 1))

LEMMA AttributesExist ==
    ASSUME tokens \in Seq(Classes), NEW i \in Positions
    PROVE  \E f : /\ f = [j \in i..Len(tokens) + 1 |-> AttributesFrom(f, j)]
                  /\ Attributes(i) = f[i]
<1> DEFINE N == Len(tokens)
           W(f, k) == f = [j \in k..N + 1 |-> AttributesFrom(f, j)]
           S == {n \in 0..N : \E f : W(f, n + 1)}
<1>0. N \in Nat /\ i \in 1..N + 1
  BY DEF Positions
<1>1. ASSUME NEW n \in 0..N, \A m \in n + 1..N : m \in S
      PROVE  n \in S
  <2> DEFINE k == n + 1
  <2>0. k \in Nat \ {0} /\ k <= N + 1 /\ k + 1 \in Nat \ {0}
    BY <1>0
  <2>1. \E g : W(g, k + 1)
    <3>1. CASE n = N
      <4> DEFINE g == [j \in {} |-> AttributesFrom(<<>>, j)]
      <4>1. k + 1..N + 1 = {}
        BY <1>0, <3>1
      <4>2. W(g, k + 1)
        BY <4>1
      <4> QED  BY <4>2
    <3>2. CASE n # N
      <4>1. n + 1 \in S
        BY <1>0, <1>1, <3>2
      <4> QED  BY <4>1
    <3> QED  BY <3>1, <3>2
  <2>2. PICK g : W(g, k + 1)
    BY <2>1
  <2> DEFINE f == [j \in k..N + 1 |-> IF j = k THEN AttributesFrom(g, k) ELSE g[j]]
  <2>3. \A j \in k + 1..N + 1 : g[j] = AttributesFrom(g, j)
    BY <2>2
  <2>4. f[k] = AttributesFrom(g, k) /\ \A j \in k + 1..N + 1 : f[j] = g[j]
    BY <1>0, <2>0
  <2>5. \A j \in k..N + 1 : j = k \/ j \in k + 1..N + 1
    BY <1>0, <2>0
  <2>6. DOMAIN f = k..N + 1 /\ f = [j \in k..N + 1 |-> f[j]]
    OBVIOUS
  <2> HIDE DEF f, W
  <2>7. ASSUME NEW j \in k..N + 1
        PROVE  f[j] = AttributesFrom(f, j)
    <3>1. j \in Nat \ {0} /\ j + 1 \in Nat \ {0} /\ j >= k
      BY <2>0
    <3>2. ParseAttribute(j).ok /\ Token(j) = "hash" => Token(j + 1) = "x"
      BY DEF ParseAttribute, Got, Tripped
    <3>3. Token(j + 1) = "x" => j + 2 \in k + 1..N + 1
      BY <1>0, <2>0, <3>1, TokenIs
    <3>4. AttributesFrom(g, j) = AttributesFrom(f, j)
      BY <2>4, <3>2, <3>3 DEF AttributesFrom
    <3> QED  BY <2>3, <2>4, <2>5, <3>4
  <2>8. W(f, k)
    BY <2>6, <2>7 DEF W
  <2> QED  BY <2>8
<1>2. \A n \in 0..N : n \in S
  <2> HIDE DEF S
  <2> QED  BY <1>0, <1>1, Descend
<1>3. i - 1 \in 0..N /\ (i - 1) + 1 = i
  BY <1>0
<1>4. \E f : W(f, i)
  BY <1>2, <1>3
<1> DEFINE h == CHOOSE f : W(f, i)
<1>5. W(h, i)
  <2> HIDE DEF W
  <2> QED  BY <1>4
<1>6. Attributes(i) = h[i]
  BY DEF Attributes, AttributesFrom
<1> HIDE DEF h
<1> QED  BY <1>5, <1>6


(* What the attributes before an item say of the rest. *)
AttributesOK(r, i) ==
    /\ r.at \in i..Len(tokens) + 1 /\ r.ok \in BOOLEAN
    /\ r.ok = TRUE =>
         /\ Token(r.at) # "hash"
         /\ Token(r.at) \in {"eof", "semicolon"} => r.at = i \/ R(i) = Broken
         /\ Token(r.at) \notin {"eof", "semicolon"} => R(i) = R(r.at)
    /\ r.ok = FALSE => R(i) = Broken /\ r.at > i

LEMMA AttributesAre ==
    ASSUME tokens \in Seq(Classes), NEW i \in Positions
    PROVE  AttributesOK(Attributes(i), i)
<1> DEFINE N == Len(tokens)
<1>0. N \in Nat /\ i \in 1..N + 1
  BY DEF Positions
<1>1. PICK f : /\ f = [j \in i..N + 1 |-> AttributesFrom(f, j)]
               /\ Attributes(i) = f[i]
  BY AttributesExist
<1>2. \A j \in i..N + 1 : f[j] = AttributesFrom(f, j)
  BY <1>1
<1> DEFINE S == {n \in 0..N : n + 1 < i \/ AttributesOK(f[n + 1], n + 1)}
<1>3. ASSUME NEW n \in 0..N, \A m \in n + 1..N : m \in S, n + 1 >= i
      PROVE  AttributesOK(f[n + 1], n + 1)
  <2> DEFINE k == n + 1
  <2>0. k \in i..N + 1 /\ k \in Positions /\ k \in Nat \ {0} /\ k + 1 \in Nat \ {0} /\ k <= N + 1
    BY <1>0, <1>3 DEF Positions
  <2>1. f[k] = AttributesFrom(f, k)
    BY <1>2, <2>0
  <2> SUFFICES AttributesOK(f[k], k)
    OBVIOUS
  <2> HIDE DEF k
  <2>2. CASE Token(k) # "hash"
    <3>1. f[k] = [at |-> k, ok |-> TRUE]
      BY <2>1, <2>2 DEF AttributesFrom, Got
    <3>2. f[k].at = k /\ f[k].ok = TRUE
      BY <3>1
    <3>3. f[k].at \in k..N + 1 /\ R(f[k].at) = R(k)
      BY <1>0, <2>0, <3>2
    <3> QED  BY <2>2, <3>2, <3>3 DEF AttributesOK
  <2>3. CASE Token(k) = "hash" /\ Token(k + 1) # "x"
    <3>1. ~ParseAttribute(k).ok
      BY <2>3 DEF ParseAttribute, Tripped
    <3>2. f[k] = [at |-> Synchronize(k + 1), ok |-> FALSE]
      BY <2>1, <2>3, <3>1 DEF AttributesFrom, Tripped
    <3>3. f[k].at = Synchronize(k + 1) /\ f[k].ok = FALSE
      BY <3>2
    <3>4. k <= N /\ k + 1 \in Positions
      BY <1>0, <2>0, <2>3, TokenIs DEF Positions
    <3>5. Synchronize(k + 1) \in k + 1..N + 1
      BY <3>4, SynchronizeAdvances
    <3>6. R(k) = Broken
      BY <2>0, <2>3, ReadingOf
    <3>7. f[k].at \in k..N + 1 /\ f[k].at > k
      BY <1>0, <2>0, <3>3, <3>5
    <3> QED  BY <3>3, <3>6, <3>7 DEF AttributesOK
  <2>4. CASE Token(k) = "hash" /\ Token(k + 1) = "x"
    <3>1. ParseAttribute(k).ok
      BY <2>4 DEF ParseAttribute, Got
    <3>2. f[k] = f[k + 2]
      BY <2>1, <2>4, <3>1 DEF AttributesFrom
    <3>3. k + 1 <= N
      BY <2>0, <2>4, TokenIs
    <3>4. n + 2 \in S /\ (n + 2) + 1 = k + 2 /\ k + 2 >= i
      BY <1>0, <1>3, <2>0, <3>3 DEF k
    <3>5. AttributesOK(f[k + 2], k + 2)
      BY <1>0, <2>0, <3>4
    <3>6. f[k].at \in k..N + 1 /\ f[k].at >= k + 2
      BY <1>0, <2>0, <3>2, <3>3, <3>5 DEF AttributesOK
    <3>7. CASE Token(k + 2) \in {"eof", "semicolon"}
      <4>1. R(k) = Broken
        BY <2>0, <2>4, <3>7, ReadingOf
      <4>2. k + 2 \in i..N + 1
        BY <1>0, <2>0, <3>3
      <4>3. f[k + 2] = [at |-> k + 2, ok |-> TRUE]
        BY <1>2, <3>7, <4>2 DEF AttributesFrom, Got
      <4>4. f[k].at = k + 2 /\ f[k].ok = TRUE
        BY <3>2, <4>3
      <4> QED  BY <3>6, <3>7, <4>1, <4>4 DEF AttributesOK
    <3>8. CASE Token(k + 2) \notin {"eof", "semicolon"}
      <4>1. R(k) = R(k + 2)
        BY <2>0, <2>4, <3>8, ReadingOf
      <4>2. f[k].at > k
        BY <2>0, <3>6
      <4> QED  BY <3>2, <3>5, <3>6, <3>8, <4>1, <4>2 DEF AttributesOK
    <3> QED  BY <3>7, <3>8
  <2> QED  BY <2>2, <2>3, <2>4
<1>4. ASSUME NEW n \in 0..N, \A m \in n + 1..N : m \in S
      PROVE  n \in S
  <2>1. CASE n + 1 < i
    BY <2>1
  <2>2. CASE n + 1 >= i
    BY <1>3, <1>4, <2>2
  <2> QED  BY <1>0, <2>1, <2>2
<1>5. \A n \in 0..N : n \in S
  <2> HIDE DEF S
  <2> QED  BY <1>0, <1>4, Descend
<1>6. i - 1 \in 0..N /\ (i - 1) + 1 = i /\ ~(i < i)
  BY <1>0
<1> QED  BY <1>1, <1>5, <1>6

(* What an item's parse says of the rest. *)
LEMMA ItemIs ==
    ASSUME tokens \in Seq(Classes), NEW i \in Positions
    PROVE  LET r == ParseItemAt(i) IN
           /\ r.at \in i..Len(tokens) + 1 /\ r.ok \in BOOLEAN
           /\ r.ok => /\ r.at > i /\ Token(i) \in Names
                      /\ R(i) = Within(Token(i), R(r.at))
           /\ ~r.ok /\ Token(i) \notin {"eof", "semicolon", "hash"} => R(i) = Broken
<1> DEFINE N == Len(tokens)
           r == ParseItemAt(i)
<1>0. N \in Nat /\ i \in Nat \ {0} /\ i <= N + 1 /\ i + 1 \in Nat \ {0}
  BY DEF Positions
<1>1. CASE Token(i) \in Keywords /\ Token(i + 1) = "x"
  <2>1. r = [at |-> OptionalSemicolon(i + 2), ok |-> TRUE]
    BY <1>1 DEF ParseItemAt, ParseKeyword, Got
  <2>2. i + 1 <= N
    BY <1>0, <1>1, TokenIs
  <2>3. i + 2 \in Positions /\ i + 2 \in Nat \ {0}
    BY <1>0, <2>2 DEF Positions
  <2>4. R(i) = Within(Token(i), R(i + 2))
    BY <1>1, ReadingOf
  <2>5. CASE Token(i + 2) = "semicolon"
    <3>1. R(i + 2) = R((i + 2) + 1)
      BY <2>3, <2>5, ReadingOf
    <3>2. i + 2 <= N
      BY <2>3, <2>5, TokenIs
    <3>3. r.at = (i + 2) + 1 /\ r.ok = TRUE
      BY <2>1, <2>5 DEF OptionalSemicolon
    <3>4. r.at \in i..N + 1 /\ r.at > i
      BY <1>0, <3>2, <3>3
    <3> QED  BY <1>1, <2>4, <3>1, <3>3, <3>4 DEF Names
  <2>6. CASE Token(i + 2) # "semicolon"
    <3>1. r.at = i + 2 /\ r.ok = TRUE
      BY <2>1, <2>6 DEF OptionalSemicolon
    <3>2. r.at \in i..N + 1 /\ r.at > i
      BY <1>0, <2>2, <3>1
    <3> QED  BY <1>1, <2>4, <3>1, <3>2 DEF Names
  <2> QED  BY <2>5, <2>6
<1>2. CASE Token(i) \in Keywords /\ Token(i + 1) # "x"
  <2>1. r.at = i + 1 /\ r.ok = FALSE
    BY <1>2 DEF ParseItemAt, ParseKeyword, Tripped
  <2>2. Token(i) \notin {"eof", "semicolon", "x"}
    BY <1>2 DEF Keywords
  <2>3. R(i) = Broken
    BY <1>2, <2>2, ReadingOf
  <2>4. i <= N
    BY <1>0, <2>2, TokenIs
  <2>5. r.at \in i..N + 1
    BY <1>0, <2>1, <2>4
  <2> QED  BY <2>1, <2>3, <2>5
<1>3. CASE Token(i) = "x"
  <2>1. Token(i) \notin Keywords
    BY <1>3 DEF Keywords
  <2>2. r.at = i + 1 /\ r.ok = TRUE
    BY <1>3, <2>1 DEF ParseItemAt, Got
  <2>3. i <= N
    BY <1>0, <1>3, TokenIs
  <2>4. r.at \in i..N + 1 /\ r.at > i
    BY <1>0, <2>2, <2>3
  <2>5. R(i) = Within(Token(i), R(i + 1))
    BY <1>3, ReadingOf
  <2> QED  BY <1>3, <2>2, <2>4, <2>5 DEF Names
<1>4. CASE Token(i) \notin Keywords /\ Token(i) # "x"
  <2>1. r.at = i /\ r.ok = FALSE
    BY <1>4 DEF ParseItemAt, Tripped
  <2>2. Token(i) \notin {"eof", "semicolon", "hash"} => Token(i) = "brace"
    BY <1>0, <1>4, TokenIs
  <2>3. Token(i) = "brace" => R(i) = Broken
    BY ReadingOf
  <2>4. r.at \in i..N + 1
    BY <1>0, <2>1
  <2> QED  BY <2>1, <2>2, <2>3, <2>4
<1> QED  BY <1>1, <1>2, <1>3, <1>4


-----------------------------------------------------------------------------
(* A turn of the parser's loop: what has been reported and parsed so far accounts
   for what the source reads as. *)

Onto(parsed, rest) == IF rest = Broken THEN Broken ELSE parsed \o rest
SoFar(parsed, i, c) == R(1) = IF HasErrors(c) THEN Broken ELSE Onto(parsed, R(i))

LEMMA NamesNeverBroken ==
    ASSUME NEW s \in Seq(Names) PROVE s # Broken
<1>1. "broken" \notin Names
  BY DEF Names, Keywords
<1>2. Broken[1] = "broken" /\ Len(Broken) = 1
  BY DEF Broken
<1>3. Len(s) = 1 => s[1] \in Names
  OBVIOUS
<1> QED  BY <1>1, <1>2, <1>3

LEMMA OntoWithin ==
    ASSUME NEW s \in Seq(Names), NEW item \in Names, NEW rest \in Readings
    PROVE  Onto(s, Within(item, rest)) = Onto(Append(s, item), rest)
<1>1. CASE rest = Broken
  BY <1>1 DEF Onto, Within
<1>2. CASE rest # Broken
  <2>1. rest \in Seq(Names) /\ Within(item, rest) = <<item>> \o rest
    BY <1>2 DEF Readings, Within
  <2>2. Within(item, rest) # Broken
    BY <1>2, WithinTyped
  <2>3. s \o (<<item>> \o rest) = Append(s, item) \o rest
    <3>1. s \in Seq(Names) /\ <<item>> \in Seq(Names)
      OBVIOUS
    <3>2. s \o (<<item>> \o rest) = (s \o <<item>>) \o rest
      BY <2>1, <3>1, ConcatAssociative
    <3>3. s \o <<item>> = Append(s, item)
      BY AppendIsConcat
    <3> QED  BY <3>2, <3>3
  <2> QED  BY <1>2, <2>1, <2>2, <2>3 DEF Onto
<1> QED  BY <1>1, <1>2

LEMMA TurnKeeps ==
    ASSUME tokens \in Seq(Classes), current \in Positions, items \in Seq(Names),
           NEW limit \in Nat, CollectorOK(collector, limit),
           SoFar(items, current, collector), ParseItem
    PROVE  /\ tokens' = tokens /\ parsing' = parsing
           /\ current' \in Positions /\ current' > current
           /\ items' \in Seq(Names) /\ CollectorOK(collector', limit)
           /\ \/ items' = items
              \/ \E i \in current..current' - 1 : i <= Len(tokens) /\ items' = Append(items, Token(i))
           /\ SoFar(items', current', collector')
<1> DEFINE N == Len(tokens)
           p == PastSemicolons(current)
           a == Attributes(p)
           c1 == IF a.ok THEN collector ELSE Report(collector, "error")
           item == ParseItemAt(a.at)
<1>0. N \in Nat /\ current \in 1..N + 1
  BY DEF Positions
<1>1. /\ p <= N /\ ~ShouldStop(collector)
      /\ current' = IF item.ok THEN item.at ELSE Synchronize(item.at)
      /\ items' = IF item.ok THEN Append(items, Token(a.at)) ELSE items
      /\ collector' = IF item.ok THEN c1 ELSE Report(c1, "error")
      /\ tokens' = tokens /\ parsing' = parsing
  BY DEF ParseItem
<1>2. p \in current..N + 1 /\ Token(p) # "semicolon" /\ R(p) = R(current)
  BY PastSemicolonsIs
<1>3. p \in Positions /\ Token(p) # "eof"
  BY <1>0, <1>1, <1>2, TokenIs DEF Positions
<1>4. AttributesOK(a, p)
  BY <1>3, AttributesAre
<1> HIDE DEF p, a
<1>5. a.at \in p..N + 1 /\ a.at \in Positions /\ a.ok \in BOOLEAN
  BY <1>0, <1>2, <1>3, <1>4 DEF AttributesOK, Positions
<1>6. /\ item.at \in a.at..N + 1 /\ item.ok \in BOOLEAN
      /\ item.ok => /\ item.at > a.at /\ Token(a.at) \in Names
                    /\ R(a.at) = Within(Token(a.at), R(item.at))
      /\ ~item.ok /\ Token(a.at) \notin {"eof", "semicolon", "hash"} => R(a.at) = Broken
  BY <1>5, ItemIs
<1>7. item.at \in Positions
  BY <1>0, <1>5, <1>6 DEF Positions
<1>8. /\ CollectorOK(c1, limit)
      /\ a.ok = TRUE => c1 = collector
      /\ a.ok = FALSE => HasErrors(c1)
      /\ HasErrors(collector) => HasErrors(c1)
  BY <1>1, <1>5, ReportOK
<1> HIDE DEF c1, item
<1>9. R(current) = Broken => R(1) = Broken
  BY DEF SoFar, Onto
<1>10. a.ok = FALSE => R(current) = Broken
  BY <1>2, <1>4 DEF AttributesOK
<1>11. CASE item.ok
  <2>1. Token(a.at) \notin {"eof", "semicolon"} /\ Token(a.at) \in Names
    BY <1>6, <1>11 DEF Names, Keywords
  <2>2. current' = item.at /\ items' = Append(items, Token(a.at)) /\ collector' = c1
    BY <1>1, <1>11
  <2>3. current' > current
    BY <1>0, <1>2, <1>5, <1>6, <1>11, <2>2
  <2>4. items' \in Seq(Names)
    BY <2>1, <2>2
  <2>5. SoFar(items', current', collector')
    <3>1. CASE HasErrors(c1)
      <4>1. R(1) = Broken
        BY <1>5, <1>8, <1>9, <1>10, <3>1 DEF SoFar
      <4> QED  BY <1>1, <2>2, <3>1, <4>1 DEF SoFar, R
    <3>2. CASE ~HasErrors(c1)
      <4>1. a.ok = TRUE /\ ~HasErrors(collector)
        BY <1>5, <1>8, <3>2
      <4>2. R(current) = Within(Token(a.at), R(item.at))
        BY <1>2, <1>4, <1>6, <1>11, <2>1, <4>1 DEF AttributesOK
      <4>3. R(item.at) \in Readings
        BY <1>7, ReadingOf
      <4>4. Onto(items, R(current)) = Onto(items', R(item.at))
        BY <2>1, <2>2, <4>2, <4>3, OntoWithin
      <4>5. R(1) = Onto(items', R(item.at))
        BY <4>1, <4>4 DEF SoFar
      <4> QED  BY <1>1, <2>2, <3>2, <4>5 DEF SoFar, R
    <3> QED  BY <3>1, <3>2
  <2>6. \E i \in current..current' - 1 : i <= N /\ items' = Append(items, Token(i))
    <3>1. a.at \in current..current' - 1 /\ a.at <= N
      BY <1>0, <1>2, <1>5, <1>6, <1>11, <2>2
    <3> QED  BY <2>2, <3>1
  <2> QED  BY <1>1, <1>7, <1>8, <2>2, <2>3, <2>4, <2>5, <2>6
<1>12. CASE ~item.ok
  <2>1. current' = Synchronize(item.at) /\ items' = items /\ collector' = Report(c1, "error")
    BY <1>1, <1>12
  <2>2. /\ Synchronize(item.at) \in item.at..N + 1
        /\ item.at <= N => Synchronize(item.at) > item.at
    BY <1>7, SynchronizeAdvances
  <2>3. current' \in Positions /\ current' > current
    BY <1>0, <1>1, <1>2, <1>5, <1>6, <2>1, <2>2 DEF Positions
  <2>4. CollectorOK(collector', limit)
    BY <1>8, <2>1, ReportOK
  <2>5. HasErrors(collector')
    <3>1. HasErrors(c1) \/ ~ShouldStop(c1)
      BY <1>1, <1>5, <1>8
    <3> QED  BY <1>8, <2>1, <3>1, ReportOK
  <2>6. R(1) = Broken
    <3>1. CASE HasErrors(collector) \/ a.ok = FALSE
      BY <1>9, <1>10, <3>1 DEF SoFar
    <3>2. CASE a.ok = TRUE
      <4>1. Token(a.at) \in {"eof", "semicolon"} => R(p) = Broken
        BY <1>2, <1>3, <1>4, <3>2 DEF AttributesOK
      <4>2. Token(a.at) \notin {"eof", "semicolon"} => R(p) = R(a.at) /\ R(a.at) = Broken
        BY <1>4, <1>6, <1>12, <3>2 DEF AttributesOK
      <4> QED  BY <1>2, <1>9, <4>1, <4>2
    <3> QED  BY <1>5, <3>1, <3>2
  <2>7. SoFar(items', current', collector')
    BY <1>1, <2>5, <2>6 DEF SoFar, R
  <2> QED  BY <1>1, <2>1, <2>3, <2>4, <2>7
<1> QED  BY <1>11, <1>12

(* The end of the loop: where the collector has room, what was parsed without an
   error is the whole source. *)
LEMMA EndReadsAll ==
    ASSUME tokens \in Seq(Classes), current \in Positions, items \in Seq(Names),
           NEW limit \in Nat, limit > 0, CollectorOK(collector, limit),
           SoFar(items, current, collector), EndParse
    PROVE  R(1) = IF HasErrors(collector) THEN Broken ELSE items
<1> DEFINE p == PastSemicolons(current)
<1>1. CASE HasErrors(collector)
  BY <1>1 DEF SoFar
<1>2. CASE ~HasErrors(collector)
  <2>1. ~ShouldStop(collector)
    BY <1>2, ErrorsOf
  <2>2. p > Len(tokens)
    BY <2>1 DEF EndParse
  <2>3. p \in current..Len(tokens) + 1 /\ R(p) = R(current)
    BY PastSemicolonsIs
  <2> HIDE DEF p
  <2>4. p \in Positions /\ p \in Nat \ {0}
    BY <2>3 DEF Positions
  <2>5. Token(p) = "eof"
    BY <2>2, <2>4, TokenIs
  <2>6. R(current) = <<>>
    BY <2>3, <2>4, <2>5, ReadingOf
  <2>7. <<>> # Broken
    BY DEF Broken
  <2>8. Onto(items, <<>>) = items
    BY <2>7 DEF Onto
  <2> QED  BY <1>2, <2>6, <2>8 DEF SoFar
<1> QED  BY <1>1, <1>2


-----------------------------------------------------------------------------
(* Names and files. *)

LEMMA CountTyped ==
    ASSUME NEW S, NEW names \in Seq(S), NEW name
    PROVE  Count(names, name) \in Nat
<1>1. DOMAIN names = 1..Len(names) /\ Len(names) \in Nat
  OBVIOUS
<1>2. IsFiniteSet(1..Len(names))
  BY <1>1, FS_Interval
<1>3. IsFiniteSet({i \in DOMAIN names : names[i] = name})
  BY <1>1, <1>2, FS_Subset
<1> QED  BY <1>3, FS_CardinalityType DEF Count

(* The formats of a list of words are words or names of formats. *)
Words == STRING \cup ExportFormats
LEMMA FormatsTyped ==
    ASSUME NEW asked \in Seq(STRING)
    PROVE  FormatsOf(asked) \in Seq(Words)
<1> DEFINE n == Cardinality(NamedBefore(asked))
           named == [i \in 1..n |-> FormatOf(asked[i])]
<1>1. DOMAIN asked = 1..Len(asked) /\ Len(asked) \in Nat
  OBVIOUS
<1>2. IsFiniteSet(1..Len(asked)) /\ Cardinality(1..Len(asked)) = Len(asked)
  BY <1>1, FS_Interval
<1>3. NamedBefore(asked) \subseteq 1..Len(asked)
  BY <1>1 DEF NamedBefore
<1>4. IsFiniteSet(NamedBefore(asked)) /\ n <= Len(asked)
  BY <1>2, <1>3, FS_Subset
<1>5. n \in Nat
  BY <1>4, FS_CardinalityType
<1>6. ASSUME NEW i \in 1..n PROVE FormatOf(asked[i]) \in Words
  <2>1. asked[i] \in STRING
    BY <1>1, <1>4, <1>5
  <2>2. /\ DOMAIN Alias = {"spice", "sp", "drill"}
        /\ Alias["spice"] = "netlist" /\ Alias["sp"] = "netlist" /\ Alias["drill"] = "excellon"
    BY DEF Alias
  <2>3. ASSUME NEW word \in DOMAIN Alias PROVE Alias[word] \in ExportFormats
    BY <2>2 DEF ExportFormats
  <2> QED  BY <2>1, <2>3 DEF FormatOf, Words
<1>7. named \in Seq(Words)
  BY <1>5, <1>6
<1>8. ProfessionalThree \in Seq(Words)
  <2>1. "glb" \in Words /\ "dxf" \in Words /\ "netlist" \in Words
    BY DEF Words, ExportFormats
  <2>2. ASSUME NEW S, NEW a \in S, NEW b \in S, NEW c \in S
        PROVE  <<a, b, c>> \in Seq(S)
    OBVIOUS
  <2> QED  BY <2>1, <2>2, Zenon DEF ProfessionalThree
<1>9. FormatsOf(asked) \in {named \o ProfessionalThree, named}
  BY DEF FormatsOf
<1>10. ASSUME NEW S, NEW s \in Seq(S), NEW t \in Seq(S) PROVE s \o t \in Seq(S)
  OBVIOUS
<1>11. named \o ProfessionalThree \in Seq(Words)
  BY <1>7, <1>8, <1>10, Zenon
<1> QED  BY <1>7, <1>9, <1>11, Zenon

FilesUpTo(k) == {Wanted[i] : i \in 1..k}

LEMMA WantedTyped ==
    ASSUME FormatsOf(job.asked) \in Seq(Words)
    PROVE  /\ Len(Wanted) \in Nat /\ DOMAIN Wanted = 1..Len(Wanted)
           /\ {"bom", "excellon"} \subseteq FilesUpTo(Len(Wanted))
<1> DEFINE asked == FormatsOf(job.asked)
           half == asked \o Unasked("bom")
<1>0. ASSUME NEW S, NEW format \in S
      PROVE  Unasked(format) \in Seq(S)
  <2>1. <<format>> \in Seq(S) /\ <<>> \in Seq(S)
    OBVIOUS
  <2> QED  BY <2>1 DEF Unasked
<1>1. asked \in Seq(Words)
  OBVIOUS
<1>10. /\ Unasked("bom") \in Seq(Words) /\ Unasked("excellon") \in Seq(Words)
       /\ half \in Seq(Words)
  <2>1. "bom" \in Words /\ "excellon" \in Words
    BY DEF Words, ExportFormats
  <2>2. Unasked("bom") \in Seq(Words) /\ Unasked("excellon") \in Seq(Words)
    BY <1>0, <2>1
  <2> QED  BY <1>1, <2>2
<1>2. Wanted = half \o Unasked("excellon")
  BY DEF Wanted
<1>3. Wanted \in Seq(Words) /\ Len(Wanted) = Len(half) + Len(Unasked("excellon"))
  BY <1>10, <1>2
<1>4. Len(Wanted) \in Nat /\ DOMAIN Wanted = 1..Len(Wanted)
  BY <1>3
<1>5. ASSUME NEW i \in 1..Len(half)
      PROVE  i \in 1..Len(Wanted) /\ Wanted[i] = half[i]
  BY <1>10, <1>2, <1>3
<1>6. ASSUME NEW i \in 1..Len(asked)
      PROVE  i \in 1..Len(half) /\ half[i] = asked[i]
  BY <1>1, <1>10
<1>7. \E i \in 1..Len(half) : half[i] = "bom"
  <2>1. CASE \E i \in 1..Len(asked) : asked[i] = "bom"
    BY <1>6, <2>1
  <2>2. CASE ~ \E i \in 1..Len(asked) : asked[i] = "bom"
    <3>1. Unasked("bom") = <<"bom">>
      BY <2>2 DEF Unasked, Contains
    <3>2. half = asked \o <<"bom">>
      BY <3>1
    <3>3. ASSUME NEW h, h = asked \o <<"bom">>
          PROVE  Len(h) = Len(asked) + 1 /\ h[Len(asked) + 1] = "bom" /\ Len(asked) \in Nat
      BY <3>3
    <3>4. Len(half) = Len(asked) + 1 /\ half[Len(asked) + 1] = "bom" /\ Len(asked) \in Nat
      BY ONLY <3>2, <3>3
    <3> QED  BY <3>4
  <2> QED  BY <2>1, <2>2
<1>8. \E i \in 1..Len(Wanted) : Wanted[i] = "bom"
  BY <1>5, <1>7
<1>9. \E i \in 1..Len(Wanted) : Wanted[i] = "excellon"
  <2>1. CASE \E i \in 1..Len(asked) : asked[i] = "excellon"
    BY <1>5, <1>6, <2>1
  <2>2. CASE ~ \E i \in 1..Len(asked) : asked[i] = "excellon"
    <3>1. Unasked("excellon") = <<"excellon">>
      BY <2>2 DEF Unasked, Contains
    <3>2. Wanted = half \o <<"excellon">>
      BY ONLY <1>2, <3>1
    <3>3. Len(Wanted) = Len(half) + 1 /\ Wanted[Len(half) + 1] = "excellon"
      <4> HIDE DEF half
      <4> QED  BY <1>10, <3>2
    <3> QED  BY <1>4, <3>3
  <2> QED  BY <2>1, <2>2
<1> QED  BY <1>3, <1>4, <1>8, <1>9 DEF FilesUpTo

(* What has been written: all files of some spaces, and some of the current one. *)
LEMMA FilesWhole ==
    ASSUME FormatsOf(job.asked) \in Seq(Words), NEW S, NEW k \in Nat,
           exported = (S \X FilesUpTo(Len(Wanted))) \cup ({cur} \X FilesUpTo(k))
    PROVE  \A s : s # cur \/ k = 0 => FilesOf(s) = IF s \in S THEN AllFiles(s) ELSE {}
<1> DEFINE N == Len(Wanted)
           All == FilesUpTo(N)
           Some == FilesUpTo(k)
<1>1. {"bom", "excellon"} \subseteq All /\ DOMAIN Wanted = 1..N
  BY WantedTyped
<1>2. All = {Wanted[i] : i \in 1..N}
  BY DEF FilesUpTo
<1>3. k = 0 => Some = {}
  BY DEF FilesUpTo
<1>4. exported = (S \X All) \cup ({cur} \X Some)
  OBVIOUS
<1> HIDE DEF N, All, Some
<1>5. \A s : AllFiles(s) = {s} \X All
  <2> TAKE s
  <2>1. {<<s, Wanted[i]>> : i \in DOMAIN Wanted} = {s} \X All
    BY <1>1, <1>2
  <2>2. {<<s, "bom">>, <<s, "excellon">>} \subseteq {s} \X All
    BY <1>1
  <2> QED  BY <2>1, <2>2 DEF AllFiles
<1>6. ASSUME NEW s, s \in S, s # cur \/ k = 0
      PROVE  FilesOf(s) = {s} \X All
  BY <1>3, <1>4, <1>6 DEF FilesOf
<1>7. ASSUME NEW s, s \notin S, s # cur \/ k = 0
      PROVE  FilesOf(s) = {}
  BY <1>3, <1>4, <1>7 DEF FilesOf
<1> QED  BY <1>5, <1>6, <1>7


-----------------------------------------------------------------------------
(* The inductive invariant, in five parts. *)

Early == {"source", "parse", "imports", "register", "lower"}
Late == {"spaces", "validate", "gate", "export"}
Busy == {"validate", "gate", "export"}

Typed ==
    /\ \E kind \in DOMAIN Jobs : job \in Jobs[kind]
    /\ tokens = job.source
    /\ phase \in Phases /\ outcome \in {"running", "ok", "failed"}
    /\ phase = "done" <=> outcome # "running"
    /\ current \in Positions /\ items \in Seq(Names) /\ parsing \in BOOLEAN
    /\ CollectorOK(collector, job.limit)
    /\ at \in Nat /\ todo \subseteq Spaces /\ cur \in Spaces \cup {NoSpace} /\ saved \subseteq Spaces
    /\ parsing = TRUE => phase = "parse"
    /\ phase \in Busy => cur \in Spaces
    /\ phase \in Early => todo = {} /\ cur = NoSpace /\ saved = {} /\ exported = {}

(* The parser's items and errors account for the source. *)
ReadRight ==
    /\ phase = "source" \/ parsing = TRUE => SoFar(items, current, collector)
    /\ phase = "parse" /\ parsing = FALSE /\ job.limit > 0 =>
         R(1) = IF HasErrors(collector) THEN Broken ELSE items
    /\ phase \in {"imports", "register", "lower"} \cup Late /\ job.limit > 0 => R(1) = items

(* The errors collected are those of the phase, and no phase is left with one. *)
Unresolved(k) == \E i \in 1..k : i \in job.unresolved
FrontRight ==
    /\ phase \in {"source", "parse"} => at = 0
    /\ phase \in {"parse", "imports", "register", "lower"} \cup Late => CanStart(job)
    /\ phase \in {"imports", "register", "lower"} \cup Late => job.command = "build"
    /\ phase = "imports" =>
         at <= Imports /\ (job.limit > 0 => (HasErrors(collector) <=> Unresolved(at)))
    /\ phase \in {"register", "lower"} \cup Late /\ job.limit > 0 => ~Unresolved(Imports)
    /\ phase = "register" =>
         at <= job.duplicates /\ (job.limit > 0 => (HasErrors(collector) <=> at > 0))
    /\ phase \in {"lower"} \cup Late /\ job.limit > 0 => job.duplicates = 0
    /\ phase \in Late => job.evaluates /\ (job.only = NoSpace \/ Selected # {})

(* A space that is let through, as the job tells it. *)
RulesOK(s) == job.skipDrc \/ ~job.spaces[s].constrained \/ job.spaces[s].clean
PassesIn(s, islands) == FailingNets(job.spaces[s].metal, islands) = {}
Orders(s) == IslandOrders(RawIslands(job.spaces[s].metal))
SomeOrder(s) == job.skipContinuity \/ \E islands \in Orders(s) : PassesIn(s, islands)
EveryOrder(s) == job.skipContinuity \/ \A islands \in Orders(s) : PassesIn(s, islands)
Begun(s) ==
    (job.spaces[s].implements => job.spaces[s].extracts) /\ <<s, "dir">> \notin job.unwritable
LetThrough(s) == job.spaces[s].implements => job.force \/ (RulesOK(s) /\ SomeOrder(s))
Writable(s, k) == \A i \in 1..k : <<s, Wanted[i]>> \notin job.unwritable
SpacePassed(s) ==
    Begun(s) /\ LetThrough(s) /\ (job.verifyOnly \/ Writable(s, Len(Wanted)))

GateTells ==
    /\ job.spaces[cur].implements /\ violations = {} => RulesOK(cur) /\ SomeOrder(cur)
    /\ job.spaces[cur].implements /\ violations # {} => ~(RulesOK(cur) /\ EveryOrder(cur))

Finished == (Selected \ todo) \ (IF phase \in Busy THEN {cur} ELSE {})
Kept == IF job.verifyOnly THEN {} ELSE Finished
Partly == IF phase = "export" THEN at ELSE 0
Written(S, s, k) == (S \X FilesUpTo(Len(Wanted))) \cup ({s} \X FilesUpTo(k))

SpacesRight ==
    /\ phase \in Late => todo \subseteq Selected
    /\ phase \in Busy => cur \in Selected /\ cur \notin todo /\ Begun(cur)
    /\ saved \cap todo = {}
    /\ phase \in {"validate", "gate"} => cur \notin saved
    /\ \A s \in saved : s = cur /\ violations # {} => job.force
    /\ phase \in Late => \A s \in Finished : SpacePassed(s)
    /\ phase = "gate" => GateTells
    /\ phase = "export" =>
         ~job.verifyOnly /\ at <= Len(Wanted) /\ LetThrough(cur) /\ Writable(cur, at)
    /\ phase \in Late => exported = Written(Kept, cur, Partly)

(* What is left when the command ends. *)
FileLetThrough(s) ==
    /\ LetThrough(s)
    /\ job.limit > 0 => WellFormed(job.source) /\ job.duplicates = 0
    /\ ~job.verifyOnly /\ job.only \in {NoSpace, s}
WholeExcept(s) == \A t \in Spaces : t # s => FilesOf(t) \in {{}, AllFiles(t)}
SoundSome ==
    /\ CanStart(job) /\ WellFormed(job.source)
    /\ job.command = "build" =>
         LET names == ItemsFrom(job.source) IN
         /\ \A i \in job.unresolved : i > Count(names, "import")
         /\ job.duplicates = 0 /\ job.evaluates
         /\ \A s \in 1..Count(names, "space") : job.only \in {NoSpace, s} => SpacePassed(s)
DoneRight ==
    /\ phase = "done" => WholeExcept(cur) /\ \A file \in exported : FileLetThrough(file[1])
    /\ phase = "done" /\ outcome = "ok" /\ job.command = "build" /\ ~job.verifyOnly =>
         \A s \in Selected : FilesOf(s) = AllFiles(s)
    /\ phase = "done" /\ job.limit > 0 =>
         (outcome = "ok" => SoundSome) /\ (outcome = "failed" => ~Sound)

IInv == Typed /\ ReadRight /\ FrontRight /\ SpacesRight /\ DoneRight

LEMMA JobIs ==
    ASSUME Typed
    PROVE  /\ job.command \in {"build", "check"} /\ tokens \in Seq(Classes)
           /\ job.unresolved \subseteq Nat \ {0} /\ job.duplicates \in Nat /\ job.limit \in Nat
           /\ FormatsOf(job.asked) \in Seq(Words) /\ job.only \in Nat
           /\ \A names \in {job.source, ItemsFrom(job.source)} :
                 1..Count(names, "space") \subseteq DOMAIN job.spaces
           /\ \A s \in DOMAIN job.spaces : IsMetal(job.spaces[s].metal)
           /\ Imports \in Nat /\ Count(items, "space") \in Nat
           /\ NoSpace \notin Spaces
<1>1. Imports \in Nat /\ Count(items, "space") \in Nat
  BY CountTyped DEF Typed, Imports
<1>2. NoSpace \notin Spaces
  BY <1>1 DEF Spaces, NoSpace
<1>3. PICK kind \in DOMAIN Jobs : job \in Jobs[kind]
  BY DEF Typed
<1>4. job.asked \in Seq(STRING)
  BY <1>3, JobsTyped
<1>5. FormatsOf(job.asked) \in Seq(Words)
  BY <1>4, FormatsTyped
<1> QED  BY <1>1, <1>2, <1>3, <1>5, JobsTyped DEF Typed

LEMMA TypedStart == Init => Typed
<1> SUFFICES ASSUME Init PROVE Typed
  OBVIOUS
<1>1. PICK kind \in DOMAIN Jobs : job \in Jobs[kind]
  BY DEF Init
<1>2. job.limit \in Nat /\ job.source \in Seq(Classes)
  BY <1>1, JobsTyped
<1>3. CollectorOK(collector, job.limit)
  BY <1>2, EmptyCollector DEF Init
<1>4. tokens = job.source /\ current = 1 /\ items = <<>> /\ parsing = FALSE
      /\ phase = "source" /\ at = 0 /\ todo = {} /\ cur = NoSpace /\ saved = {} /\ exported = {}
      /\ outcome = "running"
  BY DEF Init
<1>5. current \in Positions
  BY <1>2, <1>4 DEF Positions
<1>6. items \in Seq(Names)
  BY <1>4
<1>7. phase \in Phases /\ phase \notin Busy
  BY <1>4 DEF Phases, Busy
<1> QED  BY <1>1, <1>3, <1>4, <1>5, <1>6, <1>7 DEF Typed

LEMMA ReadTurn ==
    ASSUME Typed, ReadRight, ParseItem
    PROVE  /\ tokens' = tokens /\ parsing' = parsing /\ parsing = TRUE
           /\ current' \in Positions /\ current' > current
           /\ items' \in Seq(Names) /\ CollectorOK(collector', job.limit)
           /\ \/ items' = items
              \/ \E i \in current..current' - 1 : i <= Len(tokens) /\ items' = Append(items, Token(i))
           /\ SoFar(items', current', collector')
<1>1. parsing = TRUE
  BY DEF ParseItem, Typed
<1>2. SoFar(items, current, collector)
  BY <1>1 DEF ReadRight
<1>3. tokens \in Seq(Classes) /\ job.limit \in Nat
  BY JobIs
<1>4. current \in Positions /\ items \in Seq(Names) /\ CollectorOK(collector, job.limit)
  BY DEF Typed
<1> QED  BY <1>1, <1>2, <1>3, <1>4, TurnKeeps

LEMMA TypedStep == ASSUME Typed, ReadRight, [Next]_vars PROVE Typed'
<1>0. /\ Imports \in Nat /\ job.duplicates \in Nat /\ job.limit \in Nat
      /\ Spaces = 1..Count(items, "space")
  BY JobIs DEF Spaces
<1>1. ASSUME ReadSource PROVE Typed'
  BY <1>1 DEF ReadSource, Typed, Fail, GoTo, Phases, Early, Busy, Positions, Spaces
<1>2. ASSUME ParseSource PROVE Typed'
  <2>1. /\ phase = "parse" /\ phase' = phase /\ job' = job /\ at' = at /\ todo' = todo /\ cur' = cur
        /\ saved' = saved /\ exported' = exported /\ outcome' = outcome
    BY <1>2 DEF ParseSource, buildVars
  <2>2. todo = {} /\ cur = NoSpace /\ saved = {} /\ exported = {}
    BY <2>1 DEF Typed, Early
  <2>3. /\ current' \in 1..Len(tokens) + 1 /\ items' \in Seq(Names)
        /\ CollectorOK(collector', job.limit) /\ tokens' = tokens /\ parsing' \in BOOLEAN
    <3>1. CASE ParseItem
      BY <3>1, ReadTurn DEF Positions
    <3>2. CASE EndParse
      BY <3>2 DEF EndParse, Typed, Positions
    <3> QED  BY <1>2, <3>1, <3>2 DEF ParseSource, Parse
  <2> QED  BY <2>1, <2>2, <2>3 DEF Typed, Positions, Busy
<1>3. ASSUME EndSyntax PROVE Typed'
  BY <1>3 DEF EndSyntax, Typed, Fail, Succeed, GoTo, Phases, Early, Busy, Positions, Spaces, parserVars
<1>4. ASSUME ResolveImport PROVE Typed'
  <2>1. CollectorOK(collector', job.limit)
    BY <1>0, <1>4, ReportOK DEF ResolveImport, Typed
  <2>2. at' \in Nat
    BY <1>4 DEF ResolveImport, Typed
  <2> QED  BY <1>4, <2>1, <2>2 DEF ResolveImport, Typed, Phases, Early, Busy, Positions, Spaces
<1>5. ASSUME EndImports PROVE Typed'
  BY <1>5 DEF EndImports, Typed, Fail, GoTo, Phases, Early, Busy, Positions, Spaces, parserVars
<1>6. ASSUME Register PROVE Typed'
  <2>1. CollectorOK(collector', job.limit)
    BY <1>0, <1>6, ReportOK DEF Register, Typed
  <2>2. at' \in Nat
    BY <1>6 DEF Register, Typed
  <2> QED  BY <1>6, <2>1, <2>2 DEF Register, Typed, Phases, Early, Busy, Positions, Spaces
<1>7. ASSUME EndRegistration PROVE Typed'
  BY <1>7 DEF EndRegistration, Typed, Fail, GoTo, Phases, Early, Busy, Positions, Spaces, parserVars
<1>8. ASSUME LowerSpaces PROVE Typed'
  <2>1. Selected \subseteq Spaces
    BY DEF Selected
  <2> QED  BY <1>8, <2>1 DEF LowerSpaces, Typed, Fail, Succeed, GoTo, Phases, Early, Busy, Positions, Spaces, parserVars
<1>9. ASSUME Align PROVE Typed'
  BY <1>9 DEF Align, Typed, Fail, GoTo, Phases, Early, Busy, Positions, Spaces, parserVars
<1>10. ASSUME Validate PROVE Typed'
  BY <1>10 DEF Validate, Typed, GoTo, Phases, Early, Busy, Positions, Spaces, parserVars
<1>11. ASSUME Gate PROVE Typed'
  <2>1. cur \in Spaces
    BY <1>11 DEF Gate, Typed, Busy
  <2> QED  BY <1>11, <2>1 DEF Gate, Typed, Fail, GoTo, Phases, Early, Busy, Positions, Spaces, parserVars
<1>12. ASSUME Export PROVE Typed'
  BY <1>12 DEF Export, Typed, Fail, GoTo, Phases, Early, Busy, Positions, Spaces, parserVars
<1>13. ASSUME EndSpace PROVE Typed'
  BY <1>13 DEF EndSpace, Typed, GoTo, Phases, Early, Busy, Positions, Spaces, parserVars
<1>14. ASSUME Finish PROVE Typed'
  BY <1>14 DEF Finish, Typed, Succeed, Phases, Early, Busy, Positions, Spaces, parserVars
<1>15. ASSUME UNCHANGED vars PROVE Typed'
  BY <1>15 DEF vars, parserVars, buildVars, Typed, Positions, Spaces
<1> QED  BY <1>1, <1>2, <1>3, <1>4, <1>5, <1>6, <1>7, <1>8, <1>9, <1>10, <1>11, <1>12, <1>13,
            <1>14, <1>15 DEF Next, Compile, BuildSpaces


LEMMA ReadStart == ASSUME Init PROVE ReadRight
<1>1. Typed
  BY TypedStart
<1>2. tokens \in Seq(Classes) /\ job.limit \in Nat
  BY <1>1, JobIs
<1>3. items = <<>> /\ current = 1 /\ parsing = FALSE /\ collector = Collector(job.limit)
      /\ phase = "source"
  BY DEF Init
<1>4. ~HasErrors(collector)
  BY <1>2, <1>3, EmptyCollector
<1>5. R(1) \in Readings
  BY <1>2, ReadingOf DEF Positions
<1>6. Onto(<<>>, R(1)) = R(1)
  BY <1>5 DEF Onto, Readings
<1>7. SoFar(items, current, collector)
  BY <1>3, <1>4, <1>6 DEF SoFar
<1> QED  BY <1>3, <1>7 DEF ReadRight, Late

LEMMA ReadStep == ASSUME Typed, ReadRight, [Next]_vars PROVE ReadRight'
<1>0. tokens \in Seq(Classes) /\ job.limit \in Nat
  BY JobIs
<1>1. ASSUME tokens' = tokens, items' = items, current' = current, collector' = collector
      PROVE  /\ SoFar(items, current, collector)' <=> SoFar(items, current, collector)
             /\ R(1)' = R(1)
             /\ HasErrors(collector)' <=> HasErrors(collector)
  BY <1>1 DEF SoFar, R
<1>2. ASSUME tokens' = tokens PROVE R(1)' = R(1)
  BY <1>2 DEF R
<1>3. ASSUME ReadSource PROVE ReadRight'
  <2>1. /\ phase = "source" /\ phase' # "source" /\ phase' \in {"parse", "done"}
        /\ parsing' = TRUE => phase' = "parse"
        /\ parsing' = FALSE => phase' = "done"
        /\ parsing' \in BOOLEAN
        /\ tokens' = tokens /\ items' = items /\ current' = current /\ collector' = collector
    BY <1>3 DEF ReadSource, Fail, GoTo
  <2>2. SoFar(items, current, collector)'
    BY <1>1, <2>1 DEF ReadRight
  <2> QED  BY <2>1, <2>2 DEF ReadRight, Late
<1>4. ASSUME ParseSource PROVE ReadRight'
  <2>1. phase = "parse" /\ phase' = phase /\ job' = job
    BY <1>4 DEF ParseSource, buildVars
  <2>2. CASE ParseItem
    <3>1. tokens' = tokens /\ parsing' = TRUE /\ SoFar(items', current', collector')
      BY <2>2, ReadTurn
    <3>2. SoFar(items, current, collector)'
      BY <3>1 DEF SoFar, R
    <3> QED  BY <2>1, <3>1, <3>2 DEF ReadRight, Late
  <2>3. CASE EndParse
    <3>1. /\ parsing = TRUE /\ parsing' = FALSE
          /\ tokens' = tokens /\ items' = items /\ current' = current /\ collector' = collector
      BY <2>3 DEF EndParse, Typed
    <3>2. job.limit > 0 => R(1) = IF HasErrors(collector) THEN Broken ELSE items
      <4>1. SoFar(items, current, collector)
        BY <3>1 DEF ReadRight
      <4>2. current \in Positions /\ items \in Seq(Names) /\ CollectorOK(collector, job.limit)
        BY DEF Typed
      <4> QED  BY <1>0, <2>3, <4>1, <4>2, EndReadsAll
    <3>3. job'.limit > 0 => R(1)' = IF HasErrors(collector)' THEN Broken ELSE items'
      BY <1>1, <2>1, <3>1, <3>2
    <3> QED  BY <2>1, <3>1, <3>3 DEF ReadRight, Late
  <2> QED  BY <1>4, <2>2, <2>3 DEF ParseSource, Parse
<1>5. ASSUME EndSyntax PROVE ReadRight'
  <2>1. /\ phase = "parse" /\ parsing = FALSE /\ parsing' = FALSE /\ job' = job
        /\ phase' \in {"imports", "done"}
        /\ HasErrors(collector) => phase' = "done"
        /\ tokens' = tokens /\ items' = items
    BY <1>5 DEF EndSyntax, Typed, Fail, Succeed, GoTo, parserVars
  <2>2. job.limit > 0 => R(1) = IF HasErrors(collector) THEN Broken ELSE items
    BY <2>1 DEF ReadRight
  <2> QED  BY <1>2, <2>1, <2>2 DEF ReadRight, Late
<1>6. ASSUME \/ ResolveImport \/ EndImports \/ Register \/ EndRegistration \/ LowerSpaces
             \/ BuildSpaces
      PROVE  ReadRight'
  <2>1. /\ phase \in {"imports", "register", "lower"} \cup Late
        /\ phase' \in {"imports", "register", "lower", "done"} \cup Late
        /\ parsing' = parsing /\ job' = job /\ tokens' = tokens /\ items' = items
    BY <1>6 DEF ResolveImport, EndImports, Register, EndRegistration, LowerSpaces, BuildSpaces,
         Align, Validate, Gate, Export, EndSpace, Finish, Fail, Succeed, GoTo, Late, parserVars
  <2>2. parsing = FALSE
    BY <2>1 DEF Typed, Late
  <2>3. job.limit > 0 => R(1) = items
    BY <2>1 DEF ReadRight
  <2> QED  BY <1>2, <2>1, <2>2, <2>3 DEF ReadRight, Late
<1>7. ASSUME UNCHANGED vars PROVE ReadRight'
  <2>1. /\ tokens' = tokens /\ items' = items /\ current' = current /\ collector' = collector
        /\ parsing' = parsing /\ phase' = phase /\ job' = job
    BY <1>7 DEF vars, parserVars, buildVars
  <2> QED  BY <1>1, <2>1 DEF ReadRight
<1> QED  BY <1>3, <1>4, <1>5, <1>6, <1>7 DEF Next, Compile

(* What the reports of a loop say of what it has passed. *)
LEMMA FrontStep == ASSUME Typed, FrontRight, [Next]_vars PROVE FrontRight'
<1>0. /\ Imports \in Nat /\ job.duplicates \in Nat /\ job.limit \in Nat /\ at \in Nat
      /\ CollectorOK(collector, job.limit) /\ job.command \in {"build", "check"}
  BY JobIs DEF Typed
<1>1. ASSUME job' = job PROVE \A k : Unresolved(k)' <=> Unresolved(k)
  BY <1>1 DEF Unresolved
<1>2. ASSUME items' = items, job' = job PROVE Imports' = Imports /\ Selected' = Selected
  BY <1>2 DEF Imports, Selected, Spaces
<1>17. job.limit > 0 /\ ~HasErrors(collector) => ~ShouldStop(collector)
  BY <1>0, ErrorsOf
<1>18. /\ job.limit > 0 => HasErrors(Report(collector, "error"))
       /\ HasErrors(collector) => HasErrors(Report(collector, "error"))
  BY <1>0, <1>17, ReportOK
<1>3. ASSUME ReadSource PROVE FrontRight'
  <2>1. phase' \in {"parse", "done"} /\ (phase' = "parse" => CanStart(job))
        /\ phase = "source" /\ job' = job /\ at' = at
    BY <1>3 DEF ReadSource, Fail, GoTo
  <2> QED  BY <2>1 DEF FrontRight, Late
<1>4. ASSUME ParseSource PROVE FrontRight'
  <2>1. phase = "parse" /\ phase' = phase /\ job' = job /\ at' = at
    BY <1>4 DEF ParseSource, buildVars
  <2> QED  BY <2>1 DEF FrontRight, Late
<1>5. ASSUME EndSyntax PROVE FrontRight'
  <2>1. /\ phase = "parse" /\ phase' \in {"imports", "done"} /\ job' = job /\ items' = items
        /\ phase' = "imports" => ~HasErrors(collector) /\ job.command # "check"
        /\ at' = at /\ collector' = collector
    BY <1>5 DEF EndSyntax, Fail, Succeed, GoTo, parserVars
  <2>2. phase' = "imports" => at' <= Imports' /\ ~HasErrors(collector') /\ ~Unresolved(at)' 
    <3>1. at = 0
      BY <2>1 DEF FrontRight
    <3> QED  BY <1>0, <1>2, <2>1, <3>1 DEF Unresolved
  <2> QED  BY <1>0, <2>1, <2>2 DEF FrontRight, Late
<1>6. ASSUME ResolveImport PROVE FrontRight'
  <2>1. /\ phase = "imports" /\ phase' = phase /\ job' = job /\ items' = items
        /\ at' = at + 1 /\ at < Imports
        /\ collector' = IF at + 1 \in job.unresolved THEN Report(collector, "error") ELSE collector
    BY <1>6 DEF ResolveImport
  <2>2. job.limit > 0 => (HasErrors(collector) <=> Unresolved(at))
    BY <2>1 DEF FrontRight
  <2>3. Unresolved(at + 1) <=> Unresolved(at) \/ at + 1 \in job.unresolved
    BY <1>0 DEF Unresolved
  <2>4. job.limit > 0 => (HasErrors(collector') <=> Unresolved(at + 1))
    BY <1>18, <2>1, <2>2, <2>3
  <2>5. Unresolved(at)' <=> Unresolved(at + 1)
    BY <2>1 DEF Unresolved
  <2> QED  BY <1>0, <1>2, <2>1, <2>4, <2>5 DEF FrontRight, Late
<1>7. ASSUME EndImports PROVE FrontRight'
  <2>1. /\ phase = "imports" /\ phase' \in {"register", "done"} /\ job' = job /\ items' = items
        /\ at = Imports /\ at' = 0 /\ collector' = collector
        /\ phase' = "register" => ~HasErrors(collector)
    BY <1>7 DEF EndImports, Fail, GoTo, parserVars
  <2>2. job.limit > 0 /\ phase' = "register" => ~Unresolved(Imports)
    BY <2>1 DEF FrontRight
  <2>3. Unresolved(Imports)' <=> Unresolved(Imports)
    BY <1>2, <2>1 DEF Unresolved
  <2> QED  BY <1>0, <2>1, <2>2, <2>3 DEF FrontRight, Late
<1>8. ASSUME Register PROVE FrontRight'
  <2>1. /\ phase = "register" /\ phase' = phase /\ job' = job /\ items' = items
        /\ at < job.duplicates /\ at' = at + 1 /\ collector' = Report(collector, "error")
    BY <1>8 DEF Register
  <2>2. Unresolved(Imports)' <=> Unresolved(Imports)
    BY <1>2, <2>1 DEF Unresolved
  <2>3. at + 1 > 0 /\ at + 1 <= job.duplicates
    BY <1>0, <2>1
  <2> QED  BY <1>18, <2>1, <2>2, <2>3 DEF FrontRight, Late
<1>9. ASSUME EndRegistration PROVE FrontRight'
  <2>1. /\ phase = "register" /\ phase' \in {"lower", "done"} /\ job' = job /\ items' = items
        /\ at = job.duplicates
        /\ phase' = "lower" => ~HasErrors(collector)
    BY <1>9 DEF EndRegistration, Fail, GoTo, parserVars
  <2>2. Unresolved(Imports)' <=> Unresolved(Imports)
    BY <1>2, <2>1 DEF Unresolved
  <2>3. job.limit > 0 /\ phase' = "lower" => job.duplicates = 0
    BY <1>0, <2>1 DEF FrontRight
  <2> QED  BY <2>1, <2>2, <2>3 DEF FrontRight, Late
<1>10. ASSUME LowerSpaces PROVE FrontRight'
  <2>1. /\ phase = "lower" /\ phase' \in {"spaces", "done"} /\ job' = job /\ items' = items
        /\ phase' = "spaces" => job.evaluates /\ (job.only = NoSpace \/ Selected # {})
    BY <1>10 DEF LowerSpaces, Fail, Succeed, GoTo, parserVars
  <2>2. Unresolved(Imports)' <=> Unresolved(Imports)
    BY <1>2, <2>1 DEF Unresolved
  <2> QED  BY <1>2, <2>1, <2>2 DEF FrontRight, Late
<1>11. ASSUME BuildSpaces PROVE FrontRight'
  <2>1. phase \in Late /\ phase' \in Late \cup {"done"} /\ job' = job /\ items' = items
    BY <1>11 DEF BuildSpaces, Align, Validate, Gate, Export, EndSpace, Finish, Fail, Succeed, GoTo,
       Late, parserVars
  <2>2. Unresolved(Imports)' <=> Unresolved(Imports)
    BY <1>2, <2>1 DEF Unresolved
  <2> QED  BY <1>2, <2>1, <2>2 DEF FrontRight, Late
<1>12. ASSUME UNCHANGED vars PROVE FrontRight'
  <2>1. /\ items' = items /\ collector' = collector /\ at' = at /\ phase' = phase /\ job' = job
    BY <1>12 DEF vars, parserVars, buildVars
  <2>2. (Unresolved(Imports)' <=> Unresolved(Imports)) /\ (Unresolved(at)' <=> Unresolved(at))
    BY <1>2, <2>1 DEF Unresolved
  <2> QED  BY <1>2, <2>1, <2>2 DEF FrontRight
<1> QED  BY <1>3, <1>4, <1>5, <1>6, <1>7, <1>8, <1>9, <1>10, <1>11, <1>12 DEF Next, Compile

LEMMA FrontStart == ASSUME Init PROVE FrontRight
  BY DEF Init, FrontRight, Late


-----------------------------------------------------------------------------
(* Space by space. *)

LEMMA Frame ==
    ASSUME job' = job, items' = items
    PROVE  /\ Selected' = Selected /\ Spaces' = Spaces /\ Wanted' = Wanted
           /\ \A k : FilesUpTo(k)' = FilesUpTo(k)
           /\ \A s : Begun(s)' <=> Begun(s)
           /\ \A s : LetThrough(s)' <=> LetThrough(s)
           /\ \A s, k : Writable(s, k)' <=> Writable(s, k)
           /\ \A s : SpacePassed(s)' <=> SpacePassed(s)
<1>1. Selected' = Selected /\ Spaces' = Spaces
  BY DEF Selected, Spaces
<1>2. Wanted' = Wanted
  BY DEF Wanted, Unasked
<1>3. \A k : FilesUpTo(k)' = FilesUpTo(k)
  BY <1>2 DEF FilesUpTo
<1>4. \A s : Begun(s)' <=> Begun(s)
  BY DEF Begun
<1>5. \A s : LetThrough(s)' <=> LetThrough(s)
  BY DEF LetThrough, RulesOK, SomeOrder, PassesIn, Orders
<1>6. \A s, k : Writable(s, k)' <=> Writable(s, k)
  BY <1>2 DEF Writable
<1>7. \A s : SpacePassed(s)' <=> SpacePassed(s)
  <2>1. Len(Wanted)' = Len(Wanted) /\ job.verifyOnly' = job.verifyOnly
    BY <1>2
  <2> QED  BY <1>4, <1>5, <1>6, <2>1 DEF SpacePassed
<1> QED  BY <1>1, <1>2, <1>3, <1>4, <1>5, <1>6, <1>7

LEMMA FilesGrow ==
    ASSUME NEW k \in Nat
    PROVE  FilesUpTo(0) = {} /\ FilesUpTo(k + 1) = FilesUpTo(k) \cup {Wanted[k + 1]}
<1>1. FilesUpTo(0) = {}
  BY DEF FilesUpTo
<1>2. \A i : i \in 1..k + 1 <=> i \in 1..k \/ i = k + 1
  OBVIOUS
<1>3. FilesUpTo(k + 1) = FilesUpTo(k) \cup {Wanted[k + 1]}
  BY <1>2 DEF FilesUpTo
<1> QED  BY <1>1, <1>3

LEMMA WrittenFrame ==
    ASSUME job' = job, items' = items, NEW S, NEW s, NEW k,
           Kept' = S, cur' = s, Partly' = k
    PROVE  Written(Kept, cur, Partly)' = Written(S, s, k)
<1>1. Wanted' = Wanted
  BY Frame
<1> QED  BY <1>1 DEF Written, FilesUpTo

LEMMA LowerSpacesRight == ASSUME Typed, LowerSpaces PROVE SpacesRight'
<1>1. /\ phase = "lower" /\ phase' \in {"spaces", "done"} /\ job' = job /\ items' = items
      /\ todo' = Selected /\ saved' = saved /\ exported' = exported /\ cur' = cur
  BY DEF LowerSpaces, Fail, Succeed, GoTo, parserVars
<1>2. saved = {} /\ exported = {}
  BY <1>1 DEF Typed, Early
<1>3. Selected' = Selected
  BY <1>1, Frame
<1>4. phase' = "spaces" => Finished' = {} /\ Kept' = {} /\ Partly' = 0
  BY <1>1, <1>3 DEF Finished, Kept, Partly, Busy
<1>5. Written({}, cur, 0) = {}
  BY FilesGrow DEF Written
<1>6. phase' = "spaces" => exported' = Written(Kept, cur, Partly)'
  BY <1>1, <1>2, <1>4, <1>5, WrittenFrame
<1> QED  BY <1>1, <1>2, <1>3, <1>4, <1>6 DEF SpacesRight, Late, Busy

LEMMA AlignRight == ASSUME Typed, SpacesRight, Align PROVE SpacesRight'
<1>1. /\ phase = "spaces" /\ phase' \in {"validate", "done"} /\ job' = job /\ items' = items
      /\ saved' = saved /\ exported' = exported
      /\ cur' \in todo /\ todo' = todo \ {cur'}
      /\ phase' = "validate" => Begun(cur')
  BY DEF Align, Fail, GoTo, parserVars, Begun
<1>2. /\ todo \subseteq Selected /\ saved \cap todo = {}
      /\ \A s \in Finished : SpacePassed(s)
      /\ exported = Written(Kept, cur, Partly)
  BY <1>1 DEF SpacesRight, Late
<1>3. Selected' = Selected /\ (\A s : SpacePassed(s)' <=> SpacePassed(s))
  BY <1>1, Frame
<1>4. phase' = "validate" => Begun(cur)'
  BY <1>1 DEF Begun
<1>5. phase' = "validate" => Finished' = Finished /\ Kept' = Kept /\ Partly' = 0 /\ Partly = 0
  <2>1. phase' = "validate" => Finished' = Finished
    BY <1>1, <1>2, <1>3 DEF Finished, Busy
  <2> QED  BY <1>1, <2>1 DEF Kept, Partly
<1>6. \A S, s, t : Written(S, s, 0) = Written(S, t, 0)
  BY FilesGrow DEF Written
<1>7. phase' = "validate" => exported' = Written(Kept, cur, Partly)'
  BY <1>1, <1>2, <1>5, <1>6, WrittenFrame
<1>8. cur' \notin saved /\ cur' \in Selected' /\ cur' \notin todo' /\ todo' \subseteq Selected'
      /\ saved' \cap todo' = {}
  BY <1>1, <1>2, <1>3
<1>9. phase' = "validate" => \A s \in Finished' : SpacePassed(s)'
  BY <1>2, <1>3, <1>5
<1> QED  BY <1>1, <1>4, <1>7, <1>8, <1>9 DEF SpacesRight, Late, Busy

LEMMA ValidateRight == ASSUME Typed, SpacesRight, Validate PROVE SpacesRight'
<1>1. /\ phase = "validate" /\ phase' = "gate" /\ job' = job /\ items' = items
      /\ saved' = saved /\ exported' = exported /\ cur' = cur /\ todo' = todo
  BY DEF Validate, GoTo, parserVars
<1>2. /\ todo \subseteq Selected /\ saved \cap todo = {} /\ cur \notin saved
      /\ cur \in Selected /\ cur \notin todo /\ Begun(cur)
      /\ \A s \in Finished : SpacePassed(s)
      /\ exported = Written(Kept, cur, Partly)
  BY <1>1 DEF SpacesRight, Late, Busy
<1>3. Selected' = Selected /\ (\A s : SpacePassed(s)' <=> SpacePassed(s))
  BY <1>1, Frame
<1>4. Begun(cur)'
  BY <1>1, <1>2 DEF Begun
<1>5. Finished' = Finished /\ Kept' = Kept /\ Partly' = Partly
  <2>1. Finished' = Finished
    BY <1>1, <1>3 DEF Finished, Busy
  <2> QED  BY <1>1, <2>1 DEF Kept, Partly
<1>6. exported' = Written(Kept, cur, Partly)'
  BY <1>1, <1>2, <1>5, WrittenFrame
<1>7. GateTells'
  <2>1. PICK islands \in IslandOrders(RawIslands(Facts.metal)) :
          violations' = (IF RulesBroken THEN {<<"DRC", None>>} ELSE {})
                        \cup (IF job.skipContinuity \/ Artist THEN {}
                              ELSE {<<"P41", net>> : net \in FailingNets(Facts.metal, islands)})
    BY DEF Validate
  <2>2. islands \in Orders(cur) /\ (PassesIn(cur, islands) <=> FailingNets(Facts.metal, islands) = {})
    BY DEF Orders, PassesIn, Facts
  <2>3. Artist <=> ~job.spaces[cur].implements
    BY DEF Artist, Facts
  <2>4. RulesBroken <=> job.spaces[cur].implements /\ ~RulesOK(cur)
    BY DEF RulesBroken, Artist, Facts, RulesOK
  <2>5. ASSUME job.spaces[cur].implements, violations' = {}
        PROVE  RulesOK(cur) /\ SomeOrder(cur)
    <3>1. ~RulesBroken
      BY <2>1, <2>5
    <3>2. job.skipContinuity \/ FailingNets(Facts.metal, islands) = {}
      BY <2>1, <2>3, <2>5
    <3> QED  BY <2>2, <2>4, <2>5, <3>1, <3>2 DEF SomeOrder
  <2>6. ASSUME RulesOK(cur), EveryOrder(cur)
        PROVE  violations' = {}
    <3>1. ~RulesBroken
      BY <2>4, <2>6
    <3>2. job.skipContinuity \/ FailingNets(Facts.metal, islands) = {}
      BY <2>2, <2>6 DEF EveryOrder
    <3> QED  BY <2>1, <3>1, <3>2
  <2>7. /\ RulesOK(cur)' <=> RulesOK(cur)
        /\ SomeOrder(cur)' <=> SomeOrder(cur)
        /\ EveryOrder(cur)' <=> EveryOrder(cur)
    BY <1>1 DEF RulesOK, SomeOrder, EveryOrder, Orders, PassesIn
  <2> QED  BY <1>1, <2>5, <2>6, <2>7 DEF GateTells
<1> QED  BY <1>1, <1>2, <1>3, <1>4, <1>5, <1>6, <1>7 DEF SpacesRight, Late, Busy


LEMMA GateRight == ASSUME Typed, SpacesRight, Gate PROVE SpacesRight'
<1>1. /\ phase = "gate" /\ phase' \in {"spaces", "export", "done"} /\ job' = job /\ items' = items
      /\ exported' = exported /\ cur' = cur /\ todo' = todo /\ at' = 0
      /\ violations' = violations
      /\ saved' \subseteq saved \cup {cur}
      /\ phase' = "done" => saved' = saved
      /\ cur \in saved' => cur \in saved \/ violations = {} \/ job.force
      /\ phase' # "done" => violations = {} \/ ~job.spaces[cur].implements \/ job.force
      /\ phase' = "spaces" => job.verifyOnly
      /\ phase' = "export" => ~job.verifyOnly
  BY DEF Gate, Fail, GoTo, parserVars, Artist, Facts
<1>2. /\ todo \subseteq Selected /\ saved \cap todo = {} /\ cur \notin saved
      /\ cur \in Selected /\ cur \notin todo /\ Begun(cur)
      /\ \A s \in Finished : SpacePassed(s)
      /\ exported = Written(Kept, cur, Partly) /\ GateTells
      /\ \A s \in saved : s = cur /\ violations # {} => job.force
  BY <1>1 DEF SpacesRight, Late, Busy
<1>3. Selected' = Selected /\ (\A s : SpacePassed(s)' <=> SpacePassed(s))
  BY <1>1, Frame
<1>4. Begun(cur)'
  BY <1>1, <1>2 DEF Begun
<1>5. phase' # "done" => LetThrough(cur)
  BY <1>1, <1>2 DEF GateTells, LetThrough
<1>6. LetThrough(cur)' <=> LetThrough(cur)
  BY <1>1 DEF LetThrough, RulesOK, SomeOrder, PassesIn, Orders
<1>7. /\ phase' = "export" => Finished' = Finished
      /\ phase' = "spaces" => Finished' = Finished \cup {cur}
  BY <1>1, <1>2, <1>3 DEF Finished, Busy
<1>8. phase' # "done" => Kept' = Kept /\ Partly' = 0 /\ Partly = 0
  BY <1>1, <1>7 DEF Kept, Partly
<1>9. phase' # "done" => exported' = Written(Kept, cur, Partly)'
  BY <1>1, <1>2, <1>8, WrittenFrame
<1>10. phase' = "spaces" => SpacePassed(cur)
  BY <1>1, <1>2, <1>5 DEF SpacePassed
<1>11. phase' # "done" => \A s \in Finished' : SpacePassed(s)'
  BY <1>1, <1>2, <1>3, <1>7, <1>10
<1>12. phase' = "export" => at' <= Len(Wanted)' /\ Writable(cur, at)'
  <2>1. Len(Wanted) \in Nat
    BY JobIs, WantedTyped
  <2>2. Wanted' = Wanted
    BY <1>1, Frame
  <2>3. at' <= Len(Wanted)'
    BY <1>1, <2>1, <2>2
  <2> QED  BY <1>1, <2>3 DEF Writable
<1>13. /\ saved' \cap todo' = {}
       /\ \A s \in saved' : s = cur' /\ violations' # {} => job'.force
  BY <1>1, <1>2
<1> QED  BY <1>1, <1>2, <1>3, <1>4, <1>5, <1>6, <1>9, <1>11, <1>12, <1>13 DEF SpacesRight, Late, Busy

LEMMA ExportRight == ASSUME Typed, SpacesRight, Export PROVE SpacesRight'
<1>1. /\ phase = "export" /\ phase' \in {"export", "done"} /\ job' = job /\ items' = items
      /\ cur' = cur /\ todo' = todo /\ violations' = violations /\ saved' = saved
      /\ at < Len(Wanted)
      /\ phase' = "export" => /\ at' = at + 1
                              /\ exported' = exported \cup {<<cur, Wanted[at + 1]>>}
                              /\ <<cur, Wanted[at + 1]>> \notin job.unwritable
  BY DEF Export, Fail, GoTo, parserVars
<1>2. /\ todo \subseteq Selected /\ saved \cap todo = {}
      /\ cur \in Selected /\ cur \notin todo /\ Begun(cur)
      /\ \A s \in Finished : SpacePassed(s)
      /\ exported = Written(Kept, cur, Partly)
      /\ \A s \in saved : s = cur /\ violations # {} => job.force
      /\ ~job.verifyOnly /\ LetThrough(cur) /\ Writable(cur, at)
  BY <1>1 DEF SpacesRight, Late, Busy
<1>3. Selected' = Selected /\ Wanted' = Wanted /\ (\A s : SpacePassed(s)' <=> SpacePassed(s))
  BY <1>1, Frame
<1>4. Begun(cur)'
  BY <1>1, <1>2 DEF Begun
<1>5. LetThrough(cur)'
  BY <1>1, <1>2 DEF LetThrough, RulesOK, SomeOrder, PassesIn, Orders
<1>6. phase' = "export" => Finished' = Finished /\ Kept' = Kept /\ Partly' = at + 1 /\ Partly = at
  <2>1. phase' = "export" => Finished' = Finished
    BY <1>1, <1>3 DEF Finished, Busy
  <2> QED  BY <1>1, <2>1 DEF Kept, Partly
<1>7. at \in Nat /\ Len(Wanted) \in Nat
  BY JobIs, WantedTyped DEF Typed
<1>8. Written(Kept, cur, at + 1) = Written(Kept, cur, at) \cup {<<cur, Wanted[at + 1]>>}
  <2>1. FilesUpTo(at + 1) = FilesUpTo(at) \cup {Wanted[at + 1]}
    BY <1>7, FilesGrow
  <2>2. ASSUME NEW F, NEW G, NEW w, G = F \cup {w}
        PROVE  {cur} \X G = ({cur} \X F) \cup {<<cur, w>>}
    BY <2>2
  <2>3. {cur} \X FilesUpTo(at + 1) = ({cur} \X FilesUpTo(at)) \cup {<<cur, Wanted[at + 1]>>}
    BY ONLY <2>1, <2>2
  <2> QED  BY <2>3 DEF Written
<1>9. phase' = "export" => exported' = Written(Kept, cur, Partly)'
  BY <1>1, <1>2, <1>6, <1>8, WrittenFrame
<1>10. phase' = "export" => at' <= Len(Wanted)' /\ Writable(cur, at)'
  <2>1. phase' = "export" => at' <= Len(Wanted)'
    BY <1>1, <1>3, <1>7
  <2>2. \A i : i \in 1..at + 1 <=> i \in 1..at \/ i = at + 1
    BY <1>7
  <2> QED  BY <1>1, <1>2, <1>3, <2>1, <2>2 DEF Writable
<1>11. phase' = "export" => \A s \in Finished' : SpacePassed(s)'
  BY <1>2, <1>3, <1>6
<1> QED  BY <1>1, <1>2, <1>3, <1>4, <1>5, <1>9, <1>10, <1>11 DEF SpacesRight, Late, Busy

LEMMA EndSpaceRight == ASSUME Typed, SpacesRight, EndSpace PROVE SpacesRight'
<1>1. /\ phase = "export" /\ phase' = "spaces" /\ job' = job /\ items' = items
      /\ cur' = cur /\ todo' = todo /\ violations' = violations /\ saved' = saved
      /\ at = Len(Wanted) /\ exported' = exported
  BY DEF EndSpace, GoTo, parserVars
<1>2. /\ todo \subseteq Selected /\ saved \cap todo = {}
      /\ cur \in Selected /\ cur \notin todo /\ Begun(cur)
      /\ \A s \in Finished : SpacePassed(s)
      /\ exported = Written(Kept, cur, Partly)
      /\ \A s \in saved : s = cur /\ violations # {} => job.force
      /\ ~job.verifyOnly /\ LetThrough(cur) /\ Writable(cur, at)
  BY <1>1 DEF SpacesRight, Late, Busy
<1>3. Selected' = Selected /\ (\A s : SpacePassed(s)' <=> SpacePassed(s))
  BY <1>1, Frame
<1>4. Finished' = Finished \cup {cur}
  BY <1>1, <1>2, <1>3 DEF Finished, Busy
<1>5. Kept' = Kept \cup {cur} /\ Partly' = 0 /\ Partly = Len(Wanted)
  BY <1>1, <1>2, <1>4 DEF Kept, Partly
<1>6. Written(Kept \cup {cur}, cur, 0) = Written(Kept, cur, Len(Wanted))
  BY FilesGrow DEF Written
<1>7. exported' = Written(Kept, cur, Partly)'
  BY <1>1, <1>2, <1>5, <1>6, WrittenFrame
<1>8. SpacePassed(cur)
  BY <1>1, <1>2 DEF SpacePassed
<1>9. \A s \in Finished' : SpacePassed(s)'
  BY <1>2, <1>3, <1>4, <1>8
<1> QED  BY <1>1, <1>2, <1>3, <1>7, <1>9 DEF SpacesRight, Late, Busy

LEMMA SpacesStep == ASSUME Typed, SpacesRight, [Next]_vars PROVE SpacesRight'
<1>1. ASSUME \/ ReadSource \/ ParseSource \/ EndSyntax \/ ResolveImport \/ EndImports
             \/ Register \/ EndRegistration
      PROVE  SpacesRight'
  <2>1. /\ phase \in Early /\ phase' \notin Late /\ saved' = saved
    BY <1>1 DEF ReadSource, ParseSource, EndSyntax, ResolveImport, EndImports, Register,
       EndRegistration, Early, Late, Fail, Succeed, GoTo, buildVars
  <2>2. saved' = {}
    BY <2>1 DEF Typed
  <2> QED  BY <2>1, <2>2 DEF SpacesRight, Late, Busy
<1>2. ASSUME Finish PROVE SpacesRight'
  <2>1. /\ phase = "spaces" /\ phase' = "done" /\ saved' = saved /\ todo' = todo /\ job' = job
        /\ cur' = cur /\ violations' = violations
    BY <1>2 DEF Finish, Succeed
  <2> QED  BY <2>1 DEF SpacesRight, Late, Busy
<1>3. ASSUME UNCHANGED vars PROVE SpacesRight'
  <2>1. /\ phase' = phase /\ saved' = saved /\ todo' = todo /\ job' = job /\ items' = items /\ at' = at
        /\ cur' = cur /\ violations' = violations /\ exported' = exported
    BY <1>3 DEF vars, parserVars, buildVars
  <2>2. /\ Selected' = Selected /\ Wanted' = Wanted
        /\ \A s : SpacePassed(s)' <=> SpacePassed(s)
    BY <2>1, Frame
  <2>3. /\ Begun(cur)' <=> Begun(cur)
        /\ LetThrough(cur)' <=> LetThrough(cur)
        /\ Writable(cur, at)' <=> Writable(cur, at)
        /\ GateTells' <=> GateTells
    BY <2>1, <2>2 DEF Begun, LetThrough, RulesOK, SomeOrder, EveryOrder, PassesIn, Orders, Writable,
       GateTells
  <2>4. Finished' = Finished /\ Kept' = Kept /\ Partly' = Partly
    BY <2>1, <2>2 DEF Finished, Kept, Partly
  <2>5. Written(Kept, cur, Partly)' = Written(Kept, cur, Partly)
    BY <2>1, <2>4, WrittenFrame
  <2> QED  BY <2>1, <2>2, <2>3, <2>4, <2>5 DEF SpacesRight
<1> QED  BY <1>1, <1>2, <1>3, LowerSpacesRight, AlignRight, ValidateRight, GateRight, ExportRight,
            EndSpaceRight DEF Next, Compile, BuildSpaces


-----------------------------------------------------------------------------
(* The end: what has been written, and the verdict. *)

LEMMA LateFiles ==
    ASSUME Typed, SpacesRight, phase \in Late
    PROVE  /\ \A s : s # cur \/ phase # "export" =>
                 FilesOf(s) = IF s \in Kept THEN AllFiles(s) ELSE {}
           /\ \A file \in exported : file[1] \in Kept \/ (phase = "export" /\ file[1] = cur)
<1>1. exported = Written(Kept, cur, Partly)
  BY DEF SpacesRight
<1>2. Partly \in Nat /\ (phase # "export" => Partly = 0)
  BY DEF Partly, Typed
<1>3. FormatsOf(job.asked) \in Seq(Words)
  BY JobIs
<1>4. \A s : s # cur \/ Partly = 0 => FilesOf(s) = IF s \in Kept THEN AllFiles(s) ELSE {}
  BY <1>1, <1>2, <1>3, FilesWhole DEF Written
<1>5. phase # "export" => FilesUpTo(Partly) = {}
  BY <1>2, FilesGrow
<1>6. \A file \in exported : file[1] \in Kept \/ (phase = "export" /\ file[1] = cur)
  BY <1>1, <1>5 DEF Written
<1> QED  BY <1>2, <1>4, <1>6

LEMMA BuiltIsWellFormed ==
    ASSUME Typed, ReadRight, phase \in {"imports", "register", "lower"} \cup Late, job.limit > 0
    PROVE  /\ items = ItemsFrom(job.source) /\ WellFormed(job.source)
           /\ Imports = Count(ItemsFrom(job.source), "import")
           /\ Spaces = 1..Count(ItemsFrom(job.source), "space")
<1>1. R(1) = items /\ tokens = job.source /\ items \in Seq(Names)
  BY DEF ReadRight, Typed
<1>2. items = ItemsFrom(job.source)
  BY <1>1 DEF R, ItemsFrom
<1>3. items # Broken
  BY <1>1, NamesNeverBroken
<1> QED  BY <1>2, <1>3 DEF WellFormed, Imports, Spaces

LEMMA LateThrough ==
    ASSUME Typed, ReadRight, FrontRight, SpacesRight, phase \in Late
    PROVE  \A file \in exported : FileLetThrough(file[1])
<1>1. ASSUME NEW s, s \in Kept \/ (phase = "export" /\ s = cur)
      PROVE  FileLetThrough(s)
  <2>1. LetThrough(s) /\ ~job.verifyOnly /\ s \in Selected
    <3>1. CASE s \in Kept
      <4>1. s \in Finished /\ ~job.verifyOnly
        BY <3>1 DEF Kept
      <4>2. SpacePassed(s)
        BY <4>1 DEF SpacesRight
      <4> QED  BY <4>1, <4>2 DEF SpacePassed, Finished
    <3>2. CASE phase = "export" /\ s = cur
      BY <3>2 DEF SpacesRight, Busy
    <3> QED  BY <1>1, <3>1, <3>2
  <2>2. job.only \in {NoSpace, s}
    BY <2>1 DEF Selected
  <2>3. job.limit > 0 => WellFormed(job.source) /\ job.duplicates = 0
    BY BuiltIsWellFormed DEF FrontRight
  <2> QED  BY <2>1, <2>2, <2>3 DEF FileLetThrough
<1> QED  BY <1>1, LateFiles

LEMMA SoundSpace ==
    ASSUME Typed, NEW s
    PROVE  SpaceIsSound(s) <=>
             /\ Begun(s)
             /\ job.spaces[s].implements => job.force \/ (RulesOK(s) /\ EveryOrder(s))
             /\ job.verifyOnly \/ Writable(s, Len(Wanted))
<1>1. DOMAIN Wanted = 1..Len(Wanted)
  BY JobIs, WantedTyped
<1>2. (\A i \in DOMAIN Wanted : <<s, Wanted[i]>> \notin job.unwritable) <=> Writable(s, Len(Wanted))
  BY <1>1 DEF Writable
<1> QED  BY <1>2 DEF SpaceIsSound, Begun, RulesOK, EveryOrder, PassesIn, Orders

LEMMA VerdictFrame ==
    ASSUME job' = job
    PROVE  (Sound' <=> Sound) /\ (SoundSome' <=> SoundSome)
<1>1. Wanted' = Wanted
  BY DEF Wanted, Unasked
<1>2. \A s : SpaceIsSound(s)' <=> SpaceIsSound(s)
  BY <1>1 DEF SpaceIsSound
<1>3. \A s : SpacePassed(s)' <=> SpacePassed(s)
  BY <1>1 DEF SpacePassed, Begun, LetThrough, RulesOK, SomeOrder, PassesIn, Orders, Writable
<1>4. Sound' <=> Sound
  BY <1>2 DEF Sound
<1>5. SoundSome' <=> SoundSome
  BY <1>3 DEF SoundSome
<1> QED  BY <1>4, <1>5

VerdictRight(result) ==
    job.limit > 0 => (result = "ok" => SoundSome) /\ (result = "failed" => ~Sound)

LEMMA EarlyDone ==
    ASSUME Typed, phase \in Early, phase' = "done", job' = job, items' = items,
           exported' = exported, VerdictRight(outcome'),
           outcome' = "ok" /\ job.command = "build" => Selected = {}
    PROVE  DoneRight'
<1>1. exported' = {} /\ exported = {}
  BY DEF Typed
<1>2. \A s : FilesOf(s)' = {}
  BY <1>1 DEF FilesOf
<1>3. Selected' = Selected
  BY Frame
<1>4. WholeExcept(cur)'
  BY <1>2 DEF WholeExcept
<1>5. VerdictRight(outcome)'
  BY VerdictFrame DEF VerdictRight
<1> QED  BY <1>1, <1>3, <1>4, <1>5 DEF DoneRight, VerdictRight

LEMMA LateDone ==
    ASSUME Typed, ReadRight, FrontRight, SpacesRight, phase \in Late, phase' = "done",
           job' = job, items' = items, exported' = exported, cur' = cur \/ phase = "spaces",
           VerdictRight(outcome'), outcome' = "ok" => phase = "spaces" /\ todo = {}
    PROVE  DoneRight'
<1>1. /\ Selected' = Selected /\ Spaces' = Spaces /\ Wanted' = Wanted
      /\ \A s : LetThrough(s)' <=> LetThrough(s)
  BY Frame
<1>2. /\ \A s : FilesOf(s)' = FilesOf(s)
      /\ \A s : AllFiles(s)' = AllFiles(s)
      /\ \A s : FileLetThrough(s)' <=> FileLetThrough(s)
  BY <1>1 DEF FilesOf, AllFiles, FileLetThrough
<1>3. \A s : s # cur' => FilesOf(s) \in {{}, AllFiles(s)}
  BY LateFiles
<1>4. WholeExcept(cur)'
  BY <1>2, <1>3 DEF WholeExcept
<1>5. \A file \in exported' : FileLetThrough(file[1])'
  BY <1>2, LateThrough
<1>6. outcome' = "ok" /\ ~job.verifyOnly => \A s \in Selected : FilesOf(s) = AllFiles(s)
  <2>1. outcome' = "ok" /\ ~job.verifyOnly => Kept = Selected
    BY DEF Kept, Finished, Busy
  <2> QED  BY <2>1, LateFiles
<1>7. VerdictRight(outcome)'
  BY VerdictFrame DEF VerdictRight
<1> QED  BY <1>1, <1>2, <1>4, <1>5, <1>6, <1>7 DEF DoneRight, VerdictRight


LEMMA CompileDone ==
    ASSUME IInv, ReadSource \/ EndSyntax \/ EndImports \/ EndRegistration \/ LowerSpaces,
           phase' = "done"
    PROVE  DoneRight'
<1>0. /\ Typed /\ ReadRight /\ FrontRight
      /\ job.limit \in Nat /\ job.duplicates \in Nat /\ at \in Nat /\ Imports \in Nat
      /\ job.unresolved \subseteq Nat \ {0} /\ tokens = job.source
      /\ CollectorOK(collector, job.limit)
  BY JobIs DEF IInv, Typed
<1>1. CASE ReadSource
  <2>1. /\ phase = "source" /\ job' = job /\ items' = items /\ exported' = exported
        /\ outcome' = "failed" /\ ~CanStart(job)
    BY <1>1 DEF ReadSource, Fail, GoTo
  <2>2. ~Sound
    BY <2>1 DEF Sound
  <2> QED  BY <1>0, <2>1, <2>2, EarlyDone DEF VerdictRight, Early
<1>2. CASE EndSyntax
  <2>1. /\ phase = "parse" /\ parsing = FALSE /\ job' = job /\ items' = items /\ exported' = exported
        /\ \/ outcome' = "failed" /\ HasErrors(collector)
           \/ outcome' = "ok" /\ ~HasErrors(collector) /\ job.command = "check"
    BY <1>0, <1>2 DEF EndSyntax, Fail, Succeed, GoTo, parserVars, Typed
  <2>2. job.limit > 0 => R(1) = IF HasErrors(collector) THEN Broken ELSE items
    BY <1>0, <2>1 DEF ReadRight
  <2>3. items # Broken
    BY <1>0, NamesNeverBroken DEF Typed
  <2>4. job.limit > 0 => (WellFormed(job.source) <=> ~HasErrors(collector))
    BY <1>0, <2>2, <2>3 DEF R, WellFormed, ItemsFrom
  <2>5. job.limit > 0 /\ HasErrors(collector) => ~Sound
    BY <2>4 DEF Sound
  <2>6. job.limit > 0 /\ ~HasErrors(collector) /\ job.command = "check" => SoundSome
    BY <1>0, <2>1, <2>4 DEF SoundSome, FrontRight
  <2> QED  BY <1>0, <2>1, <2>5, <2>6, EarlyDone DEF VerdictRight, Early
<1>3. CASE EndImports
  <2>1. /\ phase = "imports" /\ job' = job /\ items' = items /\ exported' = exported
        /\ outcome' = "failed" /\ HasErrors(collector) /\ at = Imports
    BY <1>3 DEF EndImports, Fail, GoTo, parserVars
  <2>2. job.limit > 0 => Unresolved(Imports) /\ job.command = "build"
    BY <1>0, <2>1 DEF FrontRight
  <2>3. job.limit > 0 => Imports = Count(ItemsFrom(job.source), "import")
    BY <1>0, <2>1, BuiltIsWellFormed
  <2>4. Unresolved(Imports) => \E i \in job.unresolved : ~(i > Imports)
    BY <1>0 DEF Unresolved
  <2>5. job.limit > 0 => ~Sound
    BY <2>2, <2>3, <2>4 DEF Sound
  <2> QED  BY <1>0, <2>1, <2>5, EarlyDone DEF VerdictRight, Early
<1>4. CASE EndRegistration
  <2>1. /\ phase = "register" /\ job' = job /\ items' = items /\ exported' = exported
        /\ outcome' = "failed" /\ HasErrors(collector) /\ at = job.duplicates
    BY <1>4 DEF EndRegistration, Fail, GoTo, parserVars
  <2>2. job.limit > 0 => at > 0 /\ job.command = "build"
    BY <1>0, <2>1 DEF FrontRight
  <2>3. job.limit > 0 => job.duplicates # 0
    BY <1>0, <2>1, <2>2
  <2>4. job.limit > 0 => ~Sound
    BY <2>2, <2>3 DEF Sound
  <2> QED  BY <1>0, <2>1, <2>4, EarlyDone DEF VerdictRight, Early
<1>5. CASE LowerSpaces
  <2>1. /\ phase = "lower" /\ job' = job /\ items' = items /\ exported' = exported
        /\ \/ outcome' = "failed" /\ ~job.evaluates
           \/ outcome' = "ok" /\ job.evaluates /\ job.only # NoSpace /\ Selected = {}
    BY <1>5 DEF LowerSpaces, Fail, Succeed, GoTo, parserVars
  <2>2. /\ job.command = "build" /\ CanStart(job)
        /\ job.limit > 0 => ~Unresolved(Imports) /\ job.duplicates = 0
    BY <1>0, <2>1 DEF FrontRight
  <2>3. job.limit > 0 => /\ WellFormed(job.source)
                         /\ Imports = Count(ItemsFrom(job.source), "import")
                         /\ Spaces = 1..Count(ItemsFrom(job.source), "space")
    BY <1>0, <2>1, BuiltIsWellFormed
  <2>4. ~Unresolved(Imports) => \A i \in job.unresolved : i > Imports
    BY <1>0 DEF Unresolved
  <2>5. ~job.evaluates => ~Sound
    BY <2>2 DEF Sound
  <2>6. ASSUME job.limit > 0, outcome' = "ok"
        PROVE  SoundSome
    <3>1. \A s \in Spaces : job.only \notin {NoSpace, s}
      BY <2>1, <2>6 DEF Selected
    <3> QED  BY <2>1, <2>2, <2>3, <2>4, <2>6, <3>1 DEF SoundSome
  <2> QED  BY <1>0, <2>1, <2>5, <2>6, EarlyDone DEF VerdictRight, Early
<1> QED  BY <1>1, <1>2, <1>3, <1>4, <1>5

LEMMA SpacesDone ==
    ASSUME IInv, Align \/ Gate \/ Export \/ Finish, phase' = "done"
    PROVE  DoneRight'
<1>0. /\ Typed /\ ReadRight /\ FrontRight /\ SpacesRight
      /\ job.limit \in Nat /\ Imports \in Nat
      /\ job.unresolved \subseteq Nat \ {0}
  BY JobIs DEF IInv
<1>1. /\ phase \in Late /\ job' = job /\ items' = items /\ exported' = exported
      /\ cur' = cur \/ phase = "spaces"
      /\ \/ outcome' = "failed"
         \/ outcome' = "ok" /\ phase = "spaces" /\ todo = {} 
  BY DEF Align, Gate, Export, Finish, Fail, Succeed, GoTo, parserVars, Late
<1>2. /\ job.command = "build" /\ CanStart(job) /\ job.evaluates
      /\ job.limit > 0 => ~Unresolved(Imports) /\ job.duplicates = 0
  BY <1>0, <1>1 DEF FrontRight
<1>3. job.limit > 0 => /\ WellFormed(job.source)
                       /\ Imports = Count(ItemsFrom(job.source), "import")
                       /\ Spaces = 1..Count(ItemsFrom(job.source), "space")
  BY <1>0, <1>1, BuiltIsWellFormed
<1>4. ~Unresolved(Imports) => \A i \in job.unresolved : i > Imports
  BY <1>0 DEF Unresolved
<1>5. ASSUME NEW s \in Selected, ~SpaceIsSound(s), job.limit > 0 PROVE ~Sound
  <2>1. s \in Spaces /\ job.only \in {NoSpace, s}
    BY DEF Selected
  <2> QED  BY <1>2, <1>3, <1>5, <2>1 DEF Sound
<1>6. CASE Align
  <2>1. /\ phase = "spaces" /\ outcome' = "failed"
        /\ \E s \in todo : ~Begun(s)
    BY <1>6 DEF Align, Fail, GoTo, Begun
  <2>2. todo \subseteq Selected
    BY <1>0, <2>1 DEF SpacesRight, Late
  <2>3. job.limit > 0 => ~Sound
    BY <1>0, <1>5, <2>1, <2>2, SoundSpace
  <2> QED  BY <1>0, <1>1, <2>1, <2>3, LateDone DEF VerdictRight
<1>7. CASE Gate
  <2>1. /\ phase = "gate" /\ outcome' = "failed"
        /\ violations # {} /\ job.spaces[cur].implements /\ ~job.force
    BY <1>7 DEF Gate, Fail, GoTo, Artist, Facts
  <2>2. cur \in Selected /\ GateTells
    BY <1>0, <2>1 DEF SpacesRight, Busy
  <2>3. ~SpaceIsSound(cur)
    BY <1>0, <2>1, <2>2, SoundSpace DEF GateTells
  <2>4. job.limit > 0 => ~Sound
    BY <1>5, <2>2, <2>3
  <2> QED  BY <1>0, <1>1, <2>1, <2>4, LateDone DEF VerdictRight
<1>8. CASE Export
  <2>1. /\ phase = "export" /\ outcome' = "failed" /\ at < Len(Wanted)
        /\ <<cur, Wanted[at + 1]>> \in job.unwritable
    BY <1>8 DEF Export, Fail, GoTo
  <2>2. cur \in Selected /\ ~job.verifyOnly
    BY <1>0, <2>1 DEF SpacesRight, Busy
  <2>3. at + 1 \in 1..Len(Wanted)
    <3>1. Len(Wanted) \in Nat /\ at \in Nat
      BY <1>0, JobIs, WantedTyped DEF Typed
    <3> QED  BY <2>1, <3>1
  <2>4. ~Writable(cur, Len(Wanted))
    BY <2>1, <2>3 DEF Writable
  <2>5. ~SpaceIsSound(cur)
    BY <1>0, <2>2, <2>4, SoundSpace
  <2>6. job.limit > 0 => ~Sound
    BY <1>5, <2>2, <2>5
  <2> QED  BY <1>0, <1>1, <2>1, <2>6, LateDone DEF VerdictRight
<1>9. CASE Finish
  <2>1. phase = "spaces" /\ outcome' = "ok" /\ todo = {}
    BY <1>9 DEF Finish, Succeed
  <2>2. \A s \in Selected : SpacePassed(s)
    BY <1>0, <2>1 DEF SpacesRight, Finished, Late, Busy
  <2>3. ASSUME NEW s \in Spaces, job.only \in {NoSpace, s} PROVE s \in Selected
    BY <2>3 DEF Selected
  <2>4. job.limit > 0 => SoundSome
    BY <1>2, <1>3, <1>4, <2>2, <2>3 DEF SoundSome
  <2> QED  BY <1>0, <1>1, <2>1, <2>4, LateDone DEF VerdictRight
<1> QED  BY <1>6, <1>7, <1>8, <1>9

LEMMA DoneStep == ASSUME IInv, [Next]_vars PROVE DoneRight'
<1>1. CASE phase' # "done"
  BY <1>1 DEF DoneRight
<1>2. CASE phase' = "done" /\ Next
  <2>1. ParseSource \/ ResolveImport \/ Register \/ Validate \/ EndSpace => phase' # "done"
    BY DEF ParseSource, buildVars, ResolveImport, Register, Validate, EndSpace, GoTo
  <2> QED  BY <1>2, <2>1, CompileDone, SpacesDone DEF Next, Compile, BuildSpaces
<1>3. CASE phase' = "done" /\ UNCHANGED vars
  <2>1. /\ phase' = phase /\ cur' = cur /\ exported' = exported /\ outcome' = outcome /\ job' = job
        /\ items' = items
    BY <1>3 DEF vars, parserVars, buildVars
  <2>2. /\ Selected' = Selected /\ Spaces' = Spaces /\ Wanted' = Wanted
        /\ \A s : LetThrough(s)' <=> LetThrough(s)
    BY <2>1, Frame
  <2>3. /\ \A s : FilesOf(s)' = FilesOf(s)
        /\ \A s : AllFiles(s)' = AllFiles(s)
        /\ \A s : FileLetThrough(s)' <=> FileLetThrough(s)
    BY <2>1, <2>2 DEF FilesOf, AllFiles, FileLetThrough
  <2>4. WholeExcept(cur)' <=> WholeExcept(cur)
    BY <2>1, <2>2, <2>3 DEF WholeExcept
  <2>5. (Sound' <=> Sound) /\ (SoundSome' <=> SoundSome)
    BY <2>1, VerdictFrame
  <2> QED  BY <2>1, <2>2, <2>3, <2>4, <2>5 DEF DoneRight, IInv
<1> QED  BY <1>1, <1>2, <1>3

LEMMA Inductive == Spec => []IInv
<1>1. Init => IInv
  <2> SUFFICES ASSUME Init PROVE IInv
    OBVIOUS
  <2>1. phase = "source" /\ todo = {} /\ saved = {}
    BY DEF Init
  <2>2. SpacesRight /\ DoneRight
    BY <2>1 DEF SpacesRight, DoneRight, Late, Busy
  <2> QED  BY <2>2, TypedStart, ReadStart, FrontStart DEF IInv
<1>2. IInv /\ [Next]_vars => IInv'
  BY TypedStep, ReadStep, FrontStep, SpacesStep, DoneStep DEF IInv
<1> QED  BY <1>1, <1>2, PTL DEF Spec


-----------------------------------------------------------------------------
(* The space at the gate: it is one the job tells of, and its violations are what
   the checks found of it. *)

LEMMA CountGrows ==
    ASSUME NEW S, NEW names \in Seq(S), NEW x \in S, NEW name
    PROVE  Count(Append(names, x), name) = Count(names, name) + (IF x = name THEN 1 ELSE 0)
<1> DEFINE n == Len(names)
           more == Append(names, x)
           old == {i \in DOMAIN names : names[i] = name}
           new == {i \in DOMAIN more : more[i] = name}
<1>1. /\ n \in Nat /\ DOMAIN names = 1..n /\ DOMAIN more = 1..n + 1
      /\ more[n + 1] = x /\ \A i \in 1..n : more[i] = names[i]
  OBVIOUS
<1>2. IsFiniteSet(old) /\ n + 1 \notin old
  <2>1. IsFiniteSet(1..n)
    BY <1>1, FS_Interval
  <2>2. IsFiniteSet(old)
    BY <1>1, <2>1, FS_Subset
  <2> QED  BY <1>1, <2>2
<1>3. new = IF x = name THEN old \cup {n + 1} ELSE old
  <2>1. \A i : i \in 1..n + 1 <=> i \in 1..n \/ i = n + 1
    BY <1>1
  <2> HIDE DEF more, n
  <2> QED  BY <1>1, <2>1
<1>4. Cardinality(old) \in Nat
  BY <1>2, FS_CardinalityType
<1>5. Cardinality(old \cup {n + 1}) = Cardinality(old) + 1
  <2> HIDE DEF old, n
  <2> QED  BY <1>2, FS_AddElement
<1>6. Cardinality(new) = Cardinality(old) + (IF x = name THEN 1 ELSE 0)
  <2> HIDE DEF new, old
  <2> QED  BY <1>3, <1>4, <1>5
<1> QED  BY <1>6 DEF Count

(* The parser has made no more spaces than it has passed tokens that begin one. *)
SpaceTokens(k) == {i \in 1..k - 1 : Token(i) = "space"}
SpacesRead == Count(items, "space") <= Cardinality(SpaceTokens(current))

LEMMA SpaceTokensGrow ==
    ASSUME NEW k \in Nat, NEW m \in Nat, k <= m
    PROVE  /\ IsFiniteSet(SpaceTokens(m)) /\ Cardinality(SpaceTokens(m)) \in Nat
           /\ Cardinality(SpaceTokens(k)) \in Nat
           /\ Cardinality(SpaceTokens(k)) <= Cardinality(SpaceTokens(m))
           /\ \A i \in k..m - 1 : i \in Nat \ {0} /\ Token(i) = "space"
                                 => Cardinality(SpaceTokens(k)) < Cardinality(SpaceTokens(m))
<1>1. SpaceTokens(m) \subseteq 1..m - 1 /\ SpaceTokens(k) \subseteq SpaceTokens(m)
  BY DEF SpaceTokens
<1>2. IsFiniteSet(SpaceTokens(m))
  <2>1. IsFiniteSet(1..m - 1)
    BY FS_Interval
  <2> QED  BY <1>1, <2>1, FS_Subset
<1>3. /\ Cardinality(SpaceTokens(k)) \in Nat /\ Cardinality(SpaceTokens(m)) \in Nat
      /\ Cardinality(SpaceTokens(k)) <= Cardinality(SpaceTokens(m))
  BY <1>1, <1>2, FS_Subset, FS_CardinalityType
<1>4. ASSUME NEW i \in k..m - 1, i \in Nat \ {0}, Token(i) = "space"
      PROVE  Cardinality(SpaceTokens(k)) < Cardinality(SpaceTokens(m))
  <2>1. i \in SpaceTokens(m) /\ i \notin SpaceTokens(k)
    BY <1>4 DEF SpaceTokens
  <2>2. Cardinality(SpaceTokens(k)) # Cardinality(SpaceTokens(m))
    BY <1>1, <1>2, <2>1, FS_Subset
  <2> QED  BY <1>3, <2>2
<1> QED  BY <1>2, <1>3, <1>4

LEMMA SpacesReadStart == ASSUME Init PROVE SpacesRead
<1>1. items = <<>> /\ current = 1
  BY DEF Init
<1>2. Count(<<>>, "space") = 0 /\ SpaceTokens(1) = {}
  <2>1. {i \in DOMAIN <<>> : <<>>[i] = "space"} = {}
    OBVIOUS
  <2> QED  BY <2>1, FS_EmptySet DEF Count, SpaceTokens
<1> QED  BY <1>1, <1>2, FS_EmptySet DEF SpacesRead

LEMMA SpacesReadStep == ASSUME Typed, ReadRight, SpacesRead, [Next]_vars PROVE SpacesRead'
<1>1. current \in Nat \ {0} /\ items \in Seq(Names)
  BY DEF Typed, Positions
<1>2. CASE ParseSource /\ ParseItem
  <2>1. /\ tokens' = tokens /\ current' \in Positions /\ current' > current
        /\ \/ items' = items
           \/ \E i \in current..current' - 1 : i <= Len(tokens) /\ items' = Append(items, Token(i))
    BY <1>2, ReadTurn
  <2>2. current' \in Nat /\ current \in Nat /\ current <= current'
    BY <1>1, <2>1 DEF Positions
  <2>3. SpaceTokens(current)' = SpaceTokens(current')
    BY <2>1 DEF SpaceTokens, Token
  <2>4. Count(items, "space") \in Nat
    BY <1>1, CountTyped
  <2>5. /\ Cardinality(SpaceTokens(current)) \in Nat /\ Cardinality(SpaceTokens(current')) \in Nat
        /\ Cardinality(SpaceTokens(current)) <= Cardinality(SpaceTokens(current'))
        /\ \A i \in current..current' - 1 : i \in Nat \ {0} /\ Token(i) = "space"
             => Cardinality(SpaceTokens(current)) < Cardinality(SpaceTokens(current'))
    BY ONLY <2>2, SpaceTokensGrow
  <2>6. CASE items' = items
    BY <2>3, <2>4, <2>5, <2>6 DEF SpacesRead
  <2>7. ASSUME NEW i \in current..current' - 1, i <= Len(tokens), items' = Append(items, Token(i))
        PROVE  SpacesRead'
    <3>1. i \in Nat \ {0} /\ i \in 1..Len(tokens)
      BY <1>1, <2>2, <2>7
    <3>2. items' \in Seq(Names) /\ Token(i) \in Names \cup {Token(i)}
      BY <1>2, ReadTurn
    <3>3. items \in Seq(Names \cup {Token(i)})
      BY <1>1
    <3>4. Count(items', "space") = Count(items, "space") + (IF Token(i) = "space" THEN 1 ELSE 0)
      BY <2>7, <3>2, <3>3, CountGrows
    <3>5. CASE Token(i) = "space"
      BY <2>3, <2>4, <2>5, <3>1, <3>4, <3>5 DEF SpacesRead
    <3>6. CASE Token(i) # "space"
      BY <2>3, <2>4, <2>5, <3>4, <3>6 DEF SpacesRead
    <3> QED  BY <3>5, <3>6
  <2> QED  BY <2>1, <2>6, <2>7
<1>3. CASE ~(ParseSource /\ ParseItem)
  <2>1. tokens' = tokens /\ current' = current /\ items' = items
    BY <1>3 DEF Next, vars, parserVars, Compile, BuildSpaces, ReadSource, ParseSource, Parse,
       EndParse, EndSyntax, ResolveImport, EndImports, Register, EndRegistration, LowerSpaces,
       Align, Validate, Gate, Export, EndSpace, Finish
  <2> QED  BY <2>1 DEF SpacesRead, SpaceTokens, Token
<1> QED  BY <1>2, <1>3

(* So every space there is, the job tells of. *)
LEMMA SpacesTold ==
    ASSUME Typed, SpacesRead
    PROVE  Spaces \subseteq DOMAIN job.spaces
<1>1. current \in 1..Len(tokens) + 1 /\ tokens \in Seq(Classes) /\ tokens = job.source
  BY JobIs DEF Typed, Positions
<1>2. Len(tokens) \in Nat /\ DOMAIN tokens = 1..Len(tokens)
  BY <1>1
<1>3. SpaceTokens(Len(tokens) + 1) = {i \in DOMAIN tokens : tokens[i] = "space"}
  BY <1>2 DEF SpaceTokens, Token
<1>4. /\ Cardinality(SpaceTokens(current)) \in Nat
      /\ Cardinality(SpaceTokens(Len(tokens) + 1)) \in Nat
      /\ Cardinality(SpaceTokens(current)) <= Cardinality(SpaceTokens(Len(tokens) + 1))
  BY <1>1, <1>2, SpaceTokensGrow
<1>5. Count(items, "space") \in Nat /\ Count(items, "space") <= Count(job.source, "space")
  <2>1. Count(job.source, "space") = Cardinality(SpaceTokens(Len(tokens) + 1))
    BY <1>1, <1>3 DEF Count
  <2>2. Count(items, "space") \in Nat
    BY JobIs
  <2> QED  BY <1>4, <2>1, <2>2 DEF SpacesRead
<1>6. 1..Count(job.source, "space") \subseteq DOMAIN job.spaces
  BY JobIs
<1>7. Count(job.source, "space") \in Nat
  BY <1>1, CountTyped
<1> QED  BY <1>5, <1>6, <1>7 DEF Spaces

(* What the checks find, for some order of the islands. *)
FoundIn(islands) ==
    (IF RulesBroken THEN {<<"DRC", None>>} ELSE {})
    \cup (IF job.skipContinuity \/ Artist THEN {}
          ELSE {<<"P41", net>> : net \in FailingNets(Facts.metal, islands)})
ViolationsFound == phase = "gate" => \E islands \in Orders(cur) : violations = FoundIn(islands)

LEMMA FoundStep == ASSUME ViolationsFound, [Next]_vars PROVE ViolationsFound'
<1>1. ASSUME job' = job, cur' = cur
      PROVE  /\ Orders(cur)' = Orders(cur)
             /\ \A islands : FoundIn(islands)' = FoundIn(islands)
  BY <1>1 DEF Orders, FoundIn, RulesBroken, Artist, Facts
<1>2. CASE Validate
  <2>1. job' = job /\ cur' = cur /\ \E islands \in Orders(cur) : violations' = FoundIn(islands)
    BY <1>2 DEF Validate, Orders, FoundIn, Facts
  <2> QED  BY <1>1, <2>1 DEF ViolationsFound
<1>3. CASE UNCHANGED buildVars
  <2>1. job' = job /\ cur' = cur /\ phase' = phase /\ violations' = violations
    BY <1>3 DEF buildVars
  <2> QED  BY <1>1, <2>1 DEF ViolationsFound
<1>4. CASE ~Validate /\ ~UNCHANGED buildVars
  <2>1. phase' # "gate"
    BY <1>4 DEF Next, vars, Compile, BuildSpaces, ReadSource, ParseSource, EndSyntax, ResolveImport,
       EndImports, Register, EndRegistration, LowerSpaces, Align, Gate, Export, EndSpace, Finish,
       Fail, Succeed, GoTo
  <2> QED  BY <2>1 DEF ViolationsFound
<1> QED  BY <1>2, <1>3, <1>4

AtTheGate == SpacesRead /\ ViolationsFound
LEMMA GateInductive == Spec => []AtTheGate
<1>1. Init => AtTheGate
  <2>1. Init => ViolationsFound
    BY DEF Init, ViolationsFound
  <2> QED  BY <2>1, SpacesReadStart DEF AtTheGate
<1>2. IInv /\ AtTheGate /\ [Next]_vars => AtTheGate'
  BY SpacesReadStep, FoundStep DEF AtTheGate, IInv
<1> QED  BY <1>1, <1>2, Inductive, PTL DEF Spec

(* At the gate: the space is of metal, and a net is among the violations if and
   only if it fails, for an order of the islands. *)
LEMMA GateSees ==
    ASSUME Typed, AtTheGate, phase = "gate"
    PROVE  /\ IsMetal(Facts.metal)
           /\ \E islands \in IslandOrders(RawIslands(Facts.metal)) :
                \A net : <<"P41", net>> \in violations
                         <=> ~job.skipContinuity /\ ~Artist /\ net \in FailingNets(Facts.metal, islands)
<1>1. cur \in DOMAIN job.spaces
  BY SpacesTold DEF Typed, Busy, AtTheGate
<1>2. IsMetal(Facts.metal)
  BY <1>1, JobIs DEF Facts
<1>3. PICK islands \in IslandOrders(RawIslands(Facts.metal)) : violations = FoundIn(islands)
  BY DEF AtTheGate, ViolationsFound, Orders, Facts
<1>4. \A net : <<"P41", net>> \in FoundIn(islands)
               <=> ~job.skipContinuity /\ ~Artist /\ net \in FailingNets(Facts.metal, islands)
  BY DEF FoundIn
<1> QED  BY <1>2, <1>3, <1>4

-----------------------------------------------------------------------------
(* The results. *)

LEMMA InvariantGives ==
    ASSUME IInv
    PROVE  TypeOK /\ ParsedAsWritten /\ OnlyLetThrough /\ WholeSpaces
<1>0. Typed /\ ReadRight /\ FrontRight /\ SpacesRight /\ DoneRight
  BY DEF IInv
<1>1. Spaces = 1..Count(items, "space") /\ job.limit \in Nat /\ FormatsOf(job.asked) \in Seq(Words)
  BY <1>0, JobIs DEF Spaces
<1>2. TypeOK
  BY <1>0 DEF TypeOK, Typed, Positions, CollectorOK
<1>3. ParsedAsWritten
  <2> SUFFICES ASSUME phase # "source", ~parsing, job.limit > 0
               PROVE  /\ phase = "imports" => items = ItemsFrom(tokens)
                      /\ phase = "parse" => (HasErrors(collector) <=> ~WellFormed(tokens))
    <3>1. HasErrors(collector) \in BOOLEAN
      BY DEF HasErrors, Contains
    <3>2. WellFormed(tokens) \in BOOLEAN
      BY DEF WellFormed
    <3> QED  BY <3>1, <3>2 DEF ParsedAsWritten
  <2>1. parsing = FALSE /\ items # Broken /\ R(1) = ItemsFrom(tokens)
    BY <1>0, NamesNeverBroken DEF Typed, R, ItemsFrom
  <2> QED  BY <1>0, <2>1 DEF ReadRight, WellFormed
<1>4. OnlyLetThrough
  <2>1. \A file \in exported : FileLetThrough(file[1])
    <3>1. CASE phase \in Early
      BY <1>0, <3>1 DEF Typed
    <3>2. CASE phase \in Late
      BY <1>0, <3>2, LateThrough
    <3>3. CASE phase = "done"
      BY <1>0, <3>3 DEF DoneRight
    <3> QED  BY <1>0, <3>1, <3>2, <3>3 DEF Typed, Phases, Early, Late
  <2>2. \A s \in saved : s = cur /\ violations # {} => job.force
    BY <1>0 DEF SpacesRight
  <2>3. ASSUME NEW s, FileLetThrough(s)
        PROVE  /\ job.spaces[s].implements /\ ~job.force =>
                    /\ job.skipDrc \/ ~job.spaces[s].constrained \/ job.spaces[s].clean
                    /\ job.skipContinuity \/ \E islands \in IslandOrders(RawIslands(job.spaces[s].metal)) :
                                                 FailingNets(job.spaces[s].metal, islands) = {}
               /\ job.limit > 0 => WellFormed(job.source) /\ job.duplicates = 0
               /\ ~job.verifyOnly /\ job.only \in {NoSpace, s}
    BY <2>3 DEF FileLetThrough, LetThrough, RulesOK, SomeOrder, Orders, PassesIn
  <2> QED  BY <2>1, <2>2, <2>3 DEF OnlyLetThrough
<1>5. WholeSpaces
  <2>1. WholeExcept(cur)
    <3>1. CASE phase \in Early
      <4>1. \A s : FilesOf(s) = {}
        BY <1>0, <3>1 DEF Typed, FilesOf
      <4> QED  BY <4>1 DEF WholeExcept
    <3>2. CASE phase \in Late
      BY <1>0, <3>2, LateFiles DEF WholeExcept
    <3>3. CASE phase = "done"
      BY <1>0, <3>3 DEF DoneRight
    <3> QED  BY <1>0, <3>1, <3>2, <3>3 DEF Typed, Phases, Early, Late
  <2>2. outcome = "ok" => phase = "done"
    BY <1>0 DEF Typed
  <2>3. outcome = "ok" /\ job.command = "build" /\ ~job.verifyOnly =>
          \A s \in Selected : FilesOf(s) = AllFiles(s)
    BY <1>0, <2>2 DEF DoneRight
  <2> QED  BY <2>1, <2>3 DEF WholeSpaces, WholeExcept
<1> QED  BY <1>2, <1>3, <1>4, <1>5

(* The types: among them, the collector never holds more errors than its limit,
   and the parser never passes the end of the source (collector.rs, mod.rs). *)
THEOREM TypesKept == Spec => []TypeOK
<1>1. IInv => TypeOK
  BY InvariantGives
<1> QED  BY <1>1, Inductive, PTL

(* A parse that reports nothing has read the whole source, as the grammar says;
   one that reports something was right to: whatever the source, whatever the
   limit but 0 (mod.rs: parse, synchronize; collector.rs: report). *)
THEOREM ParseIsRight == Spec => []ParsedAsWritten
<1>1. IInv => ParsedAsWritten
  BY InvariantGives
<1> QED  BY <1>1, Inductive, PTL

(* Nothing leaves the build that the checks asked for have not let through, and
   no routes are saved of a space that the gate stopped (build_cmd/mod.rs). *)
THEOREM OnlyLetThroughLeaves == Spec => []OnlyLetThrough
<1>1. IInv => OnlyLetThrough
  BY InvariantGives
<1> QED  BY <1>1, Inductive, PTL

(* Spaces are exported whole, but for the one at which the build fails; after a
   success all that were asked for are (build_cmd/mod.rs, export.rs). *)
THEOREM ExportedWhole == Spec => []WholeSpaces
<1>1. IInv => WholeSpaces
  BY InvariantGives
<1> QED  BY <1>1, Inductive, PTL

LEMMA SomeIslands ==
    ASSUME NEW space, IsMetal(space)
    PROVE  IslandOrders(RawIslands(space)) # {}
<1> DEFINE raw == RawIslands(space)
           groups == Groups(raw)
<1>1. IsFiniteSet(groups)
  BY RawKnown, GroupsKnown
<1>2. ExistsBijection(1..Cardinality(groups), groups)
  BY ONLY <1>1, FS_CardinalityType
<1>3. PICK order : order \in Bijection(1..Cardinality(groups), groups)
  BY ONLY <1>2 DEF ExistsBijection
<1> HIDE DEF raw
<1>4. [k \in DOMAIN order |-> Island(raw, order[k])] \in IslandOrders(raw)
  BY <1>3 DEF IslandOrders
<1> QED  BY <1>4 DEF raw

(* There are orders in which a hash map may give the islands, and the nets that the
   continuity check fails are the same for all (continuity.rs, graph.rs). *)
OrdersAgree ==
    \A kind \in DOMAIN Jobs : \A j \in Jobs[kind] : \A s \in DOMAIN j.spaces :
        LET metal == j.spaces[s].metal
            orders == IslandOrders(RawIslands(metal))
        IN /\ orders # {}
           /\ \A islands, others \in orders :
                    FailingNets(metal, islands) = FailingNets(metal, others)
THEOREM OrdersNeverMatter == OrdersAgree
  BY JobsTyped, OneVerdict, SomeIslands DEF OrdersAgree

LEMMA OrdersDecide ==
    ASSUME IInv, SoundSome
    PROVE  Sound
<1>0. Typed
  BY DEF IInv
<1>1. PICK kind \in DOMAIN Jobs : job \in Jobs[kind]
  BY <1>0 DEF Typed
<1>2. 1..Count(ItemsFrom(job.source), "space") \subseteq DOMAIN job.spaces
  BY <1>0, JobIs
<1>3. ASSUME NEW s \in DOMAIN job.spaces, SpacePassed(s)
      PROVE  SpaceIsSound(s)
  <2>1. \A islands, others \in Orders(s) : PassesIn(s, islands) => PassesIn(s, others)
    BY <1>1, <1>3, OrdersNeverMatter DEF OrdersAgree, Orders, PassesIn
  <2>2. SomeOrder(s) => EveryOrder(s)
    BY <2>1 DEF SomeOrder, EveryOrder
  <2> QED  BY <1>0, <1>3, <2>2, SoundSpace DEF SpacePassed, LetThrough
<1> QED  BY <1>2, <1>3 DEF SoundSome, Sound

(* The command succeeds exactly on sound jobs, whatever the order of the islands
   (build_cmd/mod.rs, validation/mod.rs). *)
THEOREM VerdictRightly == Spec => []VerdictIsRight
<1>1. IInv => VerdictIsRight
  <2> SUFFICES ASSUME IInv PROVE VerdictIsRight
    OBVIOUS
  <2>1. TypeOK
    BY InvariantGives
  <2>2. phase = "done" /\ job.limit > 0 =>
            (outcome = "ok" => SoundSome) /\ (outcome = "failed" => ~Sound)
    BY DEF IInv, DoneRight
  <2>3. SoundSome => Sound
    BY OrdersDecide
  <2>4. phase = "done" => outcome \in {"ok", "failed"}
    BY DEF IInv, Typed
  <2>5. Sound \in BOOLEAN
    BY Zenon DEF Sound
  <2> QED  BY <2>1, <2>2, <2>3, <2>4, <2>5 DEF VerdictIsRight
<1> QED  BY <1>1, Inductive, PTL

(* A net reported as disconnected is, by the check's own rules, piece by piece
   (validation/continuity.rs, pivb/). *)
THEOREM AlarmsAreTrue == Spec => []NoFalseAlarm
<1>1. IInv /\ AtTheGate => NoFalseAlarm
  <2> SUFFICES ASSUME IInv, AtTheGate, phase = "gate", NEW v \in violations, v[1] = "P41"
               PROVE  ~ContinuousByRule(Facts.metal, v[2])
    BY DEF NoFalseAlarm
  <2>1. IsMetal(Facts.metal)
    BY GateSees DEF IInv
  <2>2. PICK islands \in Orders(cur) : violations = FoundIn(islands)
    BY DEF AtTheGate, ViolationsFound
  <2>3. PICK net \in FailingNets(Facts.metal, islands) : v = <<"P41", net>>
    <3>1. v # <<"DRC", None>>
      OBVIOUS
    <3> QED  BY <2>2, <3>1 DEF FoundIn
  <2>4. islands \in IslandOrders(RawIslands(Facts.metal))
    BY <2>2 DEF Orders, Facts
  <2> QED  BY <2>1, <2>3, <2>4, AlarmIsTrue
<1> QED  BY <1>1, Inductive, GateInductive, PTL

(* A net that passes is continuous metal, where every island's box is as good as
   its metal and what bridges conducts; contacts are grown by the technology, not
   shrunk (validation/continuity.rs, pivb/). *)
THEOREM PassesAreContinuous ==
    ASSUME Enclosure >= 0
    PROVE  Spec => []PassMeansContinuousWhenTight
<1>1. IInv /\ AtTheGate => PassMeansContinuousWhenTight
  <2> SUFFICES ASSUME IInv, AtTheGate, Checked, HullsAreMetal(Facts.metal),
                      ContactsConduct(Facts.metal), NEW net \in NetsOf(Facts.metal), Passed(net)
               PROVE  Continuous(Facts.metal, net)
    BY DEF PassMeansContinuousWhenTight
  <2>1. phase = "gate" /\ ~Artist /\ ~job.skipContinuity
    BY DEF Checked
  <2>2. IsMetal(Facts.metal)
    BY <2>1, GateSees DEF IInv
  <2>3. PICK islands \in IslandOrders(RawIslands(Facts.metal)) :
                net \notin FailingNets(Facts.metal, islands)
    BY <2>1, GateSees DEF IInv, Passed
  <2>4. net \in {p.net : p \in Range(RawIslands(Facts.metal))}
    BY DEF NetsOf
  <2> QED  BY <2>2, <2>3, <2>4, PassIsTrue
<1> QED  BY <1>1, Inductive, GateInductive, PTL

(* Every turn of the parser's loop gets past something (mod.rs: parse,
   synchronize). *)
THEOREM ParserAdvances == Spec => TurnsAdvance
<1>1. IInv /\ [Next]_vars => [phase = "parse" /\ parsing' => current' > current]_vars
  <2> SUFFICES ASSUME IInv, Next, phase = "parse", parsing'
               PROVE  current' > current
    OBVIOUS
  <2>1. Typed /\ ReadRight
    BY DEF IInv
  <2>2. CASE ParseSource
    <3>1. ~EndParse
      BY DEF EndParse
    <3> QED  BY <2>1, <2>2, <3>1, ReadTurn DEF ParseSource, Parse
  <2>3. CASE EndSyntax
    BY <2>3 DEF EndSyntax, parserVars
  <2>4. CASE ~ParseSource /\ ~EndSyntax
    BY <2>4 DEF Next, Compile, BuildSpaces, ReadSource, ResolveImport, EndImports, Register,
       EndRegistration, LowerSpaces, Align, Validate, Gate, Export, EndSpace, Finish
  <2> QED  BY <2>2, <2>3, <2>4
<1> QED  BY <1>1, Inductive, PTL DEF Spec, TurnsAdvance
=============================================================================
