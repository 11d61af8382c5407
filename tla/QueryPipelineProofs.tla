------------------------ MODULE QueryPipelineProofs -------------------------
(***************************************************************************)
(* Proofs about the query store under its client: a live memo is fresh,    *)
(* for every set of queries and every dependency graph.                    *)
(***************************************************************************)
EXTENDS QueryPipeline, TLAPS

-----------------------------------------------------------------------------
(* Reachability *)

LEMMA AffectedContains ==
    ASSUME NEW u, NEW S \in SUBSET Query
    PROVE  S \subseteq Affected(u, S)
BY DEF Affected

LEMMA AffectedClosed ==
    ASSUME NEW u, NEW S
    PROVE  Closed(u, Affected(u, S))
BY DEF Affected, Closed, Users

LEMMA AffectedLeast ==
    ASSUME NEW u, NEW S, NEW C \in SUBSET Query, S \subseteq C, Closed(u, C)
    PROVE  Affected(u, S) \subseteq C
BY DEF Affected

LEMMA AffectedEmpty ==
    ASSUME NEW u
    PROVE  Affected(u, {}) = {}
<1>1. Closed(u, {})
  BY DEF Closed, Users
<1> QED
  BY <1>1, AffectedLeast

-----------------------------------------------------------------------------
(* The stack of mark_stale *)

FramesOf(w) == UNION {w[i] : i \in DOMAIN w}

LEMMA Pop ==
    ASSUME NEW w \in Seq(SUBSET Query), w # <<>>
    PROVE  /\ Head(w) \in SUBSET Query
           /\ Tail(w) \in Seq(SUBSET Query)
           /\ FramesOf(w) = Head(w) \cup FramesOf(Tail(w))
<1>1. /\ Head(w) = w[1]
      /\ Tail(w) \in Seq(SUBSET Query)
      /\ DOMAIN w = 1 .. Len(w)
      /\ Len(w) \in Nat \ {0}
      /\ DOMAIN Tail(w) = 1 .. (Len(w) - 1)
      /\ \A i \in 1 .. (Len(w) - 1) : Tail(w)[i] = w[i + 1]
  OBVIOUS
<1>2. w[1] \in SUBSET Query
  BY <1>1
<1>3. FramesOf(w) \subseteq Head(w) \cup FramesOf(Tail(w))
  <2> SUFFICES ASSUME NEW i \in DOMAIN w, i # 1
               PROVE  w[i] \subseteq FramesOf(Tail(w))
    BY <1>1 DEF FramesOf
  <2>1. i - 1 \in DOMAIN Tail(w) /\ Tail(w)[i - 1] = w[i]
    BY <1>1
  <2> QED
    BY <2>1 DEF FramesOf
<1>4. FramesOf(Tail(w)) \subseteq FramesOf(w)
  <2> SUFFICES ASSUME NEW i \in DOMAIN Tail(w)
               PROVE  Tail(w)[i] \subseteq FramesOf(w)
    BY DEF FramesOf
  <2>1. i + 1 \in DOMAIN w /\ Tail(w)[i] = w[i + 1]
    BY <1>1
  <2> QED
    BY <2>1 DEF FramesOf
<1>5. Head(w) \subseteq FramesOf(w)
  BY <1>1 DEF FramesOf
<1> QED
  BY <1>1, <1>2, <1>3, <1>4, <1>5

LEMMA Push ==
    ASSUME NEW w \in Seq(SUBSET Query),
           NEW A \in SUBSET Query, NEW B \in SUBSET Query
    PROVE  /\ <<A, B>> \o w \in Seq(SUBSET Query)
           /\ FramesOf(<<A, B>> \o w) = A \cup B \cup FramesOf(w)
<1> DEFINE v == <<A, B>> \o w
<1>1. /\ v \in Seq(SUBSET Query)
      /\ DOMAIN w = 1 .. Len(w)
      /\ Len(w) \in Nat
      /\ DOMAIN v = 1 .. (Len(w) + 2)
      /\ v[1] = A
      /\ v[2] = B
      /\ \A i \in 1 .. Len(w) : v[i + 2] = w[i]
  OBVIOUS
<1>2. FramesOf(v) \subseteq A \cup B \cup FramesOf(w)
  <2> SUFFICES ASSUME NEW i \in DOMAIN v, i # 1, i # 2
               PROVE  v[i] \subseteq FramesOf(w)
    BY <1>1 DEF FramesOf
  <2>1. i - 2 \in 1 .. Len(w) /\ v[i] = w[i - 2]
    BY <1>1
  <2> QED
    BY <1>1, <2>1 DEF FramesOf
<1>3. A \subseteq FramesOf(v) /\ B \subseteq FramesOf(v)
  BY <1>1 DEF FramesOf
<1>4. FramesOf(w) \subseteq FramesOf(v)
  <2> SUFFICES ASSUME NEW i \in DOMAIN w
               PROVE  w[i] \subseteq FramesOf(v)
    BY DEF FramesOf
  <2>1. i + 2 \in DOMAIN v /\ v[i + 2] = w[i]
    BY <1>1
  <2> QED
    BY <2>1 DEF FramesOf
<1> QED
  BY <1>1, <1>2, <1>3, <1>4

-----------------------------------------------------------------------------
(* Types *)

(* Every map of the store keeps its type, whatever the sets of files,      *)
(* cells, queries and edges.                                               *)
THEOREM TypeCorrect == Spec => []TypeOK
<1> USE DEF TypeOK
<1>1. Init => TypeOK
  BY DEF Init
<1>2. ASSUME TypeOK, [Next]_vars
      PROVE  TypeOK'
  <2>1a. ASSUME NEW q \in Query, Register(q)
         PROVE  TypeOK'
    BY <1>2, <2>1a DEF Register, RegisterInput
  <2>1. ASSUME NEW q \in Query, Execute(q)
        PROVE  TypeOK'
    BY <1>2, <2>1 DEF Execute, ExecuteQuery, Tick
  <2>2. ASSUME NEW q \in Query, ChangeInput(q)
        PROVE  TypeOK'
    <3>1. <<Dependents(q)>> \in Seq(SUBSET Query)
      BY DEF Dependents
    <3> QED
      BY <1>2, <2>2, <3>1 DEF ChangeInput, InvalidateInput, Tick
  <2>3. ASSUME NEW q \in Query, NEW d \in Query, Record(q, d)
        PROVE  TypeOK'
    BY <1>2, <2>3 DEF Record, RecordDependency, store
  <2>4. ASSUME NEW f \in File, NEW c \in GCell, InvalidateGcell(f, c)
        PROVE  TypeOK'
    <3>1. CellFrames(f, c) \in Seq(SUBSET Query)
      BY DEF CellFrames, Dependents
    <3> QED
      BY <1>2, <2>4, <3>1 DEF InvalidateGcell, DropCells, Tick
  <2>5. ASSUME NEW f \in File, NEW c1 \in GCell, NEW c2 \in GCell,
               InvalidateBoundaryPort(f, c1, c2)
        PROVE  TypeOK'
    <3>1. CellFrames(f, c1) \o CellFrames(f, c2) \in Seq(SUBSET Query)
      BY DEF CellFrames, Dependents
    <3> QED
      BY <1>2, <2>5, <3>1 DEF InvalidateBoundaryPort, DropCells, Tick
  <2>6. CASE InvalidateFile
    BY <1>2, <2>6 DEF InvalidateFile, Tick
  <2>7. CASE Clear
    BY <1>2, <2>7 DEF Clear
  <2>8. CASE MarkStaleReturn
    BY <1>2, <2>8 DEF MarkStaleReturn, store
  <2>9. ASSUME NEW p \in Query, MarkStaleVisit(p)
        PROVE  TypeOK'
    <3>1. /\ Head(work) \ {p} \in SUBSET Query
          /\ Tail(work) \in Seq(SUBSET Query)
          /\ Dependents(p) \in SUBSET Query
      BY <1>2, <2>9, Pop DEF MarkStaleVisit, Dependents
    <3>2. work' \in Seq(SUBSET Query)
      BY <2>9, <3>1, Push DEF MarkStaleVisit
    <3> QED
      BY <1>2, <2>9, <3>2 DEF MarkStaleVisit
  <2>10. CASE UNCHANGED vars
    BY <1>2, <2>10 DEF vars
  <2> QED
    BY <1>2, <2>1a, <2>1, <2>2, <2>3, <2>4, <2>5, <2>6, <2>7, <2>8, <2>9, <2>10
       DEF Next, Operation, MarkStaleStep
<1> QED
  BY <1>1, <1>2, PTL DEF Spec

-----------------------------------------------------------------------------
(* Live memos *)

Computed == {q \in Query : results[q] # 0}

LEMMA IdleLive ==
    ASSUME Idle
    PROVE  Marked = {} /\ Live = Computed
<1>1. Marked = {}
  BY DEF Marked, Idle
<1> QED
  BY <1>1, AffectedEmpty DEF Live, Computed

(* One iteration of mark_stale changes nothing a caller can see: what it   *)
(* drops was affected already, and what it adds to the stack was too.      *)
LEMMA VisitKeepsLive ==
    ASSUME TypeOK, NEW p \in Query, MarkStaleVisit(p)
    PROVE  Live' = Live
<1> DEFINE D == dependencies
           T == FramesOf(Tail(work))
<1>1. /\ Head(work) \in SUBSET Query
      /\ Tail(work) \in Seq(SUBSET Query)
      /\ Marked = Head(work) \cup T
      /\ Dependents(p) \in SUBSET Query
      /\ p \in Head(work)
  BY Pop DEF MarkStaleVisit, TypeOK, Dependents, Marked, FramesOf
<1>2. Marked' = Dependents(p) \cup (Head(work) \ {p}) \cup T
  <2>1. Head(work) \ {p} \in SUBSET Query
    BY <1>1
  <2>2. FramesOf(<<Dependents(p), Head(work) \ {p}>> \o Tail(work))
          = Dependents(p) \cup (Head(work) \ {p}) \cup T
    BY <1>1, <2>1, Push
  <2> QED
    BY <2>2 DEF Marked, FramesOf, MarkStaleVisit
<1>3. Marked \in SUBSET Query /\ Marked' \in SUBSET Query
  <2>1. T \subseteq Query
    BY <1>1 DEF FramesOf
  <2> QED
    BY <1>1, <1>2, <2>1
<1>4. Affected(D, Marked') \subseteq Affected(D, Marked)
  <2>1. Affected(D, Marked) \in SUBSET Query
    BY DEF Affected
  <2>2. Marked \subseteq Affected(D, Marked)
    BY <1>3, AffectedContains
  <2>3. Closed(D, Affected(D, Marked))
    BY AffectedClosed
  <2>4. Dependents(p) \subseteq Affected(D, Marked)
    BY <1>1, <2>2, <2>3 DEF Dependents, Closed, Users
  <2>5. Marked' \subseteq Affected(D, Marked)
    BY <1>1, <1>2, <2>2, <2>4
  <2> QED
    BY <2>1, <2>3, <2>5, AffectedLeast
<1>5. Affected(D, Marked) \subseteq Affected(D, Marked') \cup {p}
  <2> DEFINE C == Affected(D, Marked') \cup {p}
  <2>1. C \in SUBSET Query
    BY DEF Affected
  <2>2. Marked' \subseteq Affected(D, Marked')
    BY <1>3, AffectedContains
  <2>3. Marked \subseteq C
    BY <1>1, <1>2, <2>2
  <2>4. Closed(D, Affected(D, Marked'))
    BY AffectedClosed
  <2>5. Closed(D, C)
    <3> SUFFICES ASSUME NEW q \in Query, D[q] \cap C # {}
                 PROVE  q \in C
      BY DEF Closed, Users
    <3>1. CASE p \in D[q]
      BY <1>2, <2>2, <3>1 DEF Dependents
    <3>2. CASE D[q] \cap Affected(D, Marked') # {}
      BY <2>4, <3>2 DEF Closed, Users
    <3> QED
      BY <3>1, <3>2
  <2> QED
    BY <2>1, <2>3, <2>5, AffectedLeast
<1>6. /\ dependencies' = dependencies
      /\ \A q \in Query : results'[q] = IF q = p THEN 0 ELSE results[q]
  BY DEF MarkStaleVisit, TypeOK
<1>7. p \in Affected(D, Marked)
  BY <1>1, <1>3, AffectedContains
<1>8. Live' = {q \in Query : results'[q] # 0} \ Affected(D, Marked')
  BY <1>6 DEF Live
<1> QED
  BY <1>4, <1>5, <1>6, <1>7, <1>8 DEF Live

LEMMA ReturnKeepsLive ==
    ASSUME TypeOK, MarkStaleReturn
    PROVE  Live' = Live
<1>1. FramesOf(work) = Head(work) \cup FramesOf(Tail(work))
  BY Pop DEF MarkStaleReturn, TypeOK
<1>2. Marked' = Marked
  <2>1. Marked = FramesOf(work) /\ Marked' = FramesOf(work')
    BY DEF Marked, FramesOf
  <2> QED
    BY <1>1, <2>1 DEF MarkStaleReturn
<1> QED
  BY <1>2 DEF MarkStaleReturn, Live, store

-----------------------------------------------------------------------------
(* The inductive invariant *)

(* What an invalidation leaves alive: it drops the queries gone and stacks *)
(* calls for their dependents, so the live memos that remain use none of   *)
(* gone, and whatever live memo they use remains.                          *)
LEMMA Invalidation ==
    ASSUME TypeOK, Idle,
           NEW gone, NEW roots,
           dependencies' = dependencies,
           \A q \in Query : results'[q] = IF q \in gone THEN 0 ELSE results[q],
           Marked' = Users(dependencies, roots),
           gone \subseteq roots
    PROVE  /\ Live' \subseteq Live
           /\ \A q \in Live' : /\ results'[q] = results[q]
                               /\ dependencies[q] \cap roots = {}
                               /\ dependencies[q] \cap Live \subseteq Live'
<1> DEFINE A == Affected(dependencies, Marked')
<1>1. Live = Computed
  BY IdleLive
<1>2. Live' = {q \in Query : results'[q] # 0} \ A
  BY DEF Live
<1>3. Live' = (Computed \ gone) \ A
  BY <1>2 DEF Computed
<1>4. Users(dependencies, roots) \subseteq A
  BY AffectedContains DEF Users
<1>5. Closed(dependencies, A)
  BY AffectedClosed
<1>6. ASSUME NEW q \in Live'
      PROVE  /\ dependencies[q] \cap roots = {}
             /\ dependencies[q] \cap Live \subseteq Live'
  <2>1. dependencies[q] \cap roots = {}
    BY <1>3, <1>4, <1>6 DEF Users, Computed
  <2>2. dependencies[q] \cap A = {}
    BY <1>3, <1>5, <1>6 DEF Closed, Users, Computed
  <2> QED
    BY <1>1, <1>3, <2>1, <2>2
<1> QED
  BY <1>1, <1>3, <1>6 DEF Computed

(* When no result is dropped. *)
LEMMA UncomputedInvalidation ==
    ASSUME TypeOK, Idle, NEW roots,
           dependencies' = dependencies, results' = results,
           Marked' = Users(dependencies, roots)
    PROVE  /\ Live' \subseteq Live
           /\ \A q \in Live' : /\ dependencies[q] \cap roots = {}
                               /\ dependencies[q] \cap Live \subseteq Live'
<1> DEFINE gone == {}
<1>1. \A q \in Query : results'[q] = IF q \in gone THEN 0 ELSE results[q]
  OBVIOUS
<1>2. gone \subseteq roots
  OBVIOUS
<1> HIDE DEF gone
<1>3. /\ Live' \subseteq Live
      /\ \A q \in Live' : /\ results'[q] = results[q]
                          /\ dependencies[q] \cap roots = {}
                          /\ dependencies[q] \cap Live \subseteq Live'
  BY <1>1, <1>2, Invalidation
<1> QED
  BY <1>3

LEMMA InitInv == Init => MemoInv
  BY DEF Init, MemoInv, TimesBehindClock, InputsUseNothing, DirectlyFresh,
         Layered, OwnTimes, Live

LEMMA RegisterInv ==
    ASSUME TypeOK, MemoInv, NEW q \in Query, Register(q)
    PROVE  MemoInv'
<1> USE DEF Register, RegisterInput
<1>1. dependencies' = dependencies
  BY DEF MemoInv, InputsUseNothing, TypeOK
<1>2. Live' = Live
  BY <1>1 DEF Live, Marked
<1>3. TimesBehindClock'
  BY DEF MemoInv, TimesBehindClock, TypeOK
<1> QED
  BY <1>1, <1>2, <1>3
     DEF MemoInv, InputsUseNothing, DirectlyFresh, Layered, OwnTimes, TypeOK, Live

LEMMA ExecuteInv ==
    ASSUME TypeOK, MemoInv, NEW q \in Query, Execute(q)
    PROVE  MemoInv'
<1> USE DEF Execute, ExecuteQuery, Tick, TypeOK
<1>1. Live = Computed
  BY IdleLive
<1>2. Live' = Computed \cup {q}
  <2>1. Marked' = {}
    BY DEF Marked, Idle
  <2> QED
    BY <2>1, AffectedEmpty DEF Live, Computed
<1>3. TimesBehindClock'
  BY DEF MemoInv, TimesBehindClock
<1>4. DirectlyFresh'
  BY <1>1, <1>2 DEF MemoInv, DirectlyFresh, TimesBehindClock, Computed
<1>5. Layered'
  <2> SUFFICES ASSUME NEW p \in Live', NEW d \in dependencies[p] \ Input
               PROVE  d \in Live' /\ results'[d] < results'[p]
    BY DEF Layered
  <2>1. CASE p = q
    <3>1. results[d] # 0 /\ d # q
      BY <2>1 DEF Available
    <3> QED
      BY <1>2, <2>1, <3>1 DEF Computed, MemoInv, TimesBehindClock
  <2>2. CASE p # q
    <3>1. p \in Live /\ d \in Live /\ results[d] < results[p] /\ d # q
      BY <1>1, <1>2, <2>2 DEF Computed, MemoInv, Layered
    <3> QED
      BY <1>1, <1>2, <2>2, <3>1
  <2> QED
    BY <2>1, <2>2
<1>6. OwnTimes'
  BY DEF MemoInv, OwnTimes, TimesBehindClock
<1> QED
  BY <1>3, <1>4, <1>5, <1>6 DEF MemoInv, InputsUseNothing

LEMMA RecordInv ==
    ASSUME TypeOK, MemoInv, NEW q \in Query, NEW d \in Query, Record(q, d)
    PROVE  MemoInv'
<1> USE DEF Record, RecordDependency, TypeOK, store
<1>1. Live = Computed
  BY IdleLive
<1>2. Live' = Computed
  <2>1. Marked' = {}
    BY DEF Marked, Idle
  <2> QED
    BY <2>1, AffectedEmpty DEF Live, Computed
<1>3. q \notin Live /\ q \notin Input
  BY <1>1, EdgeAssumption DEF Computed
<1> QED
  BY <1>1, <1>2, <1>3
     DEF MemoInv, TimesBehindClock, InputsUseNothing, DirectlyFresh, Layered, OwnTimes

LEMMA ChangeInputInv ==
    ASSUME TypeOK, MemoInv, NEW q \in Query, ChangeInput(q)
    PROVE  MemoInv'
<1> USE DEF ChangeInput, InvalidateInput, Tick, TypeOK
<1>1. Marked' = Users(dependencies, {q})
  BY DEF Marked, Users, Dependents
<1>2. /\ Live' \subseteq Live
      /\ \A p \in Live' : /\ dependencies[p] \cap {q} = {}
                          /\ dependencies[p] \cap Live \subseteq Live'
  <2>1. dependencies' = dependencies /\ results' = results /\ Idle /\ TypeOK
    OBVIOUS
  <2> HIDE DEF ChangeInput, InvalidateInput, Tick, TypeOK
  <2> QED
    BY <1>1, <2>1, UncomputedInvalidation
<1>3. TimesBehindClock'
  BY DEF MemoInv, TimesBehindClock
<1>4. DirectlyFresh'
  BY <1>2 DEF MemoInv, DirectlyFresh, Live
<1>5. Layered'
  BY <1>2 DEF MemoInv, Layered
<1>6. OwnTimes'
  BY DEF MemoInv, OwnTimes
<1> QED
  BY <1>3, <1>4, <1>5, <1>6 DEF MemoInv, InputsUseNothing

(* Both forms of cell invalidation, for the cells cs. *)
LEMMA DropCellsInv ==
    ASSUME TypeOK, MemoInv, Idle, Tick, NEW f, NEW cs, DropCells(f, cs),
           UNCHANGED dependencies,
           Marked' = Users(dependencies, {RouteGcell(f, c) : c \in cs}
                                            \cup {VerifyGcell(f, c) : c \in cs})
    PROVE  MemoInv'
<1> DEFINE gone == {RouteGcell(f, c) : c \in cs} \cup {VerifyGcell(f, c) : c \in cs}
<1> USE DEF Tick, TypeOK
<1>1. /\ results' = [q \in Query |-> IF q \in gone THEN 0 ELSE results[q]]
      /\ timestamps' = [q \in Query |-> IF q \in gone THEN 0 ELSE timestamps[q]]
      /\ invalidation_times' = [q \in Query |-> IF q \in gone THEN current_time'
                                                    ELSE invalidation_times[q]]
  BY DEF DropCells
<1> HIDE DEF gone
<1>2. /\ Live' \subseteq Live
      /\ \A p \in Live' : /\ results'[p] = results[p]
                          /\ dependencies[p] \cap gone = {}
                          /\ dependencies[p] \cap Live \subseteq Live'
  <2>1. Marked' = Users(dependencies, gone)
    BY DEF gone
  <2> QED
    BY <1>1, <2>1, Invalidation
<1>3. TimesBehindClock'
  BY <1>1 DEF MemoInv, TimesBehindClock
<1>4. DirectlyFresh'
  <2> SUFFICES ASSUME NEW q \in Live', NEW d \in dependencies[q]
               PROVE  invalidation_times'[d] < results'[q]
    BY DEF DirectlyFresh
  <2>1. q \in Live /\ d \notin gone /\ results'[q] = results[q]
    BY <1>2
  <2>2. d \in Query
    BY <2>1 DEF Live
  <2>3. invalidation_times'[d] = invalidation_times[d]
    BY <1>1, <2>1, <2>2
  <2>4. invalidation_times[d] < results[q]
    BY <2>1 DEF MemoInv, DirectlyFresh
  <2> QED
    BY <2>1, <2>3, <2>4
<1>5. Layered'
  BY <1>2 DEF MemoInv, Layered
<1>6. OwnTimes'
  BY <1>1 DEF MemoInv, OwnTimes
<1> QED
  BY <1>3, <1>4, <1>5, <1>6 DEF MemoInv, InputsUseNothing

LEMMA GcellMarks ==
    ASSUME NEW f, NEW c, InvalidateGcell(f, c)
    PROVE  Marked' = Users(dependencies, {RouteGcell(f, x) : x \in {c}}
                                            \cup {VerifyGcell(f, x) : x \in {c}})
<1>1. DOMAIN work' = {1, 2} /\ work'[1] = Dependents(RouteGcell(f, c))
                           /\ work'[2] = Dependents(VerifyGcell(f, c))
  BY DEF InvalidateGcell, CellFrames
<1>2. Marked' = Dependents(RouteGcell(f, c)) \cup Dependents(VerifyGcell(f, c))
  BY <1>1 DEF Marked
<1> QED
  BY <1>2 DEF Users, Dependents

LEMMA BoundaryPortMarks ==
    ASSUME NEW f, NEW c1, NEW c2, InvalidateBoundaryPort(f, c1, c2)
    PROVE  Marked' = Users(dependencies, {RouteGcell(f, x) : x \in {c1, c2}}
                                            \cup {VerifyGcell(f, x) : x \in {c1, c2}})
<1>1. /\ DOMAIN work' = 1 .. 4
      /\ work'[1] = Dependents(RouteGcell(f, c1))
      /\ work'[2] = Dependents(VerifyGcell(f, c1))
      /\ work'[3] = Dependents(RouteGcell(f, c2))
      /\ work'[4] = Dependents(VerifyGcell(f, c2))
  BY DEF InvalidateBoundaryPort, CellFrames
<1>2. 1 .. 4 = {1, 2, 3, 4}
  OBVIOUS
<1>3. Marked' = work'[1] \cup work'[2] \cup work'[3] \cup work'[4]
  BY <1>1, <1>2 DEF Marked
<1> QED
  BY <1>1, <1>3 DEF Users, Dependents

LEMMA GcellInv ==
    ASSUME TypeOK, MemoInv, NEW f \in File, NEW c \in GCell, InvalidateGcell(f, c)
    PROVE  MemoInv'
<1>1. Marked' = Users(dependencies, {RouteGcell(f, x) : x \in {c}}
                                       \cup {VerifyGcell(f, x) : x \in {c}})
  BY GcellMarks
<1> QED
  BY <1>1, DropCellsInv DEF InvalidateGcell

LEMMA BoundaryPortInv ==
    ASSUME TypeOK, MemoInv, NEW f \in File, NEW c1 \in GCell, NEW c2 \in GCell,
           InvalidateBoundaryPort(f, c1, c2)
    PROVE  MemoInv'
<1>1. Marked' = Users(dependencies, {RouteGcell(f, x) : x \in {c1, c2}}
                                       \cup {VerifyGcell(f, x) : x \in {c1, c2}})
  BY BoundaryPortMarks
<1> QED
  BY <1>1, DropCellsInv DEF InvalidateBoundaryPort

LEMMA FileInv ==
    ASSUME TypeOK, MemoInv, InvalidateFile
    PROVE  MemoInv'
<1> USE DEF InvalidateFile, Tick, TypeOK
<1>1. Live' = {}
  BY DEF Live
<1>2. TimesBehindClock'
  BY DEF MemoInv, TimesBehindClock
<1> QED
  BY <1>1, <1>2
     DEF MemoInv, InputsUseNothing, DirectlyFresh, Layered, OwnTimes

LEMMA ClearInv == ASSUME Clear PROVE MemoInv'
<1>1. Live' = {}
  BY DEF Clear, Live
<1> QED
  BY <1>1 DEF Clear, MemoInv, TimesBehindClock, InputsUseNothing,
              DirectlyFresh, Layered, OwnTimes

LEMMA MarkStaleInv ==
    ASSUME TypeOK, MemoInv, MarkStaleStep
    PROVE  MemoInv'
<1>1. CASE MarkStaleReturn
  BY <1>1, ReturnKeepsLive
     DEF MarkStaleReturn, store, MemoInv, TimesBehindClock, InputsUseNothing,
         DirectlyFresh, Layered, OwnTimes
<1>2. ASSUME NEW p \in Query, MarkStaleVisit(p)
      PROVE  MemoInv'
  <2>1. /\ Live' = Live
        /\ dependencies' = dependencies
        /\ invalidation_times' = invalidation_times
        /\ current_time' = current_time
        /\ \A q \in Query : /\ results'[q] = IF q = p THEN 0 ELSE results[q]
                            /\ timestamps'[q] = IF q = p THEN 0 ELSE timestamps[q]
    BY <1>2, VisitKeepsLive DEF MarkStaleVisit, TypeOK
  <2>2. \A q \in Live : q \in Query /\ results'[q] = results[q]
    BY <2>1 DEF Live
  <2>3. TimesBehindClock'
    BY <2>1 DEF MemoInv, TimesBehindClock, TypeOK
  <2>4. DirectlyFresh' /\ Layered'
    BY <2>1, <2>2 DEF MemoInv, DirectlyFresh, Layered
  <2>5. OwnTimes' /\ InputsUseNothing'
    BY <2>1 DEF MemoInv, OwnTimes, InputsUseNothing
  <2> QED
    BY <2>3, <2>4, <2>5 DEF MemoInv
<1> QED
  BY <1>1, <1>2 DEF MarkStaleStep

THEOREM MemoInvariant == Spec => []MemoInv
<1>1. TypeOK /\ MemoInv /\ [Next]_vars => MemoInv'
  <2> SUFFICES ASSUME TypeOK, MemoInv, [Next]_vars
               PROVE  MemoInv'
    OBVIOUS
  <2>1. CASE UNCHANGED vars
    <3>1. Live' = Live
      BY <2>1 DEF vars, Live, Marked
    <3> QED
      BY <2>1, <3>1 DEF vars, MemoInv, TimesBehindClock, InputsUseNothing,
                DirectlyFresh, Layered, OwnTimes
  <2> QED
    BY <2>1, RegisterInv, ExecuteInv, RecordInv, ChangeInputInv, GcellInv,
       BoundaryPortInv, FileInv, ClearInv, MarkStaleInv DEF Next, Operation
<1> QED
  BY <1>1, InitInv, TypeCorrect, PTL DEF Spec

-----------------------------------------------------------------------------
(* What callers rely on *)

(* No live memo is older than a change to anything it was computed from,   *)
(* at whatever distance in the dependency graph.                           *)
THEOREM FreshMemoTheorem == Spec => []FreshMemo
<1>1. TypeOK /\ MemoInv => FreshMemo
  <2> SUFFICES ASSUME TypeOK, MemoInv, NEW d \in Query
               PROVE  \A q \in Live \cap Affected(dependencies, Users(dependencies, {d})) :
                          invalidation_times[d] < results[q]
    BY DEF FreshMemo
  <2> DEFINE C == {q \in Query \ Input :
                      q \in Live => invalidation_times[d] < results[q]}
  <2>1. Users(dependencies, {d}) \subseteq C
    BY DEF MemoInv, DirectlyFresh, InputsUseNothing, Users
  <2>2. Closed(dependencies, C)
    <3> SUFFICES ASSUME NEW p \in Query, NEW e \in C, e \in dependencies[p]
                 PROVE  p \in C
      BY DEF Closed, Users
    <3>1. p \notin Input
      BY DEF MemoInv, InputsUseNothing
    <3>2. ASSUME p \in Live
          PROVE  invalidation_times[d] < results[p]
      <4>1. e \in Live /\ results[e] < results[p]
        BY <3>2 DEF MemoInv, Layered
      <4>2. invalidation_times[d] < results[e]
        BY <4>1
      <4> QED
        BY <4>1, <4>2 DEF TypeOK
    <3> QED
      BY <3>1, <3>2
  <2>3. Affected(dependencies, Users(dependencies, {d})) \subseteq C
    BY <2>1, <2>2, AffectedLeast
  <2> QED
    BY <2>3
<1> QED
  BY <1>1, TypeCorrect, MemoInvariant, PTL

(* A derived query with a live memo is stale to no reader of the store.    *)
THEOREM AnswersAgreeTheorem == Spec => []AnswersAgree
<1>1. TypeOK /\ MemoInv => AnswersAgree
  BY DEF AnswersAgree, MemoInv, OwnTimes, DirectlyFresh, TimesBehindClock,
         is_stale, Servable, Live, TypeOK
<1> QED
  BY <1>1, TypeCorrect, MemoInvariant, PTL

-----------------------------------------------------------------------------
(* The store implements the abstract memo table *)

LEMMA AffectedUnfold ==
    ASSUME NEW u, NEW S \in SUBSET Query
    PROVE  Affected(u, S) = S \cup Affected(u, Users(u, S))
<1> DEFINE C == S \cup Affected(u, Users(u, S))
<1>1. C \in SUBSET Query /\ Affected(u, S) \in SUBSET Query
  BY DEF Affected
<1>2. Users(u, S) \subseteq Affected(u, Users(u, S))
  BY AffectedContains DEF Users
<1>3. Closed(u, C)
  BY <1>2, AffectedClosed DEF Closed, Users
<1>4. Affected(u, S) \subseteq C
  BY <1>1, <1>3, AffectedLeast
<1>5. S \subseteq Affected(u, S) /\ Closed(u, Affected(u, S))
  BY AffectedContains, AffectedClosed
<1>6. Users(u, S) \subseteq Affected(u, S)
  BY <1>5 DEF Closed, Users
<1>7. Affected(u, Users(u, S)) \subseteq Affected(u, S)
  BY <1>1, <1>5, <1>6, AffectedLeast
<1> QED
  BY <1>4, <1>5, <1>7

LEMMA SameAffected ==
    ASSUME NEW u, NEW S
    PROVE  M!Affected(u, S) = Affected(u, S) /\ M!Users(u, S) = Users(u, S)
BY DEF M!Affected, M!Closed, M!Users, Affected, Closed, Users

(* Dropping cells is one abstract Drop of those of their queries that are  *)
(* in play.                                                                *)
LEMMA DropCellsRefines ==
    ASSUME TypeOK, Idle, NEW f, NEW cs, DropCells(f, cs),
           UNCHANGED dependencies,
           Marked' = Users(dependencies, {RouteGcell(f, c) : c \in cs}
                                            \cup {VerifyGcell(f, c) : c \in cs})
    PROVE  M!Next
<1> DEFINE gone == {RouteGcell(f, c) : c \in cs} \cup {VerifyGcell(f, c) : c \in cs}
           S == gone \cap Query
<1>1. results' = [q \in Query |-> IF q \in gone THEN 0 ELSE results[q]]
  BY DEF DropCells
<1>2. Live = Computed
  BY IdleLive
<1>3. Marked' = Users(dependencies, S)
  BY DEF Users, TypeOK
<1> HIDE DEF gone
<1>4. Live' = (Computed \ S) \ Affected(dependencies, Users(dependencies, S))
  BY <1>1, <1>3 DEF Live, Computed
<1>5. S \in SUBSET Query
  OBVIOUS
<1> HIDE DEF S
<1>6. Live' = Live \ Affected(dependencies, S)
  <2>1. Affected(dependencies, S) = S \cup Affected(dependencies, Users(dependencies, S))
    BY <1>5, AffectedUnfold
  <2> QED
    BY <1>2, <1>4, <2>1
<1>7. M!Drop(S)
  BY <1>6, SameAffected DEF M!Drop
<1> QED
  BY <1>5, <1>7 DEF M!Next

LEMMA OperationRefines ==
    ASSUME TypeOK, MemoInv, Operation
    PROVE  M!Next \/ UNCHANGED <<Live, dependencies>>
<1>1. ASSUME NEW q \in Query, Register(q)
      PROVE  UNCHANGED <<Live, dependencies>>
  <2>1. dependencies' = dependencies
    BY <1>1 DEF MemoInv, InputsUseNothing, TypeOK, Register, RegisterInput
  <2> QED
    BY <1>1, <2>1 DEF Live, Marked, Register, RegisterInput
<1>2. ASSUME NEW q \in Query, Execute(q)
      PROVE  M!Compute(q)
  <2>1. Live = Computed
    BY <1>2, IdleLive DEF Execute, ExecuteQuery
  <2>2. Marked' = {}
    BY <1>2 DEF Marked, Idle, Execute, ExecuteQuery
  <2>3. Live' = Computed \cup {q}
    BY <1>2, <2>2, AffectedEmpty
       DEF Live, Computed, Execute, ExecuteQuery, Tick, TypeOK
  <2> QED
    BY <1>2, <2>1, <2>3 DEF M!Compute, Execute, ExecuteQuery
<1>3. ASSUME NEW q \in Query, NEW d \in Query, Record(q, d)
      PROVE  M!Record(q, d)
  <2>1. Live = Computed
    BY <1>3, IdleLive DEF Record, RecordDependency
  <2>2. Marked' = {}
    BY <1>3 DEF Marked, Idle, Record, RecordDependency
  <2>3. Live' = Computed
    BY <1>3, <2>2, AffectedEmpty DEF Live, Computed, Record, RecordDependency, store
  <2> QED
    BY <1>3, <2>1, <2>3 DEF M!Record, Record, RecordDependency
<1>4. ASSUME NEW q \in Query, ChangeInput(q)
      PROVE  M!ChangeInput(q)
  <2>1. Live = Computed
    BY <1>4, IdleLive DEF ChangeInput, InvalidateInput
  <2>2. Marked' = Users(dependencies, {q})
    BY <1>4 DEF Marked, Users, Dependents, ChangeInput, InvalidateInput
  <2>3. Live' = Computed \ Affected(dependencies, Users(dependencies, {q}))
    BY <1>4, <2>2 DEF Live, Computed, ChangeInput, InvalidateInput
  <2> QED
    BY <1>4, <2>1, <2>3, SameAffected
       DEF M!ChangeInput, ChangeInput, InvalidateInput
<1>5. ASSUME NEW f \in File, NEW c \in GCell, InvalidateGcell(f, c)
      PROVE  M!Next
  <2>1. Marked' = Users(dependencies, {RouteGcell(f, x) : x \in {c}}
                                         \cup {VerifyGcell(f, x) : x \in {c}})
    BY <1>5, GcellMarks
  <2> QED
    BY <1>5, <2>1, DropCellsRefines DEF InvalidateGcell
<1>6. ASSUME NEW f \in File, NEW c1 \in GCell, NEW c2 \in GCell,
             InvalidateBoundaryPort(f, c1, c2)
      PROVE  M!Next
  <2>1. Marked' = Users(dependencies, {RouteGcell(f, x) : x \in {c1, c2}}
                                         \cup {VerifyGcell(f, x) : x \in {c1, c2}})
    BY <1>6, BoundaryPortMarks
  <2> QED
    BY <1>6, <2>1, DropCellsRefines DEF InvalidateBoundaryPort
<1>7. CASE InvalidateFile
  <2>1. Live' = {}
    BY <1>7 DEF InvalidateFile, Live
  <2> QED
    BY <1>7, <2>1 DEF M!Next, M!Reset, InvalidateFile
<1>8. CASE Clear
  <2>1. Live' = {}
    BY <1>8 DEF Clear, Live
  <2> QED
    BY <1>8, <2>1 DEF M!Next, M!Reset, M!NoUses, Clear
<1> QED
  BY <1>1, <1>2, <1>3, <1>4, <1>5, <1>6, <1>7, <1>8 DEF Operation, M!Next

(* No caller can tell the recursive marking from one atomic drop of all    *)
(* that the change affects.                                                *)
THEOREM MemoRefinement == Spec => ImplementsMemo
<1>1. Init => M!Init
  BY DEF Init, M!Init, M!NoUses, Live
<1>2. TypeOK /\ MemoInv /\ [Next]_vars => [M!Next]_<<Live, dependencies>>
  <2> SUFFICES ASSUME TypeOK, MemoInv, [Next]_vars
               PROVE  M!Next \/ UNCHANGED <<Live, dependencies>>
    OBVIOUS
  <2>1. CASE Operation
    BY <2>1, OperationRefines
  <2>2. CASE MarkStaleReturn
    BY <2>2, ReturnKeepsLive DEF MarkStaleReturn
  <2>3. ASSUME NEW p \in Query, MarkStaleVisit(p)
        PROVE  UNCHANGED <<Live, dependencies>>
    BY <2>3, VisitKeepsLive DEF MarkStaleVisit
  <2>4. CASE UNCHANGED vars
    BY <2>4 DEF vars, Live, Marked
  <2> QED
    BY <2>1, <2>2, <2>3, <2>4 DEF Next, MarkStaleStep
<1> QED
  BY <1>1, <1>2, TypeCorrect, MemoInvariant, PTL DEF Spec, ImplementsMemo, M!Spec
=============================================================================
