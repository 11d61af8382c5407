----------------------------- MODULE QueryStore -----------------------------
(***************************************************************************)
(* The memo table of the incremental query engine:                         *)
(*   hwc-engine/src/geometry_router/query_engine/{store,pipeline}.rs       *)
(*                                                                         *)
(* A query id (type, file, cell) is a key of several hash maps.  A map is  *)
(* a total function here, with 0 for "no entry": every clock value that is *)
(* stored is positive, except a timestamp that register_input writes at    *)
(* time 0, which no read of the code tells from a missing one.             *)
(*                                                                         *)
(* The value a query computes is abstracted to the clock at which it was   *)
(* computed: whether a memo may still be served depends on nothing else.   *)
(*                                                                         *)
(* mark_stale is recursive.  Its call stack is the variable work: a frame  *)
(* is the set of dependents that call has collected and not yet visited    *)
(* (HashMap iteration order, hence a set).  The store is behind &mut self, *)
(* so no other operation starts while work is not empty.                   *)
(***************************************************************************)
EXTENDS Naturals, Sequences

CONSTANTS
    File,      \* file ids
    GCell,     \* ids of routing cells
    Query,     \* the query ids in play
    MaxTime    \* bound on the u64 clock, for model checking only

VARIABLES
    results,             \* results[q]: timestamp of the MemoEntry, 0 if none
    dependencies,        \* dependencies[q]: the queries q was recorded to use
    timestamps,          \* timestamps[q], 0 if none
    current_time,
    invalidation_times,  \* invalidation_times[q], 0 if none
    work                 \* call stack of mark_stale

store == <<results, timestamps, current_time, invalidation_times>>
vars  == <<results, dependencies, timestamps, current_time,
           invalidation_times, work>>

-----------------------------------------------------------------------------
(* Query ids. make_query_id hashes type, file and parameters; the model    *)
(* keeps the triple, i.e. it takes the 64-bit hash to be collision free.   *)

FileQuery == [type : {"ParseAst", "ResolveSymbols", "PartitionGcells"},
              file : File]
CellQuery == [type : {"RouteGcell", "VerifyGcell"}, file : File, cell : GCell]

ASSUME QueryAssumption == Query \subseteq FileQuery \cup CellQuery

RouteGcell(f, c)  == [type |-> "RouteGcell",  file |-> f, cell |-> c]
VerifyGcell(f, c) == [type |-> "VerifyGcell", file |-> f, cell |-> c]

Idle == work = <<>>

(* Mutant: the dependency list is followed in the wrong direction. *)
Dependents_reversed(q) == {p \in Query : q \in Query /\ p \in dependencies[q]}

(* The queries whose dependency list contains q. *)
Dependents(q) == {p \in Query : q \in dependencies[p]}

-----------------------------------------------------------------------------
(* Reads *)

is_stale(q) ==
    \/ results[q] = 0
    \/ /\ timestamps[q] # 0
       /\ \E d \in dependencies[q] : invalidation_times[d] > timestamps[q]

(* get_result(q).is_some() *)
Servable(q) == results[q] # 0 /\ invalidation_times[q] <= results[q]

-----------------------------------------------------------------------------
Init ==
    /\ results            = [q \in Query |-> 0]
    /\ dependencies       = [q \in Query |-> {}]
    /\ timestamps         = [q \in Query |-> 0]
    /\ current_time       = 0
    /\ invalidation_times = [q \in Query |-> 0]
    /\ work               = <<>>

Tick == current_time < MaxTime /\ current_time' = current_time + 1

(* execute_query: a query that is in the table is not computed again,      *)
(* whatever its invalidation time says.                                    *)
ExecuteQuery(q) ==
    /\ Idle
    /\ results[q] = 0
    /\ Tick
    /\ results'    = [results EXCEPT ![q] = current_time']
    /\ timestamps' = [timestamps EXCEPT ![q] = current_time']
    /\ UNCHANGED <<dependencies, invalidation_times, work>>

RegisterInput(q) ==
    /\ Idle
    /\ dependencies' = [dependencies EXCEPT ![q] = {}]
    /\ timestamps'   = [timestamps EXCEPT ![q] = current_time]
    /\ UNCHANGED <<results, current_time, invalidation_times, work>>

(* record_dependency; record_dependencies is a sequence of these. *)
RecordDependency(q, d) ==
    /\ Idle
    /\ dependencies' = [dependencies EXCEPT ![q] = @ \cup {d}]
    /\ UNCHANGED <<store, work>>

(* invalidate_input: the input's own entry stays in the table. *)
InvalidateInput(q) ==
    /\ Idle
    /\ Tick
    /\ invalidation_times' = [invalidation_times EXCEPT ![q] = current_time']
    /\ work' = <<Dependents(q)>>
    /\ UNCHANGED <<results, dependencies, timestamps>>

(* Mutant: the invalidation is dated but the entries stay. *)
DropCells_kept(f, cells) ==
    LET gone == {RouteGcell(f, c) : c \in cells}
                    \cup {VerifyGcell(f, c) : c \in cells}
    IN  /\ UNCHANGED <<results, timestamps>>
        /\ invalidation_times' =
               [q \in Query |-> IF q \in gone THEN current_time'
                                              ELSE invalidation_times[q]]

(* Entries removed by name, then mark_stale of each of them in turn. *)
DropCells(f, cells) ==
    LET gone == {RouteGcell(f, c) : c \in cells}
                    \cup {VerifyGcell(f, c) : c \in cells}
    IN  /\ results'    = [q \in Query |-> IF q \in gone THEN 0 ELSE results[q]]
        /\ timestamps' = [q \in Query |-> IF q \in gone THEN 0 ELSE timestamps[q]]
        /\ invalidation_times' =
               [q \in Query |-> IF q \in gone THEN current_time'
                                              ELSE invalidation_times[q]]

CellFrames(f, c) == <<Dependents(RouteGcell(f, c)), Dependents(VerifyGcell(f, c))>>

InvalidateGcell(f, c) ==
    /\ Idle
    /\ Tick
    /\ DropCells(f, {c})
    /\ work' = CellFrames(f, c)
    /\ UNCHANGED dependencies

(* The code drops the second cell's entries after marking the first's      *)
(* dependents; mark_stale reads dependencies only, so the order of the     *)
(* removals makes no difference.                                           *)
InvalidateBoundaryPort(f, c1, c2) ==
    /\ Idle
    /\ Tick
    /\ DropCells(f, {c1, c2})
    /\ work' = CellFrames(f, c1) \o CellFrames(f, c2)
    /\ UNCHANGED dependencies

(* invalidate_file does not use its argument: every memo of every file is  *)
(* dropped.  One pass over the dependency lists then dates the             *)
(* invalidation of each query that has an invalidated dependency; the keys *)
(* come in any order and the pass reads the dates it writes, so beyond the *)
(* queries that are behind from the start (behind) it dates any set of     *)
(* queries each of which uses one that is dated.                           *)
InvalidateFile ==
    LET had    == {q \in Query : results[q] # 0}
        ts(q)  == IF q \in had THEN 0 ELSE timestamps[q]
        behind == had \cup {q \in Query : \E d \in dependencies[q] :
                                d \in had \/ invalidation_times[d] > ts(q)}
    IN  /\ Idle
        /\ Tick
        /\ \E dated \in SUBSET Query :
             /\ behind \subseteq dated
             /\ \A q \in dated \ behind : dependencies[q] \cap dated # {}
             /\ timestamps' = [q \in Query |-> IF q \in dated THEN 0
                                                            ELSE timestamps[q]]
             /\ invalidation_times' =
                    [q \in Query |-> IF q \in dated THEN current_time'
                                                    ELSE invalidation_times[q]]
        /\ results' = [q \in Query |-> 0]
        /\ UNCHANGED <<dependencies, work>>

Clear ==
    /\ Idle
    /\ results'            = [q \in Query |-> 0]
    /\ dependencies'       = [q \in Query |-> {}]
    /\ timestamps'         = [q \in Query |-> 0]
    /\ current_time'       = 0
    /\ invalidation_times' = [q \in Query |-> 0]
    /\ UNCHANGED work

(* Mutant: only direct dependents are dropped. *)
MarkStaleVisit_shallow(p) ==
    /\ work # <<>>
    /\ p \in Head(work)
    /\ results'    = [results EXCEPT ![p] = 0]
    /\ timestamps' = [timestamps EXCEPT ![p] = 0]
    /\ work'       = <<Head(work) \ {p}>> \o Tail(work)
    /\ UNCHANGED <<dependencies, current_time, invalidation_times>>

(* Mutant: the loop does not advance. *)
MarkStaleVisit_again(p) ==
    /\ work # <<>>
    /\ p \in Head(work)
    /\ results'    = [results EXCEPT ![p] = 0]
    /\ timestamps' = [timestamps EXCEPT ![p] = 0]
    /\ work'       = IF Dependents(p) = {} THEN work
                     ELSE <<Dependents(p), Head(work) \ {p}>> \o Tail(work)
    /\ UNCHANGED <<dependencies, current_time, invalidation_times>>

(* One iteration of the loop of the innermost mark_stale: drop the         *)
(* dependent's memo and call mark_stale on it.                             *)
MarkStaleVisit(p) ==
    /\ work # <<>>
    /\ p \in Head(work)
    /\ results'    = [results EXCEPT ![p] = 0]
    /\ timestamps' = [timestamps EXCEPT ![p] = 0]
    /\ work'       = <<Dependents(p), Head(work) \ {p}>> \o Tail(work)
    /\ UNCHANGED <<dependencies, current_time, invalidation_times>>

MarkStaleReturn ==
    /\ work # <<>>
    /\ Head(work) = {}
    /\ work' = Tail(work)
    /\ UNCHANGED <<store, dependencies>>

MarkStaleStep == MarkStaleReturn \/ \E p \in Query : MarkStaleVisit(p)

-----------------------------------------------------------------------------
TypeOK ==
    /\ results            \in [Query -> Nat]
    /\ dependencies       \in [Query -> SUBSET Query]
    /\ timestamps         \in [Query -> Nat]
    /\ current_time       \in Nat
    /\ invalidation_times \in [Query -> Nat]
    /\ work               \in Seq(SUBSET Query)

(* No stored time is ahead of the clock, and a memo's own time is positive *)
(* exactly when both maps have it.                                         *)
TimesBehindClock ==
    \A q \in Query : /\ results[q] <= current_time
                     /\ timestamps[q] <= current_time
                     /\ invalidation_times[q] <= current_time
                     /\ results[q] # 0 => timestamps[q] # 0
=============================================================================
