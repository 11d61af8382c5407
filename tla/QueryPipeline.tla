--------------------------- MODULE QueryPipeline ----------------------------
(***************************************************************************)
(* The query store together with a client that uses it as its tests do     *)
(* (query_engine/test_store.rs): ParseAst queries are the registered       *)
(* inputs; the dependencies of a query are recorded before it is executed, *)
(* along the edges of a fixed graph; a query is executed once the queries  *)
(* it uses have been.  Invalidations come at any time.                     *)
(***************************************************************************)
EXTENDS QueryStore

CONSTANT Edge   \* <<q, d>> \in Edge: q may be recorded to use d

INSTANCE Dependency

Input == {q \in Query : q.type = "ParseAst"}

ASSUME EdgeAssumption == Edge \subseteq (Query \ Input) \X Query

Available(d) == results[d] # 0 \/ d \in Input

Register(q) == q \in Input /\ RegisterInput(q)

Record(q, d) ==
    /\ <<q, d>> \in Edge
    /\ results[q] = 0
    /\ RecordDependency(q, d)

Execute(q) ==
    /\ \A d \in dependencies[q] : Available(d)
    /\ ExecuteQuery(q)

ChangeInput(q) == q \in Input /\ InvalidateInput(q)

Operation ==
    \/ \E q \in Query : Register(q) \/ Execute(q) \/ ChangeInput(q)
    \/ \E q, d \in Query : Record(q, d)
    \/ \E f \in File, c \in GCell : InvalidateGcell(f, c)
    \/ \E f \in File, c1, c2 \in GCell : InvalidateBoundaryPort(f, c1, c2)
    \/ InvalidateFile
    \/ Clear

Next == Operation \/ MarkStaleStep

Spec == Init /\ [][Next]_vars

(* mark_stale is straight-line code: it runs until it returns. *)
FairSpec == Spec /\ WF_vars(MarkStaleStep)

-----------------------------------------------------------------------------
(* What the frames of the running mark_stale are still going to visit, and *)
(* the memos that will be left when it returns: those any caller can see.  *)
Marked == UNION {work[i] : i \in DOMAIN work}
Live   == {q \in Query : results[q] # 0} \ Affected(dependencies, Marked)

(* A memo is never served when something it was computed from changed      *)
(* after it was computed, at whatever distance: mark_stale has reached it. *)
FreshMemo ==
    \A d \in Query :
        \A q \in Live \cap Affected(dependencies, Users(dependencies, {d})) :
            invalidation_times[d] < results[q]

(* The three answers the store gives about a computed query agree: if it   *)
(* is in the table, is_stale denies it is stale and get_result returns it. *)
(* Inputs are the exception: invalidate_input dates an input and leaves    *)
(* its memo, which execute_query serves and get_result does not.           *)
AnswersAgree ==
    \A q \in Live \ Input : ~is_stale(q) /\ Servable(q)

(* Memos are layered: whatever a live memo uses has a live memo that is    *)
(* older, so a rebuild in order of age never misses a dependency.          *)
Layered ==
    \A q \in Live : \A d \in dependencies[q] \ Input :
        d \in Live /\ results[d] < results[q]

(* Inputs use nothing, and the times of a derived query agree: what makes  *)
(* the properties above inductive.                                         *)
DirectlyFresh ==
    \A q \in Live : \A d \in dependencies[q] :
        invalidation_times[d] < results[q]

OwnTimes ==
    \A q \in Query \ Input :
        results[q] # 0 => /\ timestamps[q] = results[q]
                          /\ invalidation_times[q] <= results[q]

InputsUseNothing ==
    \A q \in Query : dependencies[q] # {} => q \notin Input

MemoInv ==
    TimesBehindClock /\ InputsUseNothing /\ DirectlyFresh /\ Layered /\ OwnTimes

(* The recursion of mark_stale comes to an end when the recorded graph has *)
(* no cycle.                                                               *)
MarkStaleReturns == work # <<>> ~> work = <<>>

(* The store implements the abstract memo table: callers cannot tell the   *)
(* recursion from one atomic drop of everything affected.                  *)
M == INSTANCE Memo WITH memo <- Live, uses <- dependencies
ImplementsMemo == M!Spec
=============================================================================
