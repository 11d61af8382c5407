-------------------------------- MODULE Memo --------------------------------
(***************************************************************************)
(* What a memo table with dependency tracking promises, whatever it is     *)
(* built from: a change drops, in one step, the memos of everything that   *)
(* was recorded to use what changed, directly or not, and nothing else.    *)
(* QueryStore is shown to implement this (QueryPipeline).                  *)
(***************************************************************************)
EXTENDS Dependency

VARIABLES
    memo,   \* the queries whose memo may be served
    uses    \* uses[q]: the queries q was recorded to use

NoUses == [q \in Query |-> {}]

Init == memo = {} /\ uses = NoUses

Compute(q) ==
    memo' = memo \cup {q} /\ UNCHANGED uses

Record(q, d) ==
    uses' = [uses EXCEPT ![q] = @ \cup {d}] /\ UNCHANGED memo

Forget(q) ==
    uses' = [uses EXCEPT ![q] = {}] /\ UNCHANGED memo

(* q changed: what uses it goes, q itself stays. *)
ChangeInput(q) ==
    memo' = memo \ Affected(uses, Users(uses, {q})) /\ UNCHANGED uses

(* The queries S are void: they go, with all that uses them. *)
Drop(S) ==
    memo' = memo \ Affected(uses, S) /\ UNCHANGED uses

Reset == memo' = {} /\ uses' \in {uses, NoUses}

Next ==
    \/ \E q \in Query : Compute(q) \/ Forget(q) \/ ChangeInput(q)
    \/ \E q, d \in Query : Record(q, d)
    \/ \E S \in SUBSET Query : Drop(S)
    \/ Reset

Spec == Init /\ [][Next]_<<memo, uses>>
=============================================================================
