----------------------------- MODULE Dependency -----------------------------
(***************************************************************************)
(* Reachability in a graph of recorded dependencies: u[q] is the set of    *)
(* queries q uses.                                                         *)
(***************************************************************************)
CONSTANT Query

Users(u, S) == {p \in Query : u[p] \cap S # {}}

Closed(u, C) == Users(u, C) \subseteq C

(* S and everything that uses a member of it, directly or not: the         *)
(* smallest closed set that contains S.                                    *)
Affected(u, S) == {q \in Query : \A C \in SUBSET Query :
                                    S \subseteq C /\ Closed(u, C) => q \in C}
=============================================================================
