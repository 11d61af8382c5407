-------------------------- MODULE MCQueryPipeline ---------------------------
(* An instance of QueryPipeline: an input, the routing of two cells that   *)
(* use it, and the verification of one of them.                            *)
EXTENDS QueryPipeline

CONSTANT c1   \* one of the two cells

Queries == {q \in FileQuery : q.type = "ParseAst"}
               \cup {q \in CellQuery : q.type = "RouteGcell" \/ q.cell = c1}

StageEdge ==
    {e \in Query \X Query :
        \/ e[1].type = "RouteGcell" /\ e[2].type = "ParseAst"
        \/ e[1].type = "VerifyGcell" /\ e[2].type = "RouteGcell" /\ e[2].cell = c1}
=============================================================================
