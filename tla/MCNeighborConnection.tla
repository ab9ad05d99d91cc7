------------------------ MODULE MCNeighborConnection ------------------------
(***************************************************************************)
(* Small instances of NeighborConnection for TLC: two nodes, links that    *)
(* overlap and links of both directions.                                   *)
(***************************************************************************)
EXTENDS NeighborConnection, TLC

CONSTANTS n1, n2, l1, l2
MCNode     == {n1, n2}
MCNeighbor == n1 :> n2 @@ n2 :> n1
MCLink     == {l1, l2}

\* Two databases of one node, and one of each.
MCSameFrom == l1 :> n1 @@ l2 :> n1
MCBothFrom == l1 :> n1 @@ l2 :> n2

MCDatabaseLength(blocks) == blocks

=============================================================================
