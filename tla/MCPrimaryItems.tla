--------------------------- MODULE MCPrimaryItems ---------------------------
(***************************************************************************)
(* Three requests and a variant that an earlier race left with two primary *)
(* barcodes, beside an image of a product.                                 *)
(***************************************************************************)
EXTENDS PrimaryItems

CONSTANTS r1, r2, r3, g1, g2, g3

MCRequests == {r1, r2, r3}
MCGiven == {g1, g2, g3}
MCGivenItems ==
  [x \in MCGiven |-> CASE x = g1 -> [owner |-> "v1", code |-> "c1", primary |-> TRUE]
                       [] x = g2 -> [owner |-> "v1", code |-> "c2", primary |-> TRUE]
                       [] x = g3 -> [owner |-> "p1", code |-> NoCode, primary |-> TRUE]]
MCKeyOrder == <<r2, g1, r1, g3, g2, r3>>
MCOwners == {"v1", "p1"}
MCCalls ==
  [owner : {"v1"}, code : {"c3", "c4", "c5"}, primary : {TRUE}]
    \union {[owner |-> "v1", code |-> "c1", primary |-> TRUE],
            [owner |-> "v1", code |-> "c3", primary |-> FALSE],
            [owner |-> "v0", code |-> "c3", primary |-> TRUE]}
    \union [owner : {"p1"}, code : {NoCode}, primary : BOOLEAN]
=============================================================================
