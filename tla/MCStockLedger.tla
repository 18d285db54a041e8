---------------------------- MODULE MCStockLedger ----------------------------
(***************************************************************************)
(* Small instances of StockLedger: one product with one variant in two     *)
(* warehouses, integers of the range -4 .. 4, and the mixes of calls that  *)
(* make requests meet on the same rows.                                    *)
(***************************************************************************)
EXTENDS StockTotals, TLC

CONSTANTS r1, r2, r3, v1, p1

MCRequests == {r1, r2, r3}
TwoRequests == {r1, r2}
MCWarehouses == {1, 2}
MCVariants == {v1}
MCProducts == {p1}
MCProductOf == [v \in MCVariants |-> p1]

\* 2 in warehouse 1, no stock_levels row in warehouse 2.
MCOpening == [k \in MCWarehouses \X MCVariants |-> IF k[1] = 1 THEN 2 ELSE 0]

MCMinInt == -4
MCMaxInt == 4

Tracked(negative) == [track |-> TRUE, negative |-> negative]
MCPolicies == {Tracked(TRUE), Tracked(FALSE), [track |-> FALSE, negative |-> FALSE]}

MCCall(kind, from, to, q) ==
  [kind |-> kind, warehouse |-> from, to |-> to, variant |-> v1, quantity |-> q]

In(w, q)    == MCCall("stock_in", w, w, q)
Out(w, q)   == MCCall("stock_out", w, w, q)
Count(w, q) == MCCall("adjustment", w, w, q)
Move(f, t, q) == MCCall("transfer", f, t, q)

\* Movements that meet: in, out and count on the same rows, transfers in both
\* directions, one of them of more than there is.
MCCalls == {In(1, 1), Out(1, 2), Count(2, 0), Count(1, 1),
            Move(1, 2, 1), Move(2, 1, 1)}

\* Calls at the edges: refused numbers, unknown ids, and integers that
\* overflow as a parameter, in a sum and in an adjustment's delta.
MCEdgeCalls == {In(1, 0), In(7, 1), Move(1, 1, 1), Move(1, 7, 1), Count(1, -1),
                In(1, 4), In(1, 5), Move(1, 2, 5), Out(1, 4), Count(1, 5),
                Count(1, 4), Out(1, 2), Out(2, 3), Move(2, 1, 2)}

RequestSymmetry == Permutations(MCRequests)
=============================================================================
