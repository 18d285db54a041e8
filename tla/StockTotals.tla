----------------------------- MODULE StockTotals -----------------------------
(***************************************************************************)
(* What the queries of the inventory service add up, over StockLedger.  A  *)
(* query is one statement and sees the committed state.                    *)
(***************************************************************************)
EXTENDS StockLedger, Functions

\* get_stock_level without a warehouse: a variant's stock in all of them.
TotalStock(v) == SumFunction([w \in Warehouses |-> quantity[<<w, v>>]])

\* What the movements other than transfers have added to a key.
NetReceived(k) ==
  SumFunctionOnSet([i \in DOMAIN ledger[k] |-> ledger[k][i].delta],
                   {i \in DOMAIN ledger[k] :
                      ledger[k][i].type \notin {"transfer_out", "transfer_in"}})

\* A reader never sees half of a transfer: the total stock of a variant is
\* what was received, issued and corrected, and transfers, in flight, booked
\* or refused, neither make stock nor lose any.
StockConserved ==
  \A v \in Variants :
    TotalStock(v) = SumFunction([w \in Warehouses |-> NetReceived(<<w, v>>)])
=============================================================================
