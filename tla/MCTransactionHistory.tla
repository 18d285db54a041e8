------------------------ MODULE MCTransactionHistory ------------------------
(***************************************************************************)
(* Small instances of TransactionHistory: a transfer, whose two rows have  *)
(* one created_at, and a stock-in.                                         *)
(***************************************************************************)
EXTENDS TransactionHistory

Transfer == {[id |-> 1, warehouse |-> "w1", type |-> "transfer_out"],
             [id |-> 4, warehouse |-> "w2", type |-> "transfer_in"]}
StockIn  == {[id |-> 2, warehouse |-> "w1", type |-> "stock_in"]}

TwoMovements == 1..2
MovementEntries == <<Transfer, StockIn>>

AllOrOne == {[warehouse |-> w, type |-> Unfiltered] : w \in {Unfiltered, "w1"}}
ByTypeToo == AllOrOne \union {[warehouse |-> w, type |-> "stock_in"]
                               : w \in {Unfiltered, "w1"}}
=============================================================================
