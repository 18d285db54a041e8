------------------------------ MODULE Movements ------------------------------
(***************************************************************************)
(* What a stock movement is, shared by the abstract StockBook and the      *)
(* detailed StockLedger: the calls a client makes on the four mutating     *)
(* inventory routes, the legs each call is turned into, and the rows of    *)
(* the stock_transactions ledger.  A definition marked "(variant)" is the  *)
(* one below it with a plausible mistake, to show which property notices.  *)
(***************************************************************************)
EXTENDS Integers, Sequences

CONSTANTS
  Requests,    \* identities of HTTP requests, one database transaction each
  Warehouses,  \* ids of existing warehouses; < is the order of str(id)
  Variants,    \* existing product variants
  Calls,       \* the calls clients may make
  Opening      \* [Keys -> Nat]: balances stocked in before the first request

\* The unique key of a stock_levels row (one company).
Keys == Warehouses \X Variants

\* The four mutating routes of the inventory API.
Kinds == {"stock_in", "stock_out", "adjustment", "transfer"}

\* The author of the ledger rows that made the opening balances.
Before == "before"

(***************************************************************************)
(* "warehouse" is the source of a transfer and the only warehouse of the   *)
(* other calls; "to" matters for transfers only; "quantity" is the counted *)
(* total of an adjustment.  Ids of warehouses and variants that do not     *)
(* exist, and quantities the service refuses, are legal calls.             *)
(***************************************************************************)
ASSUME MovementsAssumption ==
  /\ Warehouses \subseteq Nat
  /\ \A c \in Calls : /\ c.kind \in Kinds
                      /\ c.warehouse \in Nat
                      /\ c.to \in Nat
                      /\ c.quantity \in Int
  /\ Opening \in [Keys -> Nat]
  /\ Before \notin Requests

Leg(warehouse, type, delta) ==
  [warehouse |-> warehouse, type |-> type, delta |-> delta]

TransferOut(c) == Leg(c.warehouse, "transfer_out", -c.quantity)

\* (variant) What leaves the source never arrives.
TransferInLost(c) == Leg(c.to, "transfer_in", 0)

TransferIn(c) == Leg(c.to, "transfer_in", c.quantity)

\* (variant) The source of a transfer first.
LegsAsRequested(c) ==
  CASE c.kind = "stock_in"   -> <<Leg(c.warehouse, "stock_in", c.quantity)>>
    [] c.kind = "stock_out"  -> <<Leg(c.warehouse, "stock_out", -c.quantity)>>
    [] c.kind = "adjustment" -> <<Leg(c.warehouse, "adjustment", 0)>>
    [] c.kind = "transfer"   -> <<TransferOut(c), TransferIn(c)>>

(***************************************************************************)
(* The legs of a call in the order the service applies them: a transfer    *)
(* touches the smaller warehouse id first, whatever its direction.  The    *)
(* delta of an adjustment is known only under its row lock.                *)
(***************************************************************************)
Legs(c) ==
  CASE c.kind = "stock_in"   -> <<Leg(c.warehouse, "stock_in", c.quantity)>>
    [] c.kind = "stock_out"  -> <<Leg(c.warehouse, "stock_out", -c.quantity)>>
    [] c.kind = "adjustment" -> <<Leg(c.warehouse, "adjustment", 0)>>
    [] c.kind = "transfer"   -> IF c.warehouse < c.to
                                THEN <<TransferOut(c), TransferIn(c)>>
                                ELSE <<TransferIn(c), TransferOut(c)>>

\* A ledger row. A request creates at most one transfer header, so "by" is
\* also the transfer_id of its two legs.
Row(by, type, delta, after) ==
  [by |-> by, type |-> type, delta |-> delta, after |-> after]

Types == {"stock_in", "stock_out", "transfer_out", "transfer_in", "adjustment"}

RowType == [by : Requests \union {Before}, type : Types, delta : Int, after : Int]

OpeningRows(k) ==
  IF Opening[k] = 0 THEN << >> ELSE <<Row(Before, "stock_in", Opening[k], Opening[k])>>

\* The service's own validation of the numbers in a call.
ValidNumbers(c) ==
  /\ IF c.kind = "adjustment" THEN c.quantity >= 0 ELSE c.quantity > 0
  /\ c.kind = "transfer" => c.warehouse # c.to

\* Every id the call mentions exists.
KnownIds(c) ==
  /\ c.warehouse \in Warehouses
  /\ c.kind = "transfer" => c.to \in Warehouses
  /\ c.variant \in Variants
=============================================================================
