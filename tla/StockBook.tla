------------------------------ MODULE StockBook ------------------------------
(***************************************************************************)
(* What the inventory service promises: a stock book in which every        *)
(* request takes effect at most once and all at once.  A balance changes   *)
(* only together with the ledger row that explains it; a transfer is one   *)
(* step that takes from one warehouse what it gives to the other.          *)
(***************************************************************************)
EXTENDS Movements

VARIABLES
  quantity,   \* [Keys -> Int], the balance of each key
  ledger,     \* [Keys -> Seq(Row)], the movements of each key, oldest first
  transfers,  \* requests that created a transfer header
  posted      \* requests that took effect

vars == <<quantity, ledger, transfers, posted>>

Init ==
  /\ quantity = Opening
  /\ ledger = [k \in Keys |-> OpeningRows(k)]
  /\ transfers = {}
  /\ posted = {}

\* One movement of "delta" on key k, entered together with its ledger row.
Enter(k, row) ==
  /\ quantity' = [quantity EXCEPT ![k] = row.after]
  /\ ledger' = [ledger EXCEPT ![k] = Append(@, row)]

PostDelta(r, c) ==
  LET k == <<c.warehouse, c.variant>>
      delta == Legs(c)[1].delta
  IN  /\ c.kind \in {"stock_in", "stock_out"}
      /\ Enter(k, Row(r, c.kind, delta, quantity[k] + delta))
      /\ UNCHANGED transfers

PostCount(r, c) ==
  LET k == <<c.warehouse, c.variant>>
  IN  /\ c.kind = "adjustment"
      /\ Enter(k, Row(r, "adjustment", c.quantity - quantity[k], c.quantity))
      /\ UNCHANGED transfers

PostTransfer(r, c) ==
  LET source == <<c.warehouse, c.variant>>
      target == <<c.to, c.variant>>
  IN  /\ c.kind = "transfer"
      /\ quantity' = [quantity EXCEPT ![source] = @ - c.quantity,
                                      ![target] = @ + c.quantity]
      /\ ledger' = [ledger EXCEPT
           ![source] = Append(@, Row(r, "transfer_out", -c.quantity, quantity[source] - c.quantity)),
           ![target] = Append(@, Row(r, "transfer_in", c.quantity, quantity[target] + c.quantity))]
      /\ transfers' = transfers \union {r}

Post(r, c) ==
  /\ r \notin posted
  /\ ValidNumbers(c)
  /\ KnownIds(c)
  /\ posted' = posted \union {r}
  /\ PostDelta(r, c) \/ PostCount(r, c) \/ PostTransfer(r, c)

Next == \E r \in Requests, c \in Calls : Post(r, c)

Spec == Init /\ [][Next]_vars
=============================================================================
