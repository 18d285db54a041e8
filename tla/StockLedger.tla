----------------------------- MODULE StockLedger -----------------------------
(***************************************************************************)
(* The inventory service at the grain of its SQL statements.  Every HTTP   *)
(* request runs in one READ COMMITTED transaction; several of them are in  *)
(* flight at once.  A statement that writes a stock_levels row takes the   *)
(* row's lock and keeps it to the end of the transaction, and evaluates    *)
(* against the value committed last.  What a transaction wrote is visible  *)
(* to others only once it commits; an exception anywhere rolls all of it   *)
(* back.  The stock policy of a product may be changed at any time by a    *)
(* request of the catalogue.                                               *)
(*                                                                         *)
(* A definition marked "(variant)" is the one below it with a plausible    *)
(* mistake.  No specification uses it: it shows that a property would      *)
(* notice the mistake.                                                     *)
(***************************************************************************)
EXTENDS Movements, FiniteSets

CONSTANTS
  Products,    \* the products the variants belong to
  ProductOf,   \* [Variants -> Products]
  Policies,    \* the stock policies products are given
  MinInt,      \* range of a database INTEGER, -2^31 .. 2^31 - 1 in the code
  MaxInt

ASSUME StockLedgerAssumption ==
  /\ IsFiniteSet(Warehouses)
  /\ ProductOf \in [Variants -> Products]
  /\ Policies \subseteq [track : BOOLEAN, negative : BOOLEAN]
  /\ Policies # {}
  /\ MinInt \in Int /\ MaxInt \in Int
  /\ MinInt <= 0 /\ \A k \in Keys : Opening[k] <= MaxInt

VARIABLES
  \* committed state of the database
  present,     \* keys that have a stock_levels row
  quantity,    \* [Keys -> Int], 0 for a key without a row
  ledger,      \* [Keys -> Seq(RowType)], the stock_transactions of the key
  transfers,   \* requests whose stock_transfers header is committed
  audit,       \* [Keys -> Seq(RowType)], the ledger rows audit_logs tells of
  policy,      \* [Products -> Policies]
  \* per request
  call,        \* the call the request carries
  phase,       \* what the request does next, or how it ended
  error,       \* why it failed
  seen,        \* the policy it read
  at,          \* the leg it is applying, 1 or 2
  before,      \* the quantity an adjustment read under its row lock
  \* per request, what its open transaction has done
  held,        \* keys whose row it has locked
  work,        \* its uncommitted quantity of the keys it has written
  rows,        \* its uncommitted ledger rows, by key
  entries,     \* the ledger rows its uncommitted audit_logs rows tell of
  header       \* whether it inserted a transfer header

committed == <<present, quantity, ledger, transfers, audit>>
progress  == <<call, phase, error, seen, at, before>>
draft     == <<held, work, rows, entries, header>>
vars == <<committed, policy, progress, draft>>

Running == {"upsert", "check", "ensure", "lock", "set", "commit", "failing"}
Ended   == {"committed", "failed"}
Errors  == {"none", "invalid", "not_found", "untracked", "insufficient",
            "database", "connection"}

-----------------------------------------------------------------------------
\* Helpers

Fits(n) == MinInt <= n /\ n <= MaxInt

CurrentLeg(r) == Legs(call[r])[at[r]]

Target(r) == <<CurrentLeg(r).warehouse, call[r].variant>>

\* No other transaction holds the lock of row k.
Free(r, k) == \A s \in Requests \ {r} : k \notin held[s]

Goto(r, p) == phase' = [phase EXCEPT ![r] = p]

\* An exception: the transaction is doomed and waits for its rollback.
Fail(r, e) == /\ Goto(r, "failing")
              /\ error' = [error EXCEPT ![r] = e]

NoRows == [k \in Keys |-> << >>]

\* (variant) The session is neither rolled back nor closed.
DiscardKeepsLocks(r) ==
  /\ work' = [work EXCEPT ![r] = [k \in Keys |-> 0]]
  /\ rows' = [rows EXCEPT ![r] = NoRows]
  /\ entries' = [entries EXCEPT ![r] = NoRows]
  /\ header' = [header EXCEPT ![r] = FALSE]
  /\ UNCHANGED held

\* The end of a transaction gives up its locks and its draft.
Discard(r) ==
  /\ held' = [held EXCEPT ![r] = {}]
  /\ work' = [work EXCEPT ![r] = [k \in Keys |-> 0]]
  /\ rows' = [rows EXCEPT ![r] = NoRows]
  /\ entries' = [entries EXCEPT ![r] = NoRows]
  /\ header' = [header EXCEPT ![r] = FALSE]

\* The ledger row of the current leg and the audit row that tells of it, and on
\* to the next leg or the commit.
Record(r, type, delta, after) ==
  LET k == Target(r)
      row == Row(r, type, delta, after)
  IN
  /\ rows' = [rows EXCEPT ![r][k] = Append(@, row)]
  /\ entries' = [entries EXCEPT ![r][k] = Append(@, row)]
  /\ IF at[r] < Len(Legs(call[r]))
     THEN Goto(r, "upsert") /\ at' = [at EXCEPT ![r] = @ + 1]
     ELSE Goto(r, "commit") /\ UNCHANGED at

\* (variant) The policy is only asked about the first leg.
PolicyAllowsSecondLeg(r, new) == at[r] = 1 => (new < 0 => seen[r].negative)

\* (variant) The last item cannot be sold.
PolicyAllowsNotLast(r, new) == new <= 0 => seen[r].negative

\* The sign test of _check_policy.
PolicyAllows(r, new) == new < 0 => seen[r].negative
-----------------------------------------------------------------------------
Init ==
  /\ present = {k \in Keys : Opening[k] # 0}
  /\ quantity = Opening
  /\ ledger = [k \in Keys |-> OpeningRows(k)]
  /\ transfers = {}
  /\ audit = [k \in Keys |-> OpeningRows(k)]
  /\ policy \in [Products -> Policies]
  /\ call \in [Requests -> Calls]
  /\ phase = [r \in Requests |-> "new"]
  /\ error = [r \in Requests |-> "none"]
  /\ seen = [r \in Requests |-> CHOOSE p \in Policies : TRUE]
  /\ at = [r \in Requests |-> 1]
  /\ before = [r \in Requests |-> 0]
  /\ held = [r \in Requests |-> {}]
  /\ work = [r \in Requests |-> [k \in Keys |-> 0]]
  /\ rows = [r \in Requests |-> NoRows]
  /\ entries = [r \in Requests |-> NoRows]
  /\ header = [r \in Requests |-> FALSE]

(***************************************************************************)
(* The handler up to its first write of a stock level: validation, the     *)
(* lookups of warehouses and variant, the read of the product's policy,    *)
(* and for a transfer the insert of its header.  Only the policy can       *)
(* change under it, so one step suffices.                                  *)
(***************************************************************************)
Reject(r) ==
  /\ phase[r] = "new"
  /\ \/ ~ValidNumbers(call[r]) /\ Fail(r, "invalid")
     \/ ValidNumbers(call[r]) /\ ~KnownIds(call[r]) /\ Fail(r, "not_found")
  /\ UNCHANGED <<committed, policy, call, seen, at, before, draft>>

Open(r) ==
  LET c == call[r]
      p == policy[ProductOf[c.variant]]
  IN
  /\ phase[r] = "new"
  /\ ValidNumbers(c) /\ KnownIds(c)
  /\ seen' = [seen EXCEPT ![r] = p]
  /\ \/ c.kind = "adjustment" /\ p.track /\ Goto(r, "ensure") /\ UNCHANGED <<error, header>>
     \/ c.kind = "adjustment" /\ ~p.track /\ Fail(r, "untracked") /\ UNCHANGED header
     \/ /\ c.kind # "adjustment"
        /\ \A i \in DOMAIN Legs(c) : Fits(Legs(c)[i].delta)
        /\ c.kind = "transfer" => Fits(c.quantity)
        /\ Goto(r, "upsert")
        /\ header' = [header EXCEPT ![r] = (c.kind = "transfer")]
        /\ UNCHANGED error
     \/ /\ c.kind # "adjustment"
        /\ \/ \E i \in DOMAIN Legs(c) : ~Fits(Legs(c)[i].delta)
           \/ c.kind = "transfer" /\ ~Fits(c.quantity)
        /\ Fail(r, "database")
        /\ UNCHANGED header
  /\ UNCHANGED <<committed, policy, call, at, before, held, work, rows, entries>>

\* (variant) A SELECT, and an UPDATE with the sum computed by the service: two
\* transactions may both have written the row.
UpsertUnlocked(r) ==
  LET k == Target(r)
  IN
  /\ phase[r] = "upsert"
  /\ held' = [held EXCEPT ![r] = @ \union {k}]
  /\ work' = [work EXCEPT ![r][k] = quantity[k] + CurrentLeg(r).delta]
  /\ Goto(r, "check")
  /\ UNCHANGED <<committed, policy, call, error, seen, at, before, rows, entries, header>>

\* INSERT .. ON CONFLICT DO UPDATE SET quantity = quantity + delta RETURNING:
\* waits for the row, then adds to the value committed last.
Upsert(r) ==
  LET k == Target(r)
      new == quantity[k] + CurrentLeg(r).delta
  IN
  /\ phase[r] = "upsert"
  /\ Free(r, k)
  /\ held' = [held EXCEPT ![r] = @ \union {k}]
  /\ \/ /\ Fits(new)
        /\ work' = [work EXCEPT ![r][k] = new]
        /\ Goto(r, "check")
        /\ UNCHANGED error
     \/ ~Fits(new) /\ Fail(r, "database") /\ UNCHANGED work
  /\ UNCHANGED <<committed, policy, call, seen, at, before, rows, entries, header>>

\* _check_policy on the quantity the upsert returned, then the ledger row.
Check(r) ==
  LET new == work[r][Target(r)]
  IN
  /\ phase[r] = "check"
  /\ \/ ~seen[r].track /\ Fail(r, "untracked") /\ UNCHANGED <<at, rows, entries>>
     \/ /\ seen[r].track /\ ~PolicyAllows(r, new)
        /\ Fail(r, "insufficient") /\ UNCHANGED <<at, rows, entries>>
     \/ /\ seen[r].track /\ PolicyAllows(r, new)
        /\ Record(r, CurrentLeg(r).type, CurrentLeg(r).delta, new)
        /\ UNCHANGED error
  /\ UNCHANGED <<committed, policy, call, seen, before, held, work, header>>

\* INSERT .. ON CONFLICT DO NOTHING: creates and locks a missing row, waits
\* for another transaction that is creating it, and passes by a row that is
\* there, locked or not.
EnsureRow(r) ==
  LET k == Target(r)
  IN
  /\ phase[r] = "ensure"
  /\ \/ k \in present /\ UNCHANGED <<held, work>>
     \/ /\ k \notin present /\ Free(r, k)
        /\ held' = [held EXCEPT ![r] = @ \union {k}]
        /\ work' = [work EXCEPT ![r][k] = 0]
  /\ Goto(r, "lock")
  /\ UNCHANGED <<committed, policy, call, error, seen, at, before, rows, entries, header>>

\* (variant) A SELECT without FOR UPDATE.
LockRowUnlocked(r) ==
  LET k == Target(r)
  IN
  /\ phase[r] = "lock"
  /\ before' = [before EXCEPT ![r] = IF k \in held[r] THEN work[r][k] ELSE quantity[k]]
  /\ Goto(r, "set")
  /\ UNCHANGED <<committed, policy, call, error, seen, at, held, work, rows, entries, header>>

\* SELECT quantity .. FOR UPDATE.
LockRow(r) ==
  LET k == Target(r)
  IN
  /\ phase[r] = "lock"
  /\ Free(r, k)
  /\ held' = [held EXCEPT ![r] = @ \union {k}]
  /\ before' = [before EXCEPT ![r] = IF k \in held[r] THEN work[r][k] ELSE quantity[k]]
  /\ Goto(r, "set")
  /\ UNCHANGED <<committed, policy, call, error, seen, at, work, rows, entries, header>>

\* The delta an adjustment books, (variant) its negation.
CountedDeltaReversed(r) == before[r] - call[r].quantity
CountedDelta(r) == call[r].quantity - before[r]

\* UPDATE .. SET quantity = counted, and the ledger row with the delta.
SetCounted(r) ==
  LET k == Target(r)
      counted == call[r].quantity
      delta == CountedDelta(r)
  IN
  /\ phase[r] = "set"
  /\ Free(r, k)
  /\ held' = [held EXCEPT ![r] = @ \union {k}]
  /\ \/ /\ Fits(counted) /\ Fits(delta)
        /\ work' = [work EXCEPT ![r][k] = counted]
        /\ Record(r, "adjustment", delta, counted)
        /\ UNCHANGED error
     \/ /\ ~(Fits(counted) /\ Fits(delta))
        /\ Fail(r, "database")
        /\ UNCHANGED <<at, work, rows, entries>>
  /\ UNCHANGED <<committed, policy, call, seen, before, header>>

\* The session dependency commits: everything becomes visible at once.
Commit(r) ==
  /\ phase[r] = "commit"
  /\ present' = present \union held[r]
  /\ quantity' = [k \in Keys |-> IF k \in held[r] THEN work[r][k] ELSE quantity[k]]
  /\ ledger' = [k \in Keys |-> ledger[k] \o rows[r][k]]
  /\ transfers' = IF header[r] THEN transfers \union {r} ELSE transfers
  /\ audit' = [k \in Keys |-> audit[k] \o entries[r][k]]
  /\ Goto(r, "committed")
  /\ Discard(r)
  /\ UNCHANGED <<policy, call, error, seen, at, before>>

\* (variant) The session dependency commits in a "finally".
RollbackCommits(r) ==
  /\ phase[r] = "failing"
  /\ quantity' = [k \in Keys |-> IF k \in held[r] THEN work[r][k] ELSE quantity[k]]
  /\ ledger' = [k \in Keys |-> ledger[k] \o rows[r][k]]
  /\ transfers' = IF header[r] THEN transfers \union {r} ELSE transfers
  /\ audit' = [k \in Keys |-> audit[k] \o entries[r][k]]
  /\ Goto(r, "failed")
  /\ Discard(r)
  /\ UNCHANGED <<present, policy, call, error, seen, at, before>>

\* The session dependency rolls back and re-raises.
Rollback(r) ==
  /\ phase[r] = "failing"
  /\ Goto(r, "failed")
  /\ Discard(r)
  /\ UNCHANGED <<committed, policy, call, error, seen, at, before>>

\* The connection or the server process is lost in mid-transaction: the
\* database rolls the transaction back.
Disconnect(r) ==
  /\ phase[r] \in Running \ {"failing"}
  /\ Goto(r, "failed")
  /\ error' = [error EXCEPT ![r] = "connection"]
  /\ Discard(r)
  /\ UNCHANGED <<committed, policy, call, seen, at, before>>

\* PUT /products/{id}: a committed change of the product's stock policy.
UpdatePolicy(p) ==
  /\ \E new \in Policies \ {policy[p]} : policy' = [policy EXCEPT ![p] = new]
  /\ UNCHANGED <<committed, progress, draft>>

\* Every request has been answered: the system rests.
Rest ==
  /\ \A r \in Requests : phase[r] \in Ended
  /\ UNCHANGED vars

Step(r) ==
  \/ Reject(r) \/ Open(r) \/ Upsert(r) \/ Check(r)
  \/ EnsureRow(r) \/ LockRow(r) \/ SetCounted(r)
  \/ Commit(r) \/ Rollback(r)

Next ==
  \/ \E r \in Requests : Step(r) \/ Disconnect(r)
  \/ \E p \in Products : UpdatePolicy(p)
  \/ Rest

Spec == Init /\ [][Next]_vars

\* The event loop and the database schedule every request that can run.
FairSpec == Spec /\ \A r \in Requests : WF_vars(Step(r))
-----------------------------------------------------------------------------
\* Properties

\* The variables of the movements hold the kinds of value of their columns and
\* local variables.
MovementsTypeOK ==
  /\ present \in SUBSET Keys
  /\ quantity \in [Keys -> Int]
  /\ ledger \in [Keys -> Seq(RowType)]
  /\ transfers \in SUBSET Requests
  /\ policy \in [Products -> Policies]
  /\ call \in [Requests -> Calls]
  /\ phase \in [Requests -> {"new"} \union Running \union Ended]
  /\ error \in [Requests -> Errors]
  /\ seen \in [Requests -> Policies]
  /\ at \in [Requests -> {1, 2}]
  /\ before \in [Requests -> Int]
  /\ held \in [Requests -> SUBSET Keys]
  /\ work \in [Requests -> [Keys -> Int]]
  /\ rows \in [Requests -> [Keys -> Seq(RowType)]]
  /\ header \in [Requests -> BOOLEAN]

\* Every variable holds the kind of value its column or local variable has.
TypeOK ==
  /\ MovementsTypeOK
  /\ audit \in [Keys -> Seq(RowType)]
  /\ entries \in [Requests -> [Keys -> Seq(RowType)]]

LastAfter(s) == IF s = << >> THEN 0 ELSE s[Len(s)].after

\* The ledger of a key is an unbroken chain of balances that ends in the
\* current one: whatever interleaving of stock-ins, stock-outs, counts and
\* transfers produced it, no update was lost and every delta is the change
\* its movement really made.
LedgerExplainsBalance ==
  \A k \in Keys :
    /\ quantity[k] = LastAfter(ledger[k])
    /\ \A i \in DOMAIN ledger[k] :
         ledger[k][i].after - ledger[k][i].delta =
           IF i = 1 THEN 0 ELSE ledger[k][i - 1].after

RowsBy(r, k) == {i \in DOMAIN ledger[k] : ledger[k][i].by = r}

LegKey(r, i) == <<Legs(call[r])[i].warehouse, call[r].variant>>

\* Row "row" is what leg "leg" of call c must have left in the ledger.
Reports(row, leg, c) ==
  /\ row.type = leg.type
  /\ IF c.kind = "adjustment" THEN row.after = c.quantity ELSE row.delta = leg.delta

\* A request either left exactly one ledger row for each of its legs, and a
\* header if it is a transfer, or it left nothing.
LegsAreWhole ==
  \A r \in Requests :
    /\ r \in transfers <=> phase[r] = "committed" /\ call[r].kind = "transfer"
    /\ phase[r] # "committed" => \A k \in Keys : RowsBy(r, k) = {}
    /\ phase[r] = "committed" =>
         /\ \A i \in DOMAIN Legs(call[r]) :
              \E n \in DOMAIN ledger[LegKey(r, i)] :
                /\ RowsBy(r, LegKey(r, i)) = {n}
                /\ Reports(ledger[LegKey(r, i)][n], Legs(call[r])[i], call[r])
         /\ \A k \in Keys : RowsBy(r, k) # {} =>
              \E i \in DOMAIN Legs(call[r]) : k = LegKey(r, i)

\* A movement is booked whole or not at all, and the audit log tells of it iff
\* it is booked: a movement refused at its second leg, a failed statement or a
\* lost connection undoes the first leg, the header, the ledger row and what
\* the audit log says of them too.
AllOrNothing == LegsAreWhole /\ audit = ledger

\* No movement is booked for a product that its request saw as untracked, and
\* none takes a balance below zero that its request did not see allowed to:
\* concurrent stock-outs cannot together oversell.
NegativeOnlyByPolicy ==
  \A k \in Keys : \A i \in DOMAIN ledger[k] :
    LET row == ledger[k][i]
    IN  row.by # Before => /\ seen[row.by].track
                           /\ row.after < 0 => seen[row.by].negative

\* "Insufficient stock" is said of the balance as it is, not of one that a
\* concurrent movement has changed in the meantime: the refused movement would
\* take the committed balance of its row below zero at the time of refusal.
InsufficientIsCurrent ==
  \A r \in Requests :
    phase[r] = "failing" /\ error[r] = "insufficient" =>
      /\ ~seen[r].negative
      /\ quantity[Target(r)] + CurrentLeg(r).delta < 0

\* r is blocked by a row lock that s holds.
WaitsFor(r, s) ==
  /\ r # s
  /\ \/ phase[r] \in {"upsert", "lock", "set"}
     \/ phase[r] = "ensure" /\ Target(r) \notin present
  /\ Target(r) \in held[s]

\* No set of requests wait for each other in a circle: the canonical order of
\* a transfer's locks leaves the database's deadlock detector nothing to do.
NoLockCycle ==
  \A S \in (SUBSET Requests) \ {{}} :
    \E r \in S : \A s \in S : ~WaitsFor(r, s)

\* Every request is answered in the end: no lock is kept forever and none is
\* waited for forever.
EveryRequestEnds == \A r \in Requests : <>(phase[r] \in Ended)

\* The committed part of the database is a stock book.
Book == INSTANCE StockBook
          WITH posted <- {r \in Requests : phase[r] = "committed"}

\* Every behaviour of the service, seen through commits alone, is one of the
\* abstract stock book: each request takes effect at most once and atomically.
BookSpec == Book!Spec
-----------------------------------------------------------------------------
\* The inductive invariant

\* Phases in which the call has passed validation and its lookups.
Validated == {"upsert", "check", "ensure", "lock", "set", "commit", "committed"}

\* Where a request can be, given its call.
Shape(r) ==
  /\ at[r] \in DOMAIN Legs(call[r])
  /\ phase[r] \in Validated => ValidNumbers(call[r]) /\ KnownIds(call[r])
  /\ phase[r] \in {"upsert", "check"} => call[r].kind # "adjustment"
  /\ phase[r] \in {"ensure", "lock", "set"} => call[r].kind = "adjustment"
  /\ phase[r] = "new" => at[r] = 1
  /\ phase[r] \in {"commit", "committed"} => at[r] = Len(Legs(call[r]))
  /\ phase[r] \in {"ensure", "lock", "set"} => seen[r].track

\* How many legs have their ledger row, and how many have their row locked.
Recorded(r) ==
  CASE phase[r] \in {"upsert", "check"} -> at[r] - 1
    [] phase[r] = "commit" -> at[r]
    [] OTHER -> 0

FirstKeys(r, n) == {LegKey(r, i) : i \in 1..n}

Locks(r) ==
  /\ phase[r] \in {"new", "ensure"} \union Ended => held[r] = {}
  /\ phase[r] = "upsert" => held[r] = FirstKeys(r, at[r] - 1)
  /\ phase[r] \in {"check", "set", "commit"} => held[r] = FirstKeys(r, at[r])
  /\ phase[r] = "lock" => \/ held[r] = {Target(r)} /\ Target(r) \notin present
                             /\ work[r][Target(r)] = 0
                          \/ held[r] = {} /\ Target(r) \in present
  /\ phase[r] = "failing" => held[r] \subseteq FirstKeys(r, at[r])

\* No two transactions hold the lock of one row.
Exclusive == \A r, s \in Requests : r # s => held[r] \cap held[s] = {}

\* The ledger row of a leg that is recorded and not yet committed.
RecordedOK(r, i) ==
  LET k == LegKey(r, i)
      row == Row(r, Legs(call[r])[i].type, work[r][k] - quantity[k], work[r][k])
  IN  /\ rows[r][k] = <<row>>
      /\ Reports(row, Legs(call[r])[i], call[r])
      /\ seen[r].track
      /\ row.after < 0 => seen[r].negative

Drafts(r) ==
  /\ phase[r] # "failing" =>
       /\ \A i \in 1..Recorded(r) : RecordedOK(r, i)
       /\ \A k \in Keys \ FirstKeys(r, Recorded(r)) : rows[r][k] = << >>
       /\ header[r] = (phase[r] \in {"upsert", "check", "commit"} /\ call[r].kind = "transfer")
  /\ phase[r] = "check" => work[r][Target(r)] = quantity[Target(r)] + CurrentLeg(r).delta
  /\ phase[r] = "set" => before[r] = quantity[Target(r)]
  /\ phase[r] = "failing" /\ error[r] = "insufficient" => 
       /\ Target(r) \in held[r]
       /\ ~seen[r].negative
       /\ quantity[Target(r)] + CurrentLeg(r).delta < 0

\* A stock_levels row exists from the first committed movement on.
NoRowNoHistory ==
  \A k \in Keys \ present : quantity[k] = 0 /\ ledger[k] = << >>

\* Why the ledger stays a chain: a balance that a transaction has computed
\* and not yet committed was computed, under a lock that it still holds, from
\* the balance that is committed now.
IInv ==
  /\ MovementsTypeOK
  /\ Exclusive
  /\ \A r \in Requests : Shape(r) /\ Locks(r) /\ Drafts(r)
  /\ NoRowNoHistory
  /\ LedgerExplainsBalance
  /\ LegsAreWhole
  /\ NegativeOnlyByPolicy

\* An open transaction has told the audit log of what it has booked.
Audited == entries = rows /\ audit = ledger
=============================================================================
