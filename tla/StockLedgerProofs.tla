-------------------------- MODULE StockLedgerProofs --------------------------
(***************************************************************************)
(* Machine-checked proofs about StockLedger, for any sets of requests,     *)
(* warehouses, variants and calls: its invariants first, then that it      *)
(* implements StockBook, and so conserves stock.                           *)
(***************************************************************************)
EXTENDS StockTotals, FiniteFacts, SequenceTheorems, TLAPS

-----------------------------------------------------------------------------
\* The legs of a call

LegType == [warehouse : Nat, type : Types, delta : Int]

\* A pair is a sequence of two.
LEMMA PairIsSeq ==
  ASSUME NEW S, NEW a \in S, NEW b \in S
  PROVE  /\ <<a, b>> \in Seq(S)
         /\ Len(<<a, b>>) = 2
         /\ DOMAIN <<a, b>> = {1, 2}
<1>1. <<a, b>> \in Seq(S) /\ Len(<<a, b>>) = 2
  OBVIOUS
<1>2. DOMAIN <<a, b>> = 1..2
  BY <1>1
<1>3. 1..2 = {1, 2}
  OBVIOUS
<1>4. QED  BY <1>1, <1>2, <1>3

\* The fields of a call have their types.
LEMMA CallType ==
  ASSUME NEW c \in Calls
  PROVE  /\ c.kind \in Kinds
         /\ c.warehouse \in Nat /\ c.to \in Nat /\ c.quantity \in Int
BY MovementsAssumption

\* A transfer's two legs go in the order of their warehouses.
LEMMA LegsOfTransfer ==
  ASSUME NEW c \in Calls, c.kind = "transfer"
  PROVE  \/ c.warehouse < c.to /\ Legs(c) = <<TransferOut(c), TransferIn(c)>>
         \/ ~(c.warehouse < c.to) /\ Legs(c) = <<TransferIn(c), TransferOut(c)>>
BY DEF Legs

\* Every other call has one leg.
LEMMA LegsOfOthers ==
  ASSUME NEW c \in Calls, c.kind # "transfer"
  PROVE  Legs(c) = <<Leg(c.warehouse, c.kind,
                         IF c.kind = "stock_in" THEN c.quantity
                         ELSE IF c.kind = "stock_out" THEN -c.quantity ELSE 0)>>
BY CallType DEF Legs, Kinds

\* Legs are well-formed, and there are as many as the kind of call has.
LEMMA LegsType ==
  ASSUME NEW c \in Calls
  PROVE  /\ Legs(c) \in Seq(LegType)
         /\ Len(Legs(c)) = IF c.kind = "transfer" THEN 2 ELSE 1
         /\ DOMAIN Legs(c) = IF c.kind = "transfer" THEN {1, 2} ELSE {1}
<1>1. CASE c.kind = "transfer"
  <2>1. TransferOut(c) \in LegType /\ TransferIn(c) \in LegType
    BY CallType DEF TransferOut, TransferIn, Leg, LegType, Types
  <2>2. PICK a \in LegType, b \in LegType : Legs(c) = <<a, b>>
    BY <1>1, <2>1, LegsOfTransfer
  <2>3. QED  BY <1>1, <2>2, PairIsSeq
<1>2. CASE c.kind # "transfer"
  <2> DEFINE leg == Leg(c.warehouse, c.kind,
                        IF c.kind = "stock_in" THEN c.quantity
                        ELSE IF c.kind = "stock_out" THEN -c.quantity ELSE 0)
  <2>1. leg \in LegType
    BY <1>2, CallType DEF Leg, LegType, Types, Kinds
  <2> HIDE DEF leg
  <2>2. Legs(c) = <<leg>>
    BY <1>2, LegsOfOthers DEF leg
  <2>3. QED  BY <1>2, <2>1, <2>2
<1>3. QED  BY <1>1, <1>2

\* The fields of a leg have their types.
LEMMA LegFields ==
  ASSUME NEW c \in Calls, NEW i \in DOMAIN Legs(c)
  PROVE  /\ Legs(c)[i].warehouse \in Nat
         /\ Legs(c)[i].type \in Types
         /\ Legs(c)[i].delta \in Int
<1>1. Legs(c)[i] \in LegType
  BY LegsType
<1>2. QED  BY <1>1 DEF LegType

\* A call that passed validation names rows of known warehouses, and a
\* transfer two different ones in ascending order.
LEMMA LegsKnown ==
  ASSUME NEW c \in Calls, ValidNumbers(c), KnownIds(c)
  PROVE  /\ \A i \in DOMAIN Legs(c) : <<Legs(c)[i].warehouse, c.variant>> \in Keys
         /\ c.kind = "transfer" => Legs(c)[1].warehouse < Legs(c)[2].warehouse
<1>1. CASE c.kind = "transfer"
  BY <1>1, CallType, LegsOfTransfer
  DEF Leg, TransferIn, TransferOut, ValidNumbers, KnownIds, Keys
<1>2. CASE c.kind # "transfer"
  BY <1>2, LegsOfOthers DEF Leg, KnownIds, Keys
<1>3. QED  BY <1>1, <1>2

-----------------------------------------------------------------------------
\* The keys a request touches

\* The same, as the rows that a request is about to lock.
LEMMA LegKeys ==
  ASSUME MovementsTypeOK, NEW r \in Requests, ValidNumbers(call[r]), KnownIds(call[r])
  PROVE  /\ \A i \in DOMAIN Legs(call[r]) : LegKey(r, i) \in Keys
         /\ call[r].kind = "transfer" => LegKey(r, 1) # LegKey(r, 2)
<1>1. call[r] \in Calls
  BY DEF MovementsTypeOK
<1>3. \A i \in DOMAIN Legs(call[r]) : LegKey(r, i) \in Keys
  BY <1>1, LegsKnown DEF LegKey
<1>4. CASE call[r].kind = "transfer"
  <2>1. /\ Legs(call[r])[1].warehouse < Legs(call[r])[2].warehouse
        /\ Legs(call[r])[1].warehouse \in Nat /\ Legs(call[r])[2].warehouse \in Nat
    <3>1. 1 \in DOMAIN Legs(call[r]) /\ 2 \in DOMAIN Legs(call[r])
      BY <1>1, <1>4, LegsType
    <3>2. QED  BY <1>1, <1>4, <3>1, LegsKnown, LegFields
  <2>2. QED  BY <1>3, <2>1 DEF LegKey
<1>5. QED  BY <1>3, <1>4

\* The rows of no leg, of the first, and of both.
LEMMA FirstKeysUnfold ==
  ASSUME NEW r
  PROVE  /\ FirstKeys(r, 0) = {}
         /\ FirstKeys(r, 1) = {LegKey(r, 1)}
         /\ FirstKeys(r, 2) = {LegKey(r, 1), LegKey(r, 2)}
<1>1. 1..0 = {} /\ 1..1 = {1} /\ 1..2 = {1, 2}
  OBVIOUS
<1>2. QED  BY <1>1 DEF FirstKeys

\* What holds of a request that takes no step still holds if nobody changed
\* the rows it has locked and no stock_levels row went away.
LEMMA Frame ==
  ASSUME MovementsTypeOK, NEW s \in Requests, Shape(s), Locks(s), Drafts(s),
         phase'[s] = phase[s], error'[s] = error[s], seen'[s] = seen[s],
         at'[s] = at[s], before'[s] = before[s], held'[s] = held[s],
         work'[s] = work[s], rows'[s] = rows[s], header'[s] = header[s],
         call' = call, present \subseteq present',
         \A k \in held[s] : /\ quantity'[k] = quantity[k]
                            /\ k \in present' => k \in present
  PROVE  Shape(s)' /\ Locks(s)' /\ Drafts(s)'
<1>0. /\ \A i : LegKey(s, i)' = LegKey(s, i)
      /\ \A n : FirstKeys(s, n)' = FirstKeys(s, n)
      /\ Recorded(s)' = Recorded(s)
      /\ Target(s)' = Target(s)
      /\ CurrentLeg(s)' = CurrentLeg(s)
  BY DEF LegKey, FirstKeys, Recorded, Target, CurrentLeg
<1>1. Shape(s)'
  BY DEF Shape
<1>2. Locks(s)'
  BY <1>0 DEF Locks
<1>3. Drafts(s)'
  <2>1. ASSUME phase[s] # "failing", NEW i \in 1..Recorded(s)
        PROVE  RecordedOK(s, i)'
    <3>1. LegKey(s, i) \in held[s]
      BY <2>1 DEF Locks, Recorded, FirstKeys, Shape, MovementsTypeOK
    <3>2. RecordedOK(s, i)
      BY <2>1 DEF Drafts
    <3>3. QED  BY <1>0, <3>1, <3>2 DEF RecordedOK, Reports
  <2>2. phase[s] = "check" \/ phase[s] = "set" => Target(s) \in held[s]
    BY DEF Locks, FirstKeys, LegKey, Target, CurrentLeg, Shape, MovementsTypeOK
  <2>3. QED  BY <1>0, <2>1, <2>2 DEF Drafts
<1>4. QED  BY <1>1, <1>2, <1>3

-----------------------------------------------------------------------------
\* Steps that commit nothing

\* The local state of request s is not changed by the step.
Untouched(s) ==
  /\ phase'[s] = phase[s] /\ error'[s] = error[s] /\ seen'[s] = seen[s]
  /\ at'[s] = at[s] /\ before'[s] = before[s] /\ held'[s] = held[s]
  /\ work'[s] = work[s] /\ rows'[s] = rows[s] /\ header'[s] = header[s]

\* Only a committed request is the author of a committed ledger row.
LEMMA AuthorCommitted ==
  ASSUME IInv, NEW k \in Keys, NEW i \in DOMAIN ledger[k], ledger[k][i].by # Before
  PROVE  ledger[k][i].by \in Requests /\ phase[ledger[k][i].by] = "committed"
<1> DEFINE row == ledger[k][i]
<1>1. ledger[k] \in Seq(RowType)
  BY DEF IInv, MovementsTypeOK
<1>2. row \in RowType
  BY <1>1
<1>3. row.by \in Requests
  BY <1>2 DEF RowType
<1>4. RowsBy(row.by, k) # {}
  BY DEF RowsBy
<1>5. QED  BY <1>3, <1>4 DEF IInv, LegsAreWhole

\* A step that touches only the request that takes it, and locks no row that
\* another one holds, keeps the invariant if it does so for that request.
LEMMA LocalStep ==
  ASSUME IInv, NEW r \in Requests,
         UNCHANGED <<committed, call>>,
         \A s \in Requests \ {r} : Untouched(s),
         phase[r] # "committed", phase'[r] # "committed",
         MovementsTypeOK', Shape(r)', Locks(r)', Drafts(r)',
         \A s \in Requests \ {r} : held'[r] \cap held[s] = {}
  PROVE  IInv'
<1>1. Exclusive'
  BY DEF IInv, Exclusive, Untouched
<1>2. \A s \in Requests : Shape(s)' /\ Locks(s)' /\ Drafts(s)'
  <2>1. ASSUME NEW s \in Requests \ {r}
        PROVE  Shape(s)' /\ Locks(s)' /\ Drafts(s)'
    BY <2>1, Frame DEF IInv, Untouched, committed
  <2>2. QED  BY <2>1
<1>3. NoRowNoHistory' /\ LedgerExplainsBalance'
  BY DEF IInv, NoRowNoHistory, LedgerExplainsBalance, LastAfter, committed
<1>4. LegsAreWhole'
  <2>1. \A s \in Requests : (phase'[s] = "committed") <=> (phase[s] = "committed")
    BY DEF Untouched
  <2>2. QED
    BY <2>1 DEF IInv, LegsAreWhole, RowsBy, LegKey, Reports, committed
<1>5. NegativeOnlyByPolicy'
  <2>1. ASSUME NEW k \in Keys, NEW i \in DOMAIN ledger[k], ledger[k][i].by # Before
        PROVE  seen'[ledger[k][i].by] = seen[ledger[k][i].by]
    BY <2>1, AuthorCommitted DEF Untouched
  <2>2. ledger' = ledger
    BY DEF committed
  <2>3. QED  BY <2>1, <2>2 DEF IInv, NegativeOnlyByPolicy
<1>6. QED  BY <1>1, <1>2, <1>3, <1>4, <1>5 DEF IInv

\* A request that is refused by validation touches nothing.
LEMMA RejectStep ==
  ASSUME IInv, NEW r \in Requests, Reject(r)
  PROVE  IInv'
<1>0. MovementsTypeOK /\ Shape(r) /\ Locks(r) /\ Drafts(r) /\ phase[r] = "new"
  BY DEF IInv, Reject
<1>1. /\ phase' = [phase EXCEPT ![r] = "failing"]
      /\ \E e \in {"invalid", "not_found"} : error' = [error EXCEPT ![r] = e]
      /\ UNCHANGED <<committed, policy, call, seen, at, before, held, work, rows, header>>
  BY DEF Reject, Fail, Goto, draft
<1>2. MovementsTypeOK'
  BY <1>0, <1>1 DEF MovementsTypeOK, committed, Running, Errors
<1>3. Shape(r)' /\ Locks(r)' /\ Drafts(r)'
  BY <1>0, <1>1 DEF Shape, Locks, Drafts, MovementsTypeOK, Validated, Ended
<1>4. \A s \in Requests \ {r} : Untouched(s)
  BY <1>0, <1>1 DEF Untouched, MovementsTypeOK
<1>5. held'[r] = {} /\ phase[r] # "committed" /\ phase'[r] # "committed"
  BY <1>0, <1>1 DEF MovementsTypeOK, Locks
<1>6. QED  BY <1>1, <1>2, <1>3, <1>4, <1>5, LocalStep DEF committed

\* A request that passes validation reads the policy and takes its first leg.
LEMMA OpenStep ==
  ASSUME IInv, NEW r \in Requests, Open(r)
  PROVE  IInv'
<1>0. /\ MovementsTypeOK /\ Shape(r) /\ Locks(r) /\ Drafts(r) /\ phase[r] = "new"
      /\ ValidNumbers(call[r]) /\ KnownIds(call[r])
  BY DEF IInv, Open
<1> DEFINE p == policy[ProductOf[call[r].variant]]
<1>1. p \in Policies
  BY <1>0, StockLedgerAssumption DEF MovementsTypeOK, KnownIds
<1> HIDE DEF p
<1>2. /\ seen' = [seen EXCEPT ![r] = p]
      /\ UNCHANGED <<committed, policy, call, at, before, held, work, rows>>
  BY DEF Open, p
<1>3. \/ /\ call[r].kind = "adjustment" /\ p.track
         /\ phase' = [phase EXCEPT ![r] = "ensure"]
         /\ UNCHANGED <<error, header>>
      \/ /\ phase' = [phase EXCEPT ![r] = "failing"]
         /\ \E e \in {"untracked", "database"} : error' = [error EXCEPT ![r] = e]
         /\ UNCHANGED header
      \/ /\ call[r].kind # "adjustment"
         /\ phase' = [phase EXCEPT ![r] = "upsert"]
         /\ header' = [header EXCEPT ![r] = (call[r].kind = "transfer")]
         /\ UNCHANGED error
  BY DEF Open, Goto, Fail, p
<1>4. MovementsTypeOK'
  BY <1>0, <1>1, <1>2, <1>3 DEF MovementsTypeOK, committed, Running, Errors
<1>5. Shape(r)' /\ Locks(r)' /\ Drafts(r)'
  <2>1. at[r] = 1 /\ held[r] = {} /\ \A k \in Keys : rows[r][k] = << >>
    BY <1>0, FirstKeysUnfold DEF Shape, Locks, Drafts, Recorded
  <2>2. Shape(r)'
    BY <1>0, <1>2, <1>3 DEF Shape, MovementsTypeOK, Validated
  <2>3. Locks(r)'
    BY <1>0, <1>2, <1>3, <2>1, FirstKeysUnfold
    DEF Locks, MovementsTypeOK, Ended, FirstKeys, LegKey
  <2>4. Drafts(r)'
    BY <1>0, <1>2, <1>3, <2>1 DEF Drafts, Recorded, MovementsTypeOK, FirstKeys
  <2>5. QED  BY <2>2, <2>3, <2>4
<1>6. \A s \in Requests \ {r} : Untouched(s)
  BY <1>0, <1>2, <1>3 DEF Untouched, MovementsTypeOK
<1>7. held'[r] = {} /\ phase[r] # "committed" /\ phase'[r] # "committed"
  BY <1>0, <1>2, <1>3 DEF MovementsTypeOK, Locks
<1>8. QED  BY <1>2, <1>4, <1>5, <1>6, <1>7, LocalStep DEF committed

\* A function of functions with one value changed.
LEMMA NestedExcept ==
  ASSUME NEW A, NEW B, NEW C, NEW f \in [A -> [B -> C]],
         NEW a \in A, NEW b \in B, NEW c \in C
  PROVE  /\ [f EXCEPT ![a][b] = c] \in [A -> [B -> C]]
         /\ [f EXCEPT ![a][b] = c] = [f EXCEPT ![a] = [f[a] EXCEPT ![b] = c]]
<1>1. [f[a] EXCEPT ![b] = c] \in [B -> C]
  OBVIOUS
<1>2. [f EXCEPT ![a] = [f[a] EXCEPT ![b] = c]] \in [A -> [B -> C]]
  BY <1>1
<1>3. [f EXCEPT ![a][b] = c] = [f EXCEPT ![a] = [f[a] EXCEPT ![b] = c]]
  OBVIOUS
<1>4. QED  BY <1>2, <1>3

\* The row that the current leg is about, and the rows before it.
LEMMA TargetFacts ==
  ASSUME MovementsTypeOK, NEW r \in Requests, Shape(r), phase[r] \in Validated
  PROVE  /\ Target(r) = LegKey(r, at[r])
         /\ Target(r) \in Keys
         /\ CurrentLeg(r).delta \in Int
         /\ CurrentLeg(r).type \in Types
         /\ at[r] \in Nat /\ Recorded(r) \in 0..2
         /\ Target(r) \notin FirstKeys(r, at[r] - 1)
         /\ FirstKeys(r, at[r]) = FirstKeys(r, at[r] - 1) \union {Target(r)}
         /\ FirstKeys(r, at[r]) \subseteq Keys
         /\ \A i \in 1..at[r] : LegKey(r, i) \in FirstKeys(r, at[r])
<1>1. /\ call[r] \in Calls /\ at[r] \in {1, 2} /\ at[r] \in DOMAIN Legs(call[r])
      /\ ValidNumbers(call[r]) /\ KnownIds(call[r])
  BY DEF MovementsTypeOK, Shape
<1>2. /\ Target(r) = LegKey(r, at[r]) /\ Target(r) \in Keys
      /\ CurrentLeg(r).delta \in Int /\ CurrentLeg(r).type \in Types
  BY <1>1, LegKeys, LegFields DEF Target, LegKey, CurrentLeg
<1>3. CASE at[r] = 1
  BY <1>2, <1>3, FirstKeysUnfold DEF Recorded, FirstKeys
<1>4. CASE at[r] = 2
  <2>1. call[r].kind = "transfer" /\ 1 \in DOMAIN Legs(call[r])
    BY <1>1, <1>4, LegsType
  <2>2. LegKey(r, 1) # LegKey(r, 2) /\ LegKey(r, 1) \in Keys
    BY <1>1, <2>1, LegKeys
  <2>3. QED  BY <1>2, <1>4, <2>2, FirstKeysUnfold DEF Recorded, FirstKeys
<1>5. QED  BY <1>1, <1>3, <1>4

\* The upsert locks a row nobody else holds, and drafts a balance from the
\* committed one.
LEMMA UpsertStep ==
  ASSUME IInv, NEW r \in Requests, Upsert(r)
  PROVE  IInv'
<1> DEFINE k == Target(r)
           new == quantity[k] + CurrentLeg(r).delta
<1>0. MovementsTypeOK /\ Shape(r) /\ Locks(r) /\ Drafts(r) /\ phase[r] = "upsert" /\ Free(r, k)
  BY DEF IInv, Upsert
<1>a. /\ k = LegKey(r, at[r]) /\ k \in Keys /\ CurrentLeg(r).delta \in Int
      /\ at[r] \in Nat
      /\ k \notin FirstKeys(r, at[r] - 1)
      /\ FirstKeys(r, at[r]) = FirstKeys(r, at[r] - 1) \union {k}
  BY <1>0, TargetFacts DEF Validated
<1>1. new \in Int
  BY <1>0, <1>a DEF MovementsTypeOK
<1>2. /\ held' = [held EXCEPT ![r] = @ \union {k}]
      /\ UNCHANGED <<committed, policy, call, seen, at, before, rows, header>>
  BY DEF Upsert
<1>3. \/ /\ work' = [work EXCEPT ![r][k] = new]
         /\ phase' = [phase EXCEPT ![r] = "check"]
         /\ UNCHANGED error
      \/ /\ phase' = [phase EXCEPT ![r] = "failing"]
         /\ error' = [error EXCEPT ![r] = "database"]
         /\ UNCHANGED work
  BY DEF Upsert, Goto, Fail
<1> HIDE DEF new
<1>4. MovementsTypeOK'
  <2>1. work' \in [Requests -> [Keys -> Int]]
    <3>1. work \in [Requests -> [Keys -> Int]]
      BY <1>0 DEF MovementsTypeOK
    <3>2. [work EXCEPT ![r][k] = new] \in [Requests -> [Keys -> Int]]
      BY <1>a, <1>1, <3>1, NestedExcept
    <3>3. QED  BY <1>3, <3>1, <3>2
  <2>2. held' \in [Requests -> SUBSET Keys]
    BY <1>0, <1>a, <1>2 DEF MovementsTypeOK
  <2>3. QED
    BY <1>0, <1>2, <1>3, <2>1, <2>2 DEF MovementsTypeOK, committed, Running, Errors
<1>b. /\ \A i : LegKey(r, i)' = LegKey(r, i)
      /\ \A n : FirstKeys(r, n)' = FirstKeys(r, n)
      /\ Target(r)' = k /\ CurrentLeg(r)' = CurrentLeg(r)
  BY <1>2 DEF LegKey, FirstKeys, Target, CurrentLeg
<1>c. /\ quantity' = quantity /\ at'[r] = at[r]
      /\ rows'[r] = rows[r] /\ header'[r] = header[r] /\ seen'[r] = seen[r]
  BY <1>2 DEF committed
<1>d. held'[r] = FirstKeys(r, at[r])
  BY <1>0, <1>a, <1>2 DEF MovementsTypeOK, Locks
<1>e. /\ phase'[r] \in {"check", "failing"}
      /\ phase'[r] = "check" => work'[r] = [work[r] EXCEPT ![k] = new]
      /\ phase'[r] = "failing" => error'[r] = "database"
  BY <1>0, <1>3 DEF MovementsTypeOK
<1>5. Shape(r)' /\ Locks(r)' /\ Drafts(r)'
  <2>1. Shape(r)'
    BY <1>0, <1>2, <1>c, <1>e DEF Shape, Validated
  <2>2. Locks(r)'
    BY <1>b, <1>c, <1>d, <1>e DEF Locks, Ended
  <2>3. phase'[r] = "check" => Recorded(r)' = at[r] - 1 /\ Recorded(r) = at[r] - 1
    BY <1>0, <1>c, <1>e DEF Recorded
  <2>4. ASSUME phase'[r] = "check", NEW i \in 1..(at[r] - 1)
        PROVE  RecordedOK(r, i)'
    <3>1. LegKey(r, i) # k
      BY <1>a DEF FirstKeys
    <3>2. RecordedOK(r, i) /\ LegKey(r, i) \in Keys
      BY <1>0, <1>a, <2>3, <2>4, TargetFacts DEF Drafts, Validated
    <3>3. work'[r][LegKey(r, i)] = work[r][LegKey(r, i)]
      BY <1>0, <1>e, <2>4, <3>1, <3>2 DEF MovementsTypeOK
    <3>4. QED  BY <1>2, <1>b, <1>c, <3>2, <3>3 DEF RecordedOK, Reports
  <2>5. phase'[r] = "check" => work'[r][k] = new
    BY <1>0, <1>a, <1>e DEF MovementsTypeOK
  <2>6. header[r] = (call[r].kind = "transfer")
    BY <1>0 DEF Drafts
  <2>7. ASSUME phase'[r] = "check"
        PROVE  \A j \in Keys \ FirstKeys(r, Recorded(r)) : rows[r][j] = << >>
    BY <1>0 DEF Drafts
  <2>8. Drafts(r)'
    <3>1. CASE phase'[r] = "check"
      BY <1>b, <1>c, <1>2, <2>3, <2>4, <2>5, <2>6, <2>7, <3>1 DEF Drafts, new
    <3>2. CASE phase'[r] = "failing"
      BY <1>e, <3>2 DEF Drafts
    <3>3. QED  BY <1>e, <3>1, <3>2
  <2>9. QED  BY <2>1, <2>2, <2>8
<1>6. \A s \in Requests \ {r} : Untouched(s)
  BY <1>0, <1>2, <1>3 DEF Untouched, MovementsTypeOK
<1>7. \A s \in Requests \ {r} : held'[r] \cap held[s] = {}
  BY <1>0, <1>2 DEF IInv, Exclusive, Free, MovementsTypeOK
<1>8. phase[r] # "committed" /\ phase'[r] # "committed"
  BY <1>0, <1>e
<1>9. QED  BY <1>2, <1>4, <1>5, <1>6, <1>7, <1>8, LocalStep DEF committed

\* Recording the current leg completes it: the request goes on to its next
\* leg or to its commit, and exactly one more leg has its ledger row.
LEMMA RecordStep ==
  ASSUME MovementsTypeOK, NEW r \in Requests, Shape(r), Locks(r), Drafts(r),
         phase[r] \in {"check", "set"},
         NEW type \in Types, NEW delta \in Int, NEW after \in Int,
         Record(r, type, delta, after), call' = call, UNCHANGED seen,
         held'[r] = FirstKeys(r, at[r])
  PROVE  /\ rows' \in [Requests -> [Keys -> Seq(RowType)]]
         /\ rows'[r] = [rows[r] EXCEPT ![Target(r)] = <<Row(r, type, delta, after)>>]
         /\ at' \in [Requests -> {1, 2}]
         /\ phase'[r] \in {"upsert", "commit"}
         /\ phase' = [phase EXCEPT ![r] = phase'[r]]
         /\ \A s \in Requests \ {r} : rows'[s] = rows[s] /\ at'[s] = at[s]
         /\ Shape(r)' /\ Locks(r)'
         /\ Recorded(r) = IF phase[r] = "check" THEN at[r] - 1 ELSE 0
         /\ Recorded(r)' = at[r]
<1> DEFINE k == Target(r)
           row == Row(r, type, delta, after)
<1>0. k = Target(r)
  OBVIOUS
<1>1. /\ k = LegKey(r, at[r]) /\ k \in Keys /\ at[r] \in Nat
      /\ k \notin FirstKeys(r, at[r] - 1)
  BY TargetFacts DEF Validated
<1>2. rows[r][k] = << >>
  <2>1. phase[r] = "check" => Recorded(r) = at[r] - 1
    BY DEF Recorded
  <2>2. phase[r] = "set" => FirstKeys(r, Recorded(r)) = {}
    BY FirstKeysUnfold DEF Recorded
  <2>3. QED  BY <1>1, <2>1, <2>2 DEF Drafts
<1>3. row \in RowType
  BY DEF Row, RowType
<1>4. /\ rows' = [rows EXCEPT ![r][k] = Append(@, row)]
      /\ \/ /\ at[r] < Len(Legs(call[r]))
            /\ phase' = [phase EXCEPT ![r] = "upsert"]
            /\ at' = [at EXCEPT ![r] = @ + 1]
         \/ /\ ~(at[r] < Len(Legs(call[r])))
            /\ phase' = [phase EXCEPT ![r] = "commit"]
            /\ UNCHANGED at
  BY DEF Record, Goto
<1> HIDE DEF k, row
<1>5. rows \in [Requests -> [Keys -> Seq(RowType)]] /\ rows[r] \in [Keys -> Seq(RowType)]
  BY DEF MovementsTypeOK
<1>6. rows' = [rows EXCEPT ![r][k] = <<row>>]
  <2>1. Append(rows[r][k], row) = <<row>>
    BY <1>2 DEF k
  <2>2. rows' = [rows EXCEPT ![r][k] = Append(rows[r][k], row)]
    BY <1>4
  <2>3. QED  BY <2>1, <2>2
<1>7. <<row>> \in Seq(RowType)
  BY <1>3
<1>8. /\ rows' \in [Requests -> [Keys -> Seq(RowType)]]
      /\ rows' = [rows EXCEPT ![r] = [rows[r] EXCEPT ![k] = <<row>>]]
  <2>1. k \in Keys
    BY <1>1
  <2>2. QED  BY <1>5, <1>6, <1>7, <2>1, NestedExcept
<1>9. /\ call[r] \in Calls /\ at[r] \in DOMAIN Legs(call[r]) /\ at[r] \in {1, 2}
  BY DEF Shape, MovementsTypeOK
<1>10. /\ at[r] < Len(Legs(call[r])) => /\ at[r] = 1 /\ 2 \in DOMAIN Legs(call[r])
                                        /\ call[r].kind # "adjustment"
                                        /\ Len(Legs(call[r])) = 2
       /\ ~(at[r] < Len(Legs(call[r]))) => at[r] = Len(Legs(call[r]))
  <2>1. CASE call[r].kind = "transfer"
    <3>1. Len(Legs(call[r])) = 2 /\ DOMAIN Legs(call[r]) = {1, 2}
      BY <1>9, <2>1, LegsType
    <3>2. QED  BY <1>9, <2>1, <3>1
  <2>2. CASE call[r].kind # "transfer"
    <3>1. Len(Legs(call[r])) = 1 /\ DOMAIN Legs(call[r]) = {1}
      BY <1>9, <2>2, LegsType
    <3>2. QED  BY <1>9, <3>1
  <2>3. QED  BY <2>1, <2>2
<1>11. at' \in [Requests -> {1, 2}]
  <2>1. at \in [Requests -> {1, 2}]
    BY DEF MovementsTypeOK
  <2>2. CASE at' = at
    BY <2>1, <2>2
  <2>3. CASE at' = [at EXCEPT ![r] = @ + 1] /\ at[r] = 1
    BY <2>1, <2>3
  <2>4. QED  BY <1>4, <1>10, <2>2, <2>3
<1>12. /\ \A i : LegKey(r, i)' = LegKey(r, i)
       /\ \A n : FirstKeys(r, n)' = FirstKeys(r, n)
  BY DEF LegKey, FirstKeys
<1>13. \/ /\ phase'[r] = "upsert" /\ at'[r] = at[r] + 1 /\ at[r] < Len(Legs(call[r]))
       \/ /\ phase'[r] = "commit" /\ at'[r] = at[r] /\ at[r] = Len(Legs(call[r]))
  BY <1>4, <1>10 DEF MovementsTypeOK
<1>14. Shape(r)'
  BY <1>9, <1>10, <1>13 DEF Shape, Validated
<1>15. Locks(r)'
  BY <1>9, <1>12, <1>13 DEF Locks, Ended
<1>16. /\ Recorded(r) = IF phase[r] = "check" THEN at[r] - 1 ELSE 0
       /\ Recorded(r)' = at[r]
  <2>1. phase[r] = "check" => Recorded(r) = at[r] - 1
    BY DEF Recorded
  <2>2. phase[r] = "set" => Recorded(r) = 0
    BY DEF Recorded
  <2>3. phase'[r] = "upsert" => Recorded(r)' = at'[r] - 1
    BY DEF Recorded
  <2>4. phase'[r] = "commit" => Recorded(r)' = at'[r]
    BY DEF Recorded
  <2>5. QED  BY <1>9, <1>13, <2>1, <2>2, <2>3, <2>4
<1>17. /\ phase' = [phase EXCEPT ![r] = phase'[r]]
       /\ \A s \in Requests \ {r} : rows'[s] = rows[s] /\ at'[s] = at[s]
       /\ rows'[r] = [rows[r] EXCEPT ![k] = <<row>>]
  BY <1>4, <1>5, <1>8 DEF MovementsTypeOK
<1>18. QED
  BY <1>8, <1>11, <1>13, <1>14, <1>15, <1>16, <1>17 DEF k, row

\* A step that only dooms the transaction of r.
LEMMA FailStep ==
  ASSUME IInv, NEW r \in Requests, NEW e \in Errors, Fail(r, e),
         phase[r] \in {"check", "set"},
         UNCHANGED <<committed, policy, call, seen, at, before, work, rows, header>>,
         held' = [held EXCEPT ![r] = @ \union {Target(r)}] \/ held' = held,
         Free(r, Target(r)) \/ held' = held,
         e = "insufficient" => /\ Target(r) \in held[r]
                               /\ ~seen[r].negative
                               /\ quantity[Target(r)] + CurrentLeg(r).delta < 0
  PROVE  IInv'
<1>0. MovementsTypeOK /\ Shape(r) /\ Locks(r) /\ Drafts(r)
  BY DEF IInv
<1>1. /\ Target(r) \in Keys /\ FirstKeys(r, at[r]) \subseteq Keys
      /\ FirstKeys(r, at[r]) = FirstKeys(r, at[r] - 1) \union {Target(r)}
  BY <1>0, TargetFacts DEF Validated
<1>2. /\ phase' = [phase EXCEPT ![r] = "failing"]
      /\ error' = [error EXCEPT ![r] = e]
  BY DEF Fail, Goto
<1>3. held' \in [Requests -> SUBSET Keys]
  <2>1. held \in [Requests -> SUBSET Keys]
    BY <1>0 DEF MovementsTypeOK
  <2>2. held[r] \union {Target(r)} \in SUBSET Keys
    BY <1>1, <2>1
  <2>3. QED  BY <2>1, <2>2
<1>4. MovementsTypeOK'
  BY <1>0, <1>2, <1>3 DEF MovementsTypeOK, committed, Running
<1>5. /\ phase'[r] = "failing" /\ error'[r] = e
      /\ held'[r] = FirstKeys(r, at[r])
      /\ Target(r)' = Target(r) /\ CurrentLeg(r)' = CurrentLeg(r)
      /\ \A n : FirstKeys(r, n)' = FirstKeys(r, n)
  BY <1>0, <1>1, <1>2 DEF MovementsTypeOK, Locks, Target, CurrentLeg, FirstKeys, LegKey
<1>6. Shape(r)' /\ Locks(r)'
  BY <1>0, <1>5 DEF Shape, Validated, Locks, Ended
<1>7. Drafts(r)'
  BY <1>0, <1>1, <1>5 DEF Drafts, committed
<1>8. \A s \in Requests \ {r} : Untouched(s)
  BY <1>0, <1>2 DEF Untouched, MovementsTypeOK
<1>9. \A s \in Requests \ {r} : held'[r] \cap held[s] = {}
  BY <1>0 DEF IInv, Exclusive, Free, MovementsTypeOK
<1>10. phase[r] # "committed" /\ phase'[r] # "committed"
  BY <1>5
<1>11. QED  BY <1>4, <1>6, <1>7, <1>8, <1>9, <1>10, LocalStep DEF committed

\* The policy check lets the leg pass and drafts its ledger row, or fails.
LEMMA CheckStep ==
  ASSUME IInv, NEW r \in Requests, Check(r)
  PROVE  IInv'
<1> DEFINE k == Target(r)
           new == work[r][k]
<1>n. PICK n : n = at[r]
  OBVIOUS
<1>0. MovementsTypeOK /\ Shape(r) /\ Locks(r) /\ Drafts(r) /\ phase[r] = "check"
  BY DEF IInv, Check
<1>1. /\ k = LegKey(r, n) /\ k \in Keys /\ n \in Nat
      /\ CurrentLeg(r).delta \in Int /\ CurrentLeg(r).type \in Types
      /\ k \notin FirstKeys(r, n - 1)
      /\ FirstKeys(r, n) = FirstKeys(r, n - 1) \union {k}
      /\ \A i \in 1..n : LegKey(r, i) \in FirstKeys(r, n)
      /\ FirstKeys(r, n) \subseteq Keys
  BY <1>0, <1>n, TargetFacts DEF Validated
<1>2. /\ new \in Int /\ new = quantity[k] + CurrentLeg(r).delta
      /\ held[r] = FirstKeys(r, n)
  BY <1>0, <1>1, <1>n DEF MovementsTypeOK, Drafts, Locks
<1>3. UNCHANGED <<committed, policy, call, seen, before, held, work, header>>
  BY DEF Check
<1>4. CASE \E e \in {"untracked", "insufficient"} :
             /\ Fail(r, e) /\ UNCHANGED <<at, rows>>
             /\ e = "insufficient" => new < 0 /\ ~seen[r].negative
  <2>1. PICK e \in {"untracked", "insufficient"} :
             /\ Fail(r, e) /\ UNCHANGED <<at, rows>>
             /\ e = "insufficient" => new < 0 /\ ~seen[r].negative
    BY <1>4
  <2>2. e \in Errors
    BY DEF Errors
  <2>3. QED  BY <1>0, <1>1, <1>2, <1>3, <1>n, <2>1, <2>2, FailStep DEF committed
<1>5. CASE /\ seen[r].track /\ (new < 0 => seen[r].negative)
           /\ Record(r, CurrentLeg(r).type, CurrentLeg(r).delta, new)
           /\ UNCHANGED error
  <2> DEFINE row == Row(r, CurrentLeg(r).type, CurrentLeg(r).delta, new)
  <2>1. /\ rows' \in [Requests -> [Keys -> Seq(RowType)]]
        /\ rows'[r] = [rows[r] EXCEPT ![k] = <<row>>]
        /\ at' \in [Requests -> {1, 2}]
        /\ phase'[r] \in {"upsert", "commit"}
        /\ phase' = [phase EXCEPT ![r] = phase'[r]]
        /\ \A s \in Requests \ {r} : rows'[s] = rows[s] /\ at'[s] = at[s]
        /\ Shape(r)' /\ Locks(r)'
        /\ Recorded(r) = n - 1
        /\ Recorded(r)' = n
    <3> DEFINE type == CurrentLeg(r).type
               delta == CurrentLeg(r).delta
    <3>1. /\ type \in Types /\ delta \in Int /\ new \in Int
          /\ Record(r, type, delta, new)
          /\ call' = call /\ seen' = seen /\ held'[r] = FirstKeys(r, at[r])
          /\ phase[r] \in {"check", "set"}
      BY <1>0, <1>1, <1>2, <1>3, <1>5, <1>n
    <3> HIDE DEF type, delta, new
    <3>2. /\ rows' \in [Requests -> [Keys -> Seq(RowType)]]
          /\ rows'[r] = [rows[r] EXCEPT ![k] = <<Row(r, type, delta, new)>>]
          /\ at' \in [Requests -> {1, 2}]
          /\ phase'[r] \in {"upsert", "commit"}
          /\ phase' = [phase EXCEPT ![r] = phase'[r]]
          /\ \A s \in Requests \ {r} : rows'[s] = rows[s] /\ at'[s] = at[s]
          /\ Shape(r)' /\ Locks(r)'
          /\ Recorded(r) = IF phase[r] = "check" THEN at[r] - 1 ELSE 0
          /\ Recorded(r)' = at[r]
      BY <1>0, <3>1, RecordStep
    <3>3. QED  BY <1>0, <1>n, <3>2 DEF type, delta, new
  <2>2. MovementsTypeOK'
    <3>1. phase' \in [Requests -> {"new"} \union Running \union Ended]
      BY <1>0, <2>1 DEF MovementsTypeOK, Running
    <3>2. QED  BY <1>0, <1>3, <1>5, <2>1, <3>1 DEF MovementsTypeOK, committed
  <2>3. /\ \A i : LegKey(r, i)' = LegKey(r, i)
        /\ \A j : FirstKeys(r, j)' = FirstKeys(r, j)
        /\ quantity' = quantity
    BY <1>3 DEF LegKey, FirstKeys, committed
  <2>4. ASSUME NEW i \in 1..(n - 1)
        PROVE  RecordedOK(r, i)'
    <3>1. RecordedOK(r, i) /\ LegKey(r, i) # k /\ LegKey(r, i) \in Keys
      BY <1>0, <1>1, <2>1 DEF Drafts, FirstKeys
    <3>2. rows'[r][LegKey(r, i)] = rows[r][LegKey(r, i)]
      BY <1>0, <2>1, <3>1 DEF MovementsTypeOK
    <3>3. QED  BY <1>3, <2>3, <3>1, <3>2 DEF RecordedOK, Reports
  <2>5. RecordedOK(r, n)'
    <3>1. rows'[r][k] = <<row>>
      BY <1>0, <1>1, <2>1 DEF MovementsTypeOK
    <3>2. work'[r][k] - quantity'[k] = CurrentLeg(r).delta
      BY <1>0, <1>1, <1>2, <1>3, <2>3 DEF MovementsTypeOK
    <3>3. call[r].kind # "adjustment"
      BY <1>0 DEF Shape
    <3>4. /\ LegKey(r, n)' = k /\ call' = call /\ seen' = seen
          /\ CurrentLeg(r) = Legs(call[r])[n] /\ work'[r][k] = new
      BY <1>1, <1>3, <1>n, <2>3 DEF CurrentLeg
    <3>5. row = Row(r, Legs(call[r])[n].type, work'[r][k] - quantity'[k], work'[r][k])
      BY <3>2, <3>4
    <3>6. Reports(row, Legs(call[r])[n], call[r])
      BY <3>3, <3>4 DEF Reports, Row
    <3>7. row.after < 0 => seen[r].negative
      BY <1>5 DEF Row
    <3> HIDE DEF row, new
    <3>8. QED
      BY <1>5, <3>1, <3>4, <3>5, <3>6, <3>7 DEF RecordedOK, Reports
  <2>6. Drafts(r)'
    <3>1. \A i \in 1..n : RecordedOK(r, i)'
      BY <1>1, <2>4, <2>5
    <3>2. \A j \in Keys \ FirstKeys(r, n) : rows'[r][j] = << >>
      BY <1>0, <1>1, <2>1 DEF Drafts, MovementsTypeOK
    <3>3. header'[r] = (call[r].kind = "transfer")
      BY <1>0, <1>3 DEF Drafts
    <3>4. QED  BY <1>3, <2>1, <2>3, <3>1, <3>2, <3>3 DEF Drafts
  <2>7. \A s \in Requests \ {r} : Untouched(s)
    BY <1>0, <1>3, <1>5, <2>1 DEF Untouched, MovementsTypeOK
  <2>8. \A s \in Requests \ {r} : held'[r] \cap held[s] = {}
    BY <1>3 DEF IInv, Exclusive
  <2>9. phase[r] # "committed" /\ phase'[r] # "committed"
    BY <1>0, <2>1
  <2>10. QED
    BY <1>3, <2>1, <2>2, <2>6, <2>7, <2>8, <2>9, LocalStep DEF committed
<1>6. QED  BY <1>4, <1>5 DEF Check, PolicyAllows

\* An adjustment has one leg, and has recorded nothing before its balance is set.
LEMMA CountFacts ==
  ASSUME MovementsTypeOK, NEW r \in Requests, Shape(r), phase[r] \in {"ensure", "lock", "set"}
  PROVE  /\ at[r] = 1 /\ Recorded(r) = 0
         /\ Target(r) = LegKey(r, 1) /\ Target(r) \in Keys
         /\ FirstKeys(r, at[r]) = {Target(r)}
         /\ call[r] \in Calls /\ call[r].kind = "adjustment" /\ call[r].quantity \in Int
         /\ seen[r].track
<1>1. call[r] \in Calls /\ call[r].kind = "adjustment" /\ at[r] \in DOMAIN Legs(call[r])
  BY DEF MovementsTypeOK, Shape
<1>2. at[r] = 1
  BY <1>1, LegsType
<1>3. Recorded(r) = 0
  BY DEF Recorded
<1>4. QED
  BY <1>1, <1>2, <1>3, TargetFacts, CallType, FirstKeysUnfold DEF Validated, Shape

\* The insert of an empty row, unless there is one, for an adjustment.
LEMMA EnsureRowStep ==
  ASSUME IInv, NEW r \in Requests, EnsureRow(r)
  PROVE  IInv'
<1> DEFINE k == Target(r)
<1>0. MovementsTypeOK /\ Shape(r) /\ Locks(r) /\ Drafts(r) /\ phase[r] = "ensure"
  BY DEF IInv, EnsureRow
<1>1. k \in Keys /\ at[r] = 1 /\ held[r] = {}
  BY <1>0, CountFacts DEF Locks
<1>2. /\ \/ k \in present /\ UNCHANGED <<held, work>>
         \/ /\ k \notin present /\ Free(r, k)
            /\ held' = [held EXCEPT ![r] = @ \union {k}]
            /\ work' = [work EXCEPT ![r][k] = 0]
      /\ phase' = [phase EXCEPT ![r] = "lock"]
      /\ UNCHANGED <<committed, policy, call, error, seen, at, before, rows, header>>
  BY DEF EnsureRow, Goto
<1>k. k' = k
  BY <1>2 DEF Target, CurrentLeg
<1> HIDE DEF k
<1>3. held \in [Requests -> SUBSET Keys] /\ work \in [Requests -> [Keys -> Int]]
  BY <1>0 DEF MovementsTypeOK
<1>4. held' \in [Requests -> SUBSET Keys]
  BY <1>1, <1>2, <1>3
<1>5. /\ work' \in [Requests -> [Keys -> Int]]
      /\ \A s \in Requests \ {r} : work'[s] = work[s]
      /\ k \notin present => work'[r][k] = 0
  <2>1. /\ [work EXCEPT ![r][k] = 0] \in [Requests -> [Keys -> Int]]
        /\ [work EXCEPT ![r][k] = 0] = [work EXCEPT ![r] = [work[r] EXCEPT ![k] = 0]]
    BY <1>1, <1>3, NestedExcept
  <2>2. QED  BY <1>1, <1>2, <1>3, <2>1
<1>6. MovementsTypeOK'
  <2>1. phase' \in [Requests -> {"new"} \union Running \union Ended]
    BY <1>0, <1>2 DEF MovementsTypeOK, Running
  <2>2. QED  BY <1>0, <1>2, <1>4, <1>5, <2>1 DEF MovementsTypeOK, committed
<1>7. phase'[r] = "lock"
  BY <1>0, <1>2 DEF MovementsTypeOK
<1>8. Shape(r)'
  BY <1>0, <1>2, <1>7 DEF Shape, Validated
<1>9. Locks(r)'
  <2>1. \/ held'[r] = {k} /\ k \notin present /\ work'[r][k] = 0
        \/ held'[r] = {} /\ k \in present
    BY <1>1, <1>2, <1>3, <1>5
  <2>2. QED  BY <1>2, <1>7, <1>k, <2>1 DEF Locks, Ended, committed, k
<1>10. Drafts(r)'
  <2>1. Recorded(r) = 0 /\ Recorded(r)' = 0
    BY <1>0, <1>7 DEF Recorded
  <2>2. /\ FirstKeys(r, 0)' = FirstKeys(r, 0)
        /\ \A j \in Keys \ FirstKeys(r, 0) : rows[r][j] = << >>
        /\ header[r] = FALSE
    BY <1>0, <1>2, <2>1, FirstKeysUnfold DEF Drafts, FirstKeys, LegKey
  <2>3. \A j \in Keys \ FirstKeys(r, Recorded(r))' : rows'[r][j] = << >>
    BY <1>2, <2>1, <2>2 DEF FirstKeys
  <2>4. ~\E i \in 1..Recorded(r)' : TRUE
    BY <2>1
  <2>5. QED  BY <1>2, <1>7, <2>2, <2>3, <2>4 DEF Drafts
<1>11. \A s \in Requests \ {r} : Untouched(s)
  BY <1>0, <1>2, <1>5 DEF Untouched, MovementsTypeOK
<1>12. \A s \in Requests \ {r} : held'[r] \cap held[s] = {}
  BY <1>1, <1>2, <1>3 DEF Free
<1>13. QED
  BY <1>0, <1>2, <1>6, <1>7, <1>8, <1>9, <1>10, <1>11, <1>12, LocalStep DEF committed

\* SELECT .. FOR UPDATE reads the balance that is committed, or its own row.
LEMMA LockRowStep ==
  ASSUME IInv, NEW r \in Requests, LockRow(r)
  PROVE  IInv'
<1> DEFINE k == Target(r)
           old == IF k \in held[r] THEN work[r][k] ELSE quantity[k]
<1>0. MovementsTypeOK /\ Shape(r) /\ Locks(r) /\ Drafts(r) /\ NoRowNoHistory
      /\ phase[r] = "lock" /\ Free(r, k)
  BY DEF IInv, LockRow
<1>1. k \in Keys /\ FirstKeys(r, at[r]) = {k} /\ held[r] \subseteq {k}
  BY <1>0, CountFacts DEF Locks
<1>2. /\ held' = [held EXCEPT ![r] = @ \union {k}]
      /\ before' = [before EXCEPT ![r] = old]
      /\ phase' = [phase EXCEPT ![r] = "set"]
      /\ UNCHANGED <<committed, policy, call, error, seen, at, work, rows, header>>
  BY DEF LockRow, Goto
<1>3. old = quantity[k] /\ old \in Int
  BY <1>0, <1>1 DEF Locks, NoRowNoHistory, MovementsTypeOK
<1>k. k' = k /\ FirstKeys(r, at[r])' = FirstKeys(r, at[r])
  BY <1>2 DEF Target, CurrentLeg, FirstKeys, LegKey
<1> HIDE DEF k, old
<1>4. held \in [Requests -> SUBSET Keys] /\ before \in [Requests -> Int]
  BY <1>0 DEF MovementsTypeOK
<1>5. held' \in [Requests -> SUBSET Keys] /\ held'[r] = {k}
  BY <1>1, <1>2, <1>4
<1>6. before' \in [Requests -> Int] /\ before'[r] = quantity[k]
  BY <1>2, <1>3, <1>4
<1>7. MovementsTypeOK'
  <2>1. phase' \in [Requests -> {"new"} \union Running \union Ended]
    BY <1>0, <1>2 DEF MovementsTypeOK, Running
  <2>2. QED  BY <1>0, <1>2, <1>5, <1>6, <2>1 DEF MovementsTypeOK, committed
<1>8. phase'[r] = "set"
  BY <1>0, <1>2 DEF MovementsTypeOK
<1>9. Shape(r)' /\ Locks(r)'
  BY <1>0, <1>1, <1>2, <1>5, <1>8, <1>k DEF Shape, Locks, Validated, Ended
<1>10. Drafts(r)'
  <2>1. Recorded(r) = 0 /\ Recorded(r)' = 0
    BY <1>0, <1>8 DEF Recorded
  <2>2. /\ FirstKeys(r, 0)' = FirstKeys(r, 0)
        /\ \A j \in Keys \ FirstKeys(r, 0) : rows[r][j] = << >>
        /\ header[r] = FALSE
    BY <1>0, <1>2, <2>1, FirstKeysUnfold DEF Drafts, FirstKeys, LegKey
  <2>3. before'[r] = quantity'[Target(r)']
    BY <1>2, <1>6, <1>k DEF committed, k
  <2>4. \A j \in Keys \ FirstKeys(r, Recorded(r))' : rows'[r][j] = << >>
    BY <1>2, <2>1, <2>2 DEF FirstKeys
  <2>5. ~\E i \in 1..Recorded(r)' : TRUE
    BY <2>1
  <2>6. QED  BY <1>2, <1>8, <2>2, <2>3, <2>4, <2>5 DEF Drafts
<1>11. \A s \in Requests \ {r} : Untouched(s)
  BY <1>0, <1>2 DEF Untouched, MovementsTypeOK
<1>12. \A s \in Requests \ {r} : held'[r] \cap held[s] = {}
  BY <1>0, <1>5 DEF Free, k
<1>13. QED
  BY <1>0, <1>2, <1>7, <1>8, <1>9, <1>10, <1>11, <1>12, LocalStep DEF committed

\* The count becomes the draft, and the difference its ledger row.
LEMMA SetCountedStep ==
  ASSUME IInv, NEW r \in Requests, SetCounted(r)
  PROVE  IInv'
<1> DEFINE k == Target(r)
           counted == call[r].quantity
           delta == counted - before[r]
<1>0. MovementsTypeOK /\ Shape(r) /\ Locks(r) /\ Drafts(r) /\ phase[r] = "set" /\ Free(r, k)
  BY DEF IInv, SetCounted
<1>1. /\ k \in Keys /\ k = LegKey(r, 1) /\ at[r] = 1 /\ FirstKeys(r, at[r]) = {k}
      /\ Recorded(r) = 0 /\ call[r] \in Calls /\ call[r].kind = "adjustment"
      /\ seen[r].track
  BY <1>0, CountFacts
<1>2. held[r] = {k} /\ before[r] = quantity[k]
  BY <1>0, <1>1 DEF Locks, Drafts
<1>3. /\ counted \in Int /\ counted >= 0 /\ quantity[k] \in Int
      /\ delta = counted - quantity[k] /\ delta \in Int
  BY <1>0, <1>1, <1>2, CallType DEF Shape, Validated, ValidNumbers, MovementsTypeOK
<1>4. /\ held' = [held EXCEPT ![r] = @ \union {k}]
      /\ UNCHANGED <<committed, policy, call, seen, before, header>>
  BY DEF SetCounted
<1>5. CASE Fail(r, "database") /\ UNCHANGED <<at, work, rows>>
  BY <1>0, <1>4, <1>5, FailStep DEF Errors, committed
<1>6. CASE /\ work' = [work EXCEPT ![r][k] = counted]
           /\ Record(r, "adjustment", delta, counted)
           /\ UNCHANGED error
  <2> DEFINE row == Row(r, "adjustment", delta, counted)
  <2>1. held' = held
    BY <1>0, <1>2, <1>4 DEF MovementsTypeOK
  <2>a. "adjustment" \in Types /\ held'[r] = FirstKeys(r, at[r])
    BY <1>1, <1>2, <2>1 DEF Types
  <2> HIDE DEF k, delta, counted
  <2> DEFINE type == "adjustment"
  <2>b. /\ phase[r] \in {"check", "set"}
        /\ type \in Types /\ delta \in Int /\ counted \in Int
        /\ Record(r, type, delta, counted)
        /\ call' = call /\ seen' = seen /\ held'[r] = FirstKeys(r, at[r])
    BY <1>0, <1>3, <1>4, <1>6, <2>a
  <2>c. MovementsTypeOK /\ Shape(r) /\ Locks(r) /\ Drafts(r)
    BY <1>0
  <2>d. phase \in [Requests -> {"new"} \union Running \union Ended]
    BY <1>0 DEF MovementsTypeOK
  <2> HIDE DEF type, row
  <2>2. /\ rows' \in [Requests -> [Keys -> Seq(RowType)]]
        /\ rows'[r] = [rows[r] EXCEPT ![Target(r)] = <<Row(r, type, delta, counted)>>]
        /\ at' \in [Requests -> {1, 2}]
        /\ phase'[r] \in {"upsert", "commit"}
        /\ phase' = [phase EXCEPT ![r] = phase'[r]]
        /\ \A s \in Requests \ {r} : rows'[s] = rows[s] /\ at'[s] = at[s]
        /\ Shape(r)' /\ Locks(r)'
        /\ Recorded(r) = IF phase[r] = "check" THEN at[r] - 1 ELSE 0
        /\ Recorded(r)' = at[r]
    BY <2>b, <2>c, RecordStep
  <2>3. /\ work' \in [Requests -> [Keys -> Int]]
        /\ \A s \in Requests \ {r} : work'[s] = work[s]
        /\ work'[r][k] = counted
    <3>1. work \in [Requests -> [Keys -> Int]]
      BY <1>0 DEF MovementsTypeOK
    <3>2. /\ [work EXCEPT ![r][k] = counted] \in [Requests -> [Keys -> Int]]
          /\ [work EXCEPT ![r][k] = counted] = [work EXCEPT ![r] = [work[r] EXCEPT ![k] = counted]]
      BY <1>1, <1>3, <3>1, NestedExcept
    <3>3. QED  BY <1>1, <1>6, <3>1, <3>2
  <2>4. MovementsTypeOK'
    <3>1. phase' \in [Requests -> {"new"} \union Running \union Ended]
      BY <2>2, <2>d DEF Running
    <3>2. UNCHANGED <<present, quantity, ledger, transfers, policy, call, error,
                      seen, before, held, header>>
      BY <1>4, <1>6, <2>1 DEF committed
    <3>3. QED  BY <1>0, <2>2, <2>3, <3>1, <3>2 DEF MovementsTypeOK
  <2>5. /\ \A i : LegKey(r, i)' = LegKey(r, i)
        /\ \A j : FirstKeys(r, j)' = FirstKeys(r, j)
        /\ quantity' = quantity
    BY <1>4 DEF LegKey, FirstKeys, committed
  <2>6. RecordedOK(r, 1)'
    <3>1. rows'[r][k] = <<row>>
      BY <1>0, <1>1, <2>2 DEF MovementsTypeOK, k, row, type
    <3>2. Legs(call[r])[1].type = "adjustment"
      BY <1>1, LegsOfOthers DEF Leg
    <3>3. /\ LegKey(r, 1)' = k /\ call' = call /\ seen' = seen
      BY <1>1, <1>4, <2>5
    <3>4. row = Row(r, Legs(call[r])[1].type, work'[r][k] - quantity'[k], work'[r][k])
      BY <1>3, <2>3, <2>5, <3>2 DEF row
    <3>5. Reports(row, Legs(call[r])[1], call[r])
      BY <1>1, <3>2 DEF Reports, Row, row, counted
    <3>6. ~(row.after < 0)
      BY <1>3 DEF Row, row
    <3>7. QED
      BY <1>1, <3>1, <3>3, <3>4, <3>5, <3>6 DEF RecordedOK, Reports
  <2>7. Drafts(r)'
    <3>1. \A i \in 1..at[r] : i = 1
      BY <1>1
    <3>2. \A j \in Keys \ FirstKeys(r, at[r]) : rows'[r][j] = << >>
      BY <1>0, <1>1, <2>2, FirstKeysUnfold DEF Drafts, MovementsTypeOK, k
    <3>3. header'[r] = (call[r].kind = "transfer")
      BY <1>0, <1>1, <1>4 DEF Drafts
    <3>4. QED  BY <1>4, <2>2, <2>5, <2>6, <3>1, <3>2, <3>3 DEF Drafts
  <2>8. \A s \in Requests \ {r} : Untouched(s)
    BY <1>0, <1>4, <1>6, <2>1, <2>2, <2>3 DEF Untouched, MovementsTypeOK
  <2>9. \A s \in Requests \ {r} : held'[r] \cap held[s] = {}
    BY <2>1 DEF IInv, Exclusive
  <2>10. phase[r] # "committed" /\ phase'[r] # "committed"
    BY <1>0, <2>2
  <2>11. QED
    BY <1>4, <2>2, <2>4, <2>7, <2>8, <2>9, <2>10, LocalStep DEF committed
<1>7. QED  BY <1>5, <1>6 DEF SetCounted, CountedDelta

\* A transaction that ends, by rollback or by a lost connection, without
\* having committed anything.
LEMMA DiscardStep ==
  ASSUME IInv, NEW r \in Requests, phase[r] \in Running,
         phase' = [phase EXCEPT ![r] = "failed"],
         error' \in [Requests -> Errors],
         \A s \in Requests \ {r} : error'[s] = error[s],
         Discard(r), UNCHANGED <<committed, policy, call, seen, at, before>>
  PROVE  IInv'
<1>0. MovementsTypeOK /\ Shape(r)
  BY DEF IInv
<1>1. /\ held' = [held EXCEPT ![r] = {}]
      /\ work' = [work EXCEPT ![r] = [k \in Keys |-> 0]]
      /\ rows' = [rows EXCEPT ![r] = NoRows]
      /\ header' = [header EXCEPT ![r] = FALSE]
  BY DEF Discard
<1>2. NoRows \in [Keys -> Seq(RowType)]
  BY DEF NoRows
<1>3. MovementsTypeOK'
  BY <1>0, <1>1, <1>2 DEF MovementsTypeOK, committed, Ended
<1>4. /\ phase'[r] = "failed" /\ held'[r] = {} /\ header'[r] = FALSE
      /\ \A k \in Keys : rows'[r][k] = << >>
  BY <1>0, <1>1 DEF MovementsTypeOK, NoRows
<1>5. Shape(r)' /\ Locks(r)'
  BY <1>0, <1>4 DEF Shape, Locks, Validated, Ended
<1>6. Drafts(r)'
  <2>1. Recorded(r)' = 0
    BY <1>4 DEF Recorded
  <2>2. ~\E i \in 1..Recorded(r)' : TRUE
    BY <2>1
  <2>3. QED  BY <1>4, <2>2 DEF Drafts
<1>7. \A s \in Requests \ {r} : Untouched(s)
  BY <1>0, <1>1 DEF Untouched, MovementsTypeOK
<1>8. phase[r] # "committed" /\ phase'[r] # "committed"
  BY <1>4 DEF Running
<1>9. QED  BY <1>3, <1>4, <1>5, <1>6, <1>7, <1>8, LocalStep DEF committed

\* A rollback gives everything up.
LEMMA RollbackStep ==
  ASSUME IInv, NEW r \in Requests, Rollback(r)
  PROVE  IInv'
<1>1. error \in [Requests -> Errors]
  BY DEF IInv, MovementsTypeOK
<1>2. QED  BY <1>1, DiscardStep DEF Rollback, Goto, Running, committed

\* So does a lost connection.
LEMMA DisconnectStep ==
  ASSUME IInv, NEW r \in Requests, Disconnect(r)
  PROVE  IInv'
<1>1. error \in [Requests -> Errors] /\ "connection" \in Errors
  BY DEF IInv, MovementsTypeOK, Errors
<1>2. error' \in [Requests -> Errors] /\ \A s \in Requests \ {r} : error'[s] = error[s]
  BY <1>1 DEF Disconnect
<1>3. QED  BY <1>2, DiscardStep DEF Disconnect, Goto, committed

-----------------------------------------------------------------------------
\* Steps of nobody's transaction

\* Whatever changes neither requests nor committed rows keeps the invariant.
LEMMA OutsideStep ==
  ASSUME IInv, UNCHANGED <<committed, progress, draft>>, MovementsTypeOK'
  PROVE  IInv'
<1>1. /\ UNCHANGED <<present, quantity, ledger, transfers>>
      /\ UNCHANGED <<call, phase, error, seen, at, before, held, work, rows, header>>
  BY DEF committed, progress, draft
<1>2. Exclusive' /\ NoRowNoHistory' /\ LedgerExplainsBalance' /\ NegativeOnlyByPolicy'
  BY <1>1 DEF IInv, Exclusive, NoRowNoHistory, LedgerExplainsBalance, LastAfter,
              NegativeOnlyByPolicy
<1>3. LegsAreWhole'
  BY <1>1 DEF IInv, LegsAreWhole, RowsBy, LegKey, Reports
<1>4. ASSUME NEW s \in Requests
      PROVE  Shape(s)' /\ Locks(s)' /\ Drafts(s)'
  BY <1>1, <1>4, Frame DEF IInv
<1>5. QED  BY <1>2, <1>3, <1>4 DEF IInv

\* A change of policy concerns only requests that have yet to read it.
LEMMA UpdatePolicyStep ==
  ASSUME IInv, NEW p \in Products, UpdatePolicy(p)
  PROVE  IInv'
<1>1. MovementsTypeOK'
  BY DEF IInv, MovementsTypeOK, UpdatePolicy, committed, progress, draft
<1>2. QED  BY <1>1, OutsideStep DEF UpdatePolicy

-----------------------------------------------------------------------------
\* The commit

\* A sequence with one more row.
LEMMA AppendRow ==
  ASSUME NEW s \in Seq(RowType), NEW row \in RowType
  PROVE  /\ s \o <<row>> \in Seq(RowType)
         /\ Len(s \o <<row>>) = Len(s) + 1
         /\ DOMAIN (s \o <<row>>) = DOMAIN s \union {Len(s) + 1}
         /\ Len(s) \in Nat /\ DOMAIN s = 1..Len(s)
         /\ \A i \in DOMAIN s : (s \o <<row>>)[i] = s[i]
         /\ (s \o <<row>>)[Len(s) + 1] = row
<1>1. s \o <<row>> \in Seq(RowType) /\ Len(s \o <<row>>) = Len(s) + 1
  OBVIOUS
<1>2. Len(s) \in Nat /\ DOMAIN s = 1..Len(s)
  OBVIOUS
<1>3. DOMAIN (s \o <<row>>) = 1..(Len(s) + 1)
  BY <1>1
<1>4. 1..(Len(s) + 1) = (1..Len(s)) \union {Len(s) + 1}
  BY <1>2
<1>5. \A i \in DOMAIN s : (s \o <<row>>)[i] = s[i]
  OBVIOUS
<1>6. (s \o <<row>>)[Len(s) + 1] = row
  OBVIOUS
<1>7. QED  BY <1>1, <1>2, <1>3, <1>4, <1>5, <1>6

\* The row that a commit appends to the ledger of key k.
Booked(r, k) == rows[r][k][1]

\* What a request that is about to commit has done, key by key.
LEMMA DraftOfCommit ==
  ASSUME IInv, NEW r \in Requests, phase[r] = "commit"
  PROVE  /\ held[r] \subseteq Keys
         /\ \A i \in DOMAIN Legs(call[r]) : LegKey(r, i) \in held[r]
         /\ \A k \in held[r] : \E i \in DOMAIN Legs(call[r]) : k = LegKey(r, i)
         /\ \A i \in DOMAIN Legs(call[r]) :
              Reports(Booked(r, LegKey(r, i)), Legs(call[r])[i], call[r])
         /\ \A k \in Keys \ held[r] : rows[r][k] = << >>
         /\ \A k \in held[r] :
              /\ rows[r][k] = <<Booked(r, k)>>
              /\ Booked(r, k) \in RowType
              /\ Booked(r, k).by = r
              /\ Booked(r, k).after = work[r][k]
              /\ Booked(r, k).delta = work[r][k] - quantity[k]
              /\ seen[r].track
              /\ Booked(r, k).after < 0 => seen[r].negative
         /\ header[r] = (call[r].kind = "transfer")
<1>0. MovementsTypeOK /\ Shape(r) /\ Locks(r) /\ Drafts(r)
  BY DEF IInv
<1>n. PICK n : n = at[r]
  OBVIOUS
<1>1. /\ call[r] \in Calls /\ n = Len(Legs(call[r])) /\ Recorded(r) = n
      /\ held[r] = FirstKeys(r, n)
  BY <1>0, <1>n DEF MovementsTypeOK, Shape, Locks, Recorded
<1>2. DOMAIN Legs(call[r]) = 1..n
  BY <1>1, LegsType
<1>3. held[r] \subseteq Keys
  BY <1>0 DEF MovementsTypeOK
<1>4. \A i \in 1..n : RecordedOK(r, i)
  BY <1>0, <1>1 DEF Drafts
<1>5. \A i \in 1..n : LegKey(r, i) \in held[r]
  BY <1>1 DEF FirstKeys
<1>6. \A k \in held[r] : \E i \in 1..n : k = LegKey(r, i)
  BY <1>1 DEF FirstKeys
<1>7. ASSUME NEW i \in 1..n, NEW k \in Keys, k = LegKey(r, i)
      PROVE  /\ rows[r][k] = <<Booked(r, k)>>
             /\ Booked(r, k) \in RowType
             /\ Booked(r, k).by = r
             /\ Booked(r, k).after = work[r][k]
             /\ Booked(r, k).delta = work[r][k] - quantity[k]
             /\ seen[r].track
             /\ Booked(r, k).after < 0 => seen[r].negative
             /\ Reports(Booked(r, k), Legs(call[r])[i], call[r])
  <2> DEFINE row == Row(r, Legs(call[r])[i].type, work[r][k] - quantity[k], work[r][k])
  <2>1. /\ rows[r][k] = <<row>> /\ Reports(row, Legs(call[r])[i], call[r])
        /\ seen[r].track /\ (row.after < 0 => seen[r].negative)
    BY <1>4, <1>7 DEF RecordedOK
  <2>2. Booked(r, k) = row
    BY <2>1 DEF Booked
  <2>3. /\ row.by = r /\ row.after = work[r][k]
        /\ row.delta = work[r][k] - quantity[k]
    BY DEF Row
  <2> HIDE DEF row
  <2>4. row \in RowType
    <3>1. rows[r][k] \in Seq(RowType)
      BY <1>0 DEF MovementsTypeOK
    <3>2. \A x : <<x>> \in Seq(RowType) => x \in RowType
      OBVIOUS
    <3>3. QED  BY <2>1, <3>1, <3>2
  <2>5. QED  BY <2>1, <2>2, <2>3, <2>4
<1>8. \A k \in Keys \ held[r] : rows[r][k] = << >>
  BY <1>0, <1>1 DEF Drafts
<1>9. header[r] = (call[r].kind = "transfer")
  BY <1>0 DEF Drafts
<1>10. QED  BY <1>2, <1>3, <1>5, <1>6, <1>7, <1>8, <1>9

\* What a commit does to the ledger: one row more for each locked key.
LEMMA LedgerOfCommit ==
  ASSUME IInv, NEW r \in Requests, Commit(r)
  PROVE  /\ ledger' \in [Keys -> Seq(RowType)]
         /\ \A k \in Keys \ held[r] : ledger'[k] = ledger[k] /\ quantity'[k] = quantity[k]
         /\ \A k \in held[r] :
              /\ quantity'[k] = work[r][k]
              /\ Len(ledger'[k]) = Len(ledger[k]) + 1
              /\ Len(ledger[k]) \in Nat
              /\ DOMAIN ledger[k] = 1..Len(ledger[k])
              /\ DOMAIN ledger'[k] = DOMAIN ledger[k] \union {Len(ledger[k]) + 1}
              /\ \A i \in DOMAIN ledger[k] : ledger'[k][i] = ledger[k][i]
              /\ ledger'[k][Len(ledger[k]) + 1] = Booked(r, k)
<1>0. /\ MovementsTypeOK /\ phase[r] = "commit"
      /\ quantity' = [k \in Keys |-> IF k \in held[r] THEN work[r][k] ELSE quantity[k]]
      /\ ledger' = [k \in Keys |-> ledger[k] \o rows[r][k]]
  BY DEF IInv, Commit
<1>1. /\ held[r] \subseteq Keys
      /\ \A k \in Keys \ held[r] : rows[r][k] = << >>
      /\ \A k \in held[r] : rows[r][k] = <<Booked(r, k)>> /\ Booked(r, k) \in RowType
  BY <1>0, DraftOfCommit
<1>2. \A k \in Keys : ledger[k] \in Seq(RowType)
  BY <1>0 DEF MovementsTypeOK
<1>3. ASSUME NEW k \in Keys \ held[r]
      PROVE  ledger'[k] = ledger[k] /\ quantity'[k] = quantity[k]
  <2>1. ledger[k] \o << >> = ledger[k]
    BY <1>2
  <2>2. k \in Keys /\ k \notin held[r] /\ rows[r][k] = << >>
    BY <1>1
  <2>3. quantity'[k] = quantity[k] /\ ledger'[k] = ledger[k] \o rows[r][k]
    BY <1>0, <2>2
  <2>4. QED  BY <2>1, <2>2, <2>3
<1>4. ASSUME NEW k \in held[r]
      PROVE  /\ ledger'[k] = ledger[k] \o <<Booked(r, k)>>
             /\ quantity'[k] = work[r][k]
             /\ ledger[k] \in Seq(RowType) /\ Booked(r, k) \in RowType
  BY <1>0, <1>1, <1>2
<1>5. ledger' \in [Keys -> Seq(RowType)]
  <2>1. \A k \in Keys : ledger'[k] \in Seq(RowType)
    BY <1>2, <1>3, <1>4, AppendRow
  <2>2. QED  BY <1>0, <2>1
<1>6. ASSUME NEW k \in held[r]
      PROVE  /\ Len(ledger'[k]) = Len(ledger[k]) + 1
             /\ Len(ledger[k]) \in Nat
             /\ DOMAIN ledger[k] = 1..Len(ledger[k])
             /\ DOMAIN ledger'[k] = DOMAIN ledger[k] \union {Len(ledger[k]) + 1}
             /\ \A i \in DOMAIN ledger[k] : ledger'[k][i] = ledger[k][i]
             /\ ledger'[k][Len(ledger[k]) + 1] = Booked(r, k)
  <2> DEFINE s == ledger[k]
             row == Booked(r, k)
  <2>1. ledger'[k] = s \o <<row>> /\ s \in Seq(RowType) /\ row \in RowType
    BY <1>4
  <2> HIDE DEF s, row
  <2>2. /\ Len(s \o <<row>>) = Len(s) + 1
        /\ Len(s) \in Nat /\ DOMAIN s = 1..Len(s)
        /\ DOMAIN (s \o <<row>>) = DOMAIN s \union {Len(s) + 1}
        /\ \A i \in DOMAIN s : (s \o <<row>>)[i] = s[i]
        /\ (s \o <<row>>)[Len(s) + 1] = row
    BY <2>1, AppendRow
  <2>3. QED  BY <2>1, <2>2 DEF s, row
<1>7. QED  BY <1>3, <1>4, <1>5, <1>6

\* The committed draft extends each locked row's chain by its ledger row.
LEMMA CommitExplainsBalance ==
  ASSUME IInv, NEW r \in Requests, Commit(r)
  PROVE  LedgerExplainsBalance'
<1>0. MovementsTypeOK /\ phase[r] = "commit" /\ LedgerExplainsBalance
  BY DEF IInv, Commit
<1>1. ASSUME NEW k \in Keys
      PROVE  /\ quantity[k] = LastAfter(ledger[k])
             /\ \A i \in DOMAIN ledger[k] :
                  ledger[k][i].after - ledger[k][i].delta =
                    IF i = 1 THEN 0 ELSE ledger[k][i - 1].after
  BY <1>0 DEF LedgerExplainsBalance
<1>2. ASSUME NEW k \in Keys
      PROVE  /\ quantity'[k] = LastAfter(ledger'[k])
             /\ \A i \in DOMAIN ledger'[k] :
                  ledger'[k][i].after - ledger'[k][i].delta =
                    IF i = 1 THEN 0 ELSE ledger'[k][i - 1].after
  <2>1. CASE k \notin held[r]
    <3>1. ledger'[k] = ledger[k] /\ quantity'[k] = quantity[k]
      BY <2>1, LedgerOfCommit
    <3>2. QED  BY <1>1, <3>1
  <2>2. CASE k \in held[r]
    <3> DEFINE n == Len(ledger[k])
    <3>1. /\ quantity'[k] = work[r][k] /\ Len(ledger'[k]) = n + 1 /\ n \in Nat
          /\ DOMAIN ledger[k] = 1..n
          /\ DOMAIN ledger'[k] = DOMAIN ledger[k] \union {n + 1}
          /\ \A i \in DOMAIN ledger[k] : ledger'[k][i] = ledger[k][i]
          /\ ledger'[k][n + 1] = Booked(r, k)
      BY <2>2, LedgerOfCommit
    <3>2. /\ Booked(r, k).after = work[r][k]
          /\ Booked(r, k).delta = work[r][k] - quantity[k]
      BY <1>0, <2>2, DraftOfCommit
    <3>3. work[r][k] \in Int /\ quantity[k] \in Int
      BY <1>0 DEF MovementsTypeOK
    <3>4. quantity[k] = IF n = 0 THEN 0 ELSE ledger[k][n].after
      BY <1>1, <3>1 DEF LastAfter
    <3>5. ledger'[k] # << >>
      BY <3>1
    <3> HIDE DEF n
    <3>6. ASSUME NEW i \in DOMAIN ledger[k]
          PROVE  ledger'[k][i].after - ledger'[k][i].delta =
                   IF i = 1 THEN 0 ELSE ledger'[k][i - 1].after
      <4>1. i = 1 \/ i - 1 \in DOMAIN ledger[k]
        BY <3>1
      <4>2. QED  BY <1>1, <3>1, <4>1
    <3>7. ledger'[k][n + 1].after - ledger'[k][n + 1].delta =
            IF n + 1 = 1 THEN 0 ELSE ledger'[k][n + 1 - 1].after
      <4>1. ledger'[k][n + 1].after - ledger'[k][n + 1].delta = quantity[k]
        BY <3>1, <3>2, <3>3
      <4>2. CASE n = 0
        BY <3>4, <4>1, <4>2
      <4>3. CASE n # 0
        <5>1. n \in DOMAIN ledger[k] /\ n + 1 - 1 = n /\ n + 1 # 1
          BY <3>1, <4>3
        <5>2. QED  BY <3>1, <3>4, <4>1, <4>3, <5>1
      <4>4. QED  BY <4>2, <4>3
    <3>8. quantity'[k] = LastAfter(ledger'[k])
      BY <3>1, <3>2, <3>5 DEF LastAfter
    <3>9. QED  BY <3>1, <3>6, <3>7, <3>8
  <2>3. QED  BY <2>1, <2>2
<1>3. QED  BY <1>2 DEF LedgerExplainsBalance, LastAfter

\* A commit adds the rows of its own request and nobody else's.
LEMMA RowsOfCommit ==
  ASSUME IInv, NEW r \in Requests, Commit(r), NEW k \in Keys
  PROVE  /\ \A s \in Requests \ {r} : RowsBy(s, k)' = RowsBy(s, k)
         /\ RowsBy(r, k)' = IF k \in held[r] THEN {Len(ledger[k]) + 1} ELSE {}
<1>0. phase[r] = "commit" /\ LegsAreWhole
  BY DEF IInv, Commit
<1>1. RowsBy(r, k) = {}
  BY <1>0 DEF LegsAreWhole
<1>2. CASE k \notin held[r]
  <2>1. ledger'[k] = ledger[k]
    BY <1>2, LedgerOfCommit
  <2>2. QED  BY <1>1, <1>2, <2>1 DEF RowsBy
<1>3. CASE k \in held[r]
  <2> DEFINE n == Len(ledger[k])
  <2>1. /\ n \in Nat /\ DOMAIN ledger[k] = 1..n
        /\ DOMAIN ledger'[k] = DOMAIN ledger[k] \union {n + 1}
        /\ \A i \in DOMAIN ledger[k] : ledger'[k][i] = ledger[k][i]
        /\ ledger'[k][n + 1] = Booked(r, k)
    BY <1>3, LedgerOfCommit
  <2>2. Booked(r, k).by = r
    BY <1>0, <1>3, DraftOfCommit
  <2> HIDE DEF n
  <2>3. ASSUME NEW s \in Requests \ {r}
        PROVE  RowsBy(s, k)' = RowsBy(s, k)
    BY <2>1, <2>2 DEF RowsBy
  <2>4. RowsBy(r, k)' = {n + 1}
    BY <1>1, <2>1, <2>2 DEF RowsBy
  <2>5. QED  BY <1>3, <2>3, <2>4 DEF n
<1>4. QED  BY <1>2, <1>3

\* What LegsAreWhole says of one request.
Whole(s) ==
  /\ s \in transfers <=> phase[s] = "committed" /\ call[s].kind = "transfer"
  /\ phase[s] # "committed" => \A k \in Keys : RowsBy(s, k) = {}
  /\ phase[s] = "committed" =>
       /\ \A i \in DOMAIN Legs(call[s]) :
            \E n \in DOMAIN ledger[LegKey(s, i)] :
              /\ RowsBy(s, LegKey(s, i)) = {n}
              /\ Reports(ledger[LegKey(s, i)][n], Legs(call[s])[i], call[s])
       /\ \A k \in Keys : RowsBy(s, k) # {} =>
            \E i \in DOMAIN Legs(call[s]) : k = LegKey(s, i)

\* The commit shows all legs and the header of the request, and no other.
LEMMA CommitAllOrNothing ==
  ASSUME IInv, NEW r \in Requests, Commit(r)
  PROVE  LegsAreWhole'
<1>0. /\ MovementsTypeOK /\ phase[r] = "commit" /\ call' = call
      /\ phase' = [phase EXCEPT ![r] = "committed"]
      /\ transfers' = IF header[r] THEN transfers \union {r} ELSE transfers
      /\ \A s \in Requests : Whole(s) /\ Shape(s)
  BY DEF IInv, LegsAreWhole, Whole, Commit, Goto
<1>1. \A s, i : LegKey(s, i)' = LegKey(s, i)
  BY <1>0 DEF LegKey
<1>2. phase'[r] = "committed" /\ \A s \in Requests \ {r} : phase'[s] = phase[s]
  BY <1>0 DEF MovementsTypeOK
<1>3. ASSUME NEW s \in Requests \ {r}
      PROVE  Whole(s)'
  <2>1. s \in transfers' <=> phase'[s] = "committed" /\ call[s].kind = "transfer"
    BY <1>0, <1>2 DEF Whole
  <2>2. phase'[s] # "committed" => \A k \in Keys : RowsBy(s, k)' = {}
    BY <1>0, <1>2, RowsOfCommit DEF Whole
  <2>3. ASSUME phase[s] = "committed", NEW i \in DOMAIN Legs(call[s])
        PROVE  \E n \in DOMAIN ledger'[LegKey(s, i)] :
                 /\ RowsBy(s, LegKey(s, i))' = {n}
                 /\ Reports(ledger'[LegKey(s, i)][n], Legs(call[s])[i], call[s])
    <3>1. PICK k \in Keys : k = LegKey(s, i)
      BY <1>0, <2>3, LegKeys DEF Shape, Validated
    <3>2. PICK n \in DOMAIN ledger[k] :
            RowsBy(s, k) = {n} /\ Reports(ledger[k][n], Legs(call[s])[i], call[s])
      BY <1>0, <2>3, <3>1 DEF Whole
    <3>3. n \in DOMAIN ledger'[k] /\ ledger'[k][n] = ledger[k][n]
      BY LedgerOfCommit
    <3>4. RowsBy(s, k)' = {n}
      BY <3>2, RowsOfCommit
    <3>5. LegKey(s, i)' = k
      BY <1>1, <3>1
    <3>6. RowsBy(s, LegKey(s, i))' = {n}
      BY <1>0, <3>1, <3>4 DEF RowsBy, LegKey
    <3>7. QED  BY <3>1, <3>2, <3>3, <3>6
  <2>4. phase[s] = "committed" => \A k \in Keys : RowsBy(s, k)' # {} =>
          \E i \in DOMAIN Legs(call[s]) : k = LegKey(s, i)
    BY <1>0, RowsOfCommit DEF Whole
  <2>5. QED
    BY <1>0, <1>1, <1>2, <2>1, <2>2, <2>3, <2>4 DEF Whole, Reports, RowsBy
<1>4. Whole(r)'
  <2>1. header[r] = (call[r].kind = "transfer")
    BY <1>0, DraftOfCommit
  <2>2. r \in transfers' <=> call[r].kind = "transfer"
    BY <1>0, <2>1 DEF Whole
  <2>3. ASSUME NEW i \in DOMAIN Legs(call[r])
        PROVE  \E n \in DOMAIN ledger'[LegKey(r, i)] :
                 /\ RowsBy(r, LegKey(r, i))' = {n}
                 /\ Reports(ledger'[LegKey(r, i)][n], Legs(call[r])[i], call[r])
    <3>1. PICK k \in held[r] : k = LegKey(r, i) /\ k \in Keys
                               /\ Reports(Booked(r, k), Legs(call[r])[i], call[r])
      BY <1>0, DraftOfCommit
    <3>2. PICK n : n = Len(ledger[k]) + 1
      OBVIOUS
    <3>3. n \in DOMAIN ledger'[k] /\ ledger'[k][n] = Booked(r, k)
      BY <3>2, LedgerOfCommit
    <3>4. RowsBy(r, k)' = {n}
      BY <3>1, <3>2, RowsOfCommit
    <3>5. RowsBy(r, LegKey(r, i))' = {n}
      BY <1>0, <3>1, <3>4 DEF RowsBy, LegKey
    <3>6. QED  BY <3>1, <3>3, <3>5
  <2>4. ASSUME NEW k \in Keys, RowsBy(r, k)' # {}
        PROVE  \E i \in DOMAIN Legs(call[r]) : k = LegKey(r, i)
    <3>1. k \in held[r]
      BY <2>4, RowsOfCommit
    <3>2. QED  BY <1>0, <3>1, DraftOfCommit
  <2>5. QED
    BY <1>0, <1>1, <1>2, <2>2, <2>3, <2>4 DEF Whole, Reports, RowsBy
<1>5. QED  BY <1>3, <1>4 DEF LegsAreWhole, Whole

\* Each ledger row that the commit shows was checked against the policy read.
LEMMA CommitNegativeOnlyByPolicy ==
  ASSUME IInv, NEW r \in Requests, Commit(r)
  PROVE  NegativeOnlyByPolicy'
<1>0. phase[r] = "commit" /\ seen' = seen /\ NegativeOnlyByPolicy
  BY DEF IInv, Commit
<1>1. ASSUME NEW k \in Keys, NEW i \in DOMAIN ledger'[k], ledger'[k][i].by # Before
      PROVE  /\ seen[ledger'[k][i].by].track
             /\ ledger'[k][i].after < 0 => seen[ledger'[k][i].by].negative
  <2>1. CASE k \notin held[r]
    <3>1. ledger'[k] = ledger[k]
      BY <2>1, LedgerOfCommit
    <3>2. QED  BY <1>0, <1>1, <3>1 DEF NegativeOnlyByPolicy
  <2>2. CASE k \in held[r] /\ i \in DOMAIN ledger[k]
    <3>1. ledger'[k][i] = ledger[k][i]
      BY <2>2, LedgerOfCommit
    <3>2. QED  BY <1>0, <1>1, <2>2, <3>1 DEF NegativeOnlyByPolicy
  <2>3. CASE k \in held[r] /\ i \notin DOMAIN ledger[k]
    <3>1. ledger'[k][i] = Booked(r, k)
      BY <2>3, LedgerOfCommit
    <3>2. QED  BY <1>0, <2>3, <3>1, DraftOfCommit
  <2>4. QED  BY <2>1, <2>2, <2>3
<1>2. QED  BY <1>0, <1>1 DEF NegativeOnlyByPolicy

\* A commit keeps the invariant of all requests: no other one holds its rows.
LEMMA CommitStep ==
  ASSUME IInv, NEW r \in Requests, Commit(r)
  PROVE  IInv'
<1>0. MovementsTypeOK /\ phase[r] = "commit" /\ held[r] \subseteq Keys
  BY DEF IInv, Commit, MovementsTypeOK
<1>1. /\ present' = present \union held[r]
      /\ quantity' = [k \in Keys |-> IF k \in held[r] THEN work[r][k] ELSE quantity[k]]
      /\ transfers' = IF header[r] THEN transfers \union {r} ELSE transfers
      /\ phase' = [phase EXCEPT ![r] = "committed"]
      /\ held' = [held EXCEPT ![r] = {}]
      /\ work' = [work EXCEPT ![r] = [k \in Keys |-> 0]]
      /\ rows' = [rows EXCEPT ![r] = NoRows]
      /\ header' = [header EXCEPT ![r] = FALSE]
      /\ UNCHANGED <<policy, call, error, seen, at, before>>
  BY DEF Commit, Goto, Discard
<1>2. ledger' \in [Keys -> Seq(RowType)]
  BY LedgerOfCommit
<1>3. MovementsTypeOK'
  <2>1. NoRows \in [Keys -> Seq(RowType)]
    BY DEF NoRows
  <2>2. quantity' \in [Keys -> Int]
    BY <1>0, <1>1 DEF MovementsTypeOK
  <2>3. /\ present' \in SUBSET Keys /\ transfers' \in SUBSET Requests
        /\ phase' \in [Requests -> {"new"} \union Running \union Ended]
    BY <1>0, <1>1 DEF MovementsTypeOK, Ended
  <2>4. /\ held' \in [Requests -> SUBSET Keys]
        /\ work' \in [Requests -> [Keys -> Int]]
        /\ rows' \in [Requests -> [Keys -> Seq(RowType)]]
        /\ header' \in [Requests -> BOOLEAN]
    BY <1>0, <1>1, <2>1 DEF MovementsTypeOK
  <2>5. QED  BY <1>0, <1>1, <1>2, <2>2, <2>3, <2>4 DEF MovementsTypeOK
<1>4. Exclusive'
  BY <1>0, <1>1 DEF IInv, Exclusive, MovementsTypeOK
<1>5. ASSUME NEW s \in Requests \ {r}
      PROVE  Shape(s)' /\ Locks(s)' /\ Drafts(s)'
  <2>1. /\ phase'[s] = phase[s] /\ error'[s] = error[s] /\ seen'[s] = seen[s]
        /\ at'[s] = at[s] /\ before'[s] = before[s] /\ held'[s] = held[s]
        /\ work'[s] = work[s] /\ rows'[s] = rows[s] /\ header'[s] = header[s]
    BY <1>0, <1>1 DEF MovementsTypeOK
  <2>2. held[s] \cap held[r] = {} /\ held[s] \subseteq Keys
    BY <1>0 DEF IInv, Exclusive, MovementsTypeOK
  <2>3. \A k \in held[s] : quantity'[k] = quantity[k] /\ (k \in present' => k \in present)
    BY <1>1, <2>2
  <2>4. Shape(s) /\ Locks(s) /\ Drafts(s) /\ call' = call /\ present \subseteq present'
    BY <1>1 DEF IInv
  <2>5. QED  BY <1>0, <2>1, <2>3, <2>4, Frame
<1>6. Shape(r)' /\ Locks(r)' /\ Drafts(r)'
  <2>1. /\ phase'[r] = "committed" /\ held'[r] = {} /\ header'[r] = FALSE
        /\ \A k \in Keys : rows'[r][k] = << >>
        /\ call' = call /\ at' = at /\ Shape(r)
    BY <1>0, <1>1 DEF IInv, MovementsTypeOK, NoRows
  <2>2. Shape(r)' /\ Locks(r)'
    BY <1>0, <2>1 DEF Shape, Locks, Validated, Ended
  <2>3. ~\E i \in 1..Recorded(r)' : TRUE
    BY <2>1 DEF Recorded
  <2>4. Drafts(r)'
    BY <2>1, <2>3 DEF Drafts
  <2>5. QED  BY <2>2, <2>4
<1>7. NoRowNoHistory'
  BY <1>1, LedgerOfCommit DEF IInv, NoRowNoHistory
<1>8. QED
  BY <1>3, <1>4, <1>5, <1>6, <1>7, CommitExplainsBalance, CommitAllOrNothing,
     CommitNegativeOnlyByPolicy DEF IInv

-----------------------------------------------------------------------------
\* The invariant

\* The opening balances, and the stock-ins that explain them.
LEMMA OpeningFacts ==
  ASSUME NEW k \in Keys
  PROVE  /\ Opening[k] \in Nat
         /\ OpeningRows(k) \in Seq(RowType)
         /\ \/ Opening[k] = 0 /\ OpeningRows(k) = << >>
            \/ /\ Opening[k] # 0
               /\ OpeningRows(k) = <<Row(Before, "stock_in", Opening[k], Opening[k])>>
         /\ \A i \in DOMAIN OpeningRows(k) :
              /\ i = 1 /\ OpeningRows(k)[i].by = Before
              /\ OpeningRows(k)[i].after - OpeningRows(k)[i].delta = 0
         /\ LastAfter(OpeningRows(k)) = Opening[k]
<1>1. Opening[k] \in Nat
  BY MovementsAssumption
<1>2. CASE Opening[k] = 0
  BY <1>1, <1>2 DEF OpeningRows, LastAfter
<1>3. CASE Opening[k] # 0
  <2> DEFINE row == Row(Before, "stock_in", Opening[k], Opening[k])
  <2>1. /\ row \in RowType /\ row.by = Before
        /\ row.after = Opening[k] /\ row.delta = Opening[k]
    BY <1>1 DEF Row, RowType, Types
  <2>2. OpeningRows(k) = <<row>>
    BY <1>3 DEF OpeningRows
  <2> HIDE DEF row
  <2>3. /\ <<row>> \in Seq(RowType) /\ Len(<<row>>) = 1 /\ <<row>> # << >>
        /\ \A i \in DOMAIN <<row>> : i = 1 /\ <<row>>[i] = row
    BY <2>1
  <2>4. LastAfter(OpeningRows(k)) = Opening[k]
    BY <2>1, <2>2, <2>3 DEF LastAfter
  <2>5. \A i \in DOMAIN OpeningRows(k) :
          /\ i = 1 /\ OpeningRows(k)[i].by = Before
          /\ OpeningRows(k)[i].after - OpeningRows(k)[i].delta = 0
    BY <1>1, <2>1, <2>2, <2>3
  <2>6. QED  BY <1>1, <1>3, <2>2, <2>3, <2>4, <2>5 DEF row
<1>4. QED  BY <1>1, <1>2, <1>3

\* The invariant holds in the beginning.
LEMMA InitIInv == Init => IInv
<1> SUFFICES ASSUME Init PROVE IInv
  OBVIOUS
<1>1. MovementsTypeOK
  <2>1. ledger \in [Keys -> Seq(RowType)] /\ quantity \in [Keys -> Int]
    <3>1. \A k \in Keys : Opening[k] \in Int /\ OpeningRows(k) \in Seq(RowType)
      BY OpeningFacts
    <3>2. quantity \in [Keys -> Int]
      BY <3>1, MovementsAssumption DEF Init
    <3>3. QED  BY <3>1, <3>2 DEF Init
  <2>2. (CHOOSE p \in Policies : TRUE) \in Policies
    BY StockLedgerAssumption
  <2>3. seen \in [Requests -> Policies]
    BY <2>2 DEF Init
  <2>4. NoRows \in [Keys -> Seq(RowType)]
    BY DEF NoRows
  <2>5. rows \in [Requests -> [Keys -> Seq(RowType)]]
    BY <2>4 DEF Init
  <2>6. QED  BY <2>1, <2>3, <2>5 DEF Init, MovementsTypeOK, Errors
<1>2. Exclusive
  BY DEF Init, Exclusive
<1>3. ASSUME NEW r \in Requests
      PROVE  Shape(r) /\ Locks(r) /\ Drafts(r)
  <2>1. /\ phase[r] = "new" /\ held[r] = {} /\ header[r] = FALSE /\ at[r] = 1
        /\ call[r] \in Calls /\ \A k \in Keys : rows[r][k] = << >>
    BY DEF Init, NoRows
  <2>2. 1 \in DOMAIN Legs(call[r])
    BY <2>1, LegsType
  <2>3. Shape(r) /\ Locks(r)
    BY <2>1, <2>2 DEF Shape, Locks, Validated, Ended
  <2>4. ~\E i \in 1..Recorded(r) : TRUE
    BY <2>1 DEF Recorded
  <2>5. Drafts(r)
    BY <2>1, <2>4 DEF Drafts
  <2>6. QED  BY <2>3, <2>5
<1>4. NoRowNoHistory
  BY OpeningFacts DEF Init, NoRowNoHistory
<1>5. LedgerExplainsBalance
  BY OpeningFacts DEF Init, LedgerExplainsBalance
<1>6. LegsAreWhole
  <2>1. ASSUME NEW r \in Requests, NEW k \in Keys
        PROVE  RowsBy(r, k) = {}
    BY OpeningFacts, MovementsAssumption DEF RowsBy, Init
  <2>2. \A r \in Requests : phase[r] = "new" /\ r \notin transfers
    BY DEF Init
  <2>3. QED  BY <2>1, <2>2 DEF LegsAreWhole
<1>7. NegativeOnlyByPolicy
  BY OpeningFacts DEF Init, NegativeOnlyByPolicy
<1>8. QED  BY <1>1, <1>2, <1>3, <1>4, <1>5, <1>6, <1>7 DEF IInv

\* Every step keeps the invariant.
LEMMA NextIInv == IInv /\ [Next]_vars => IInv'
<1> SUFFICES ASSUME IInv, [Next]_vars PROVE IInv'
  OBVIOUS
<1>1. ASSUME NEW r \in Requests, Step(r)
      PROVE  IInv'
  BY <1>1, RejectStep, OpenStep, UpsertStep, CheckStep, EnsureRowStep, LockRowStep,
     SetCountedStep, CommitStep, RollbackStep DEF Step
<1>2. ASSUME NEW r \in Requests, Disconnect(r)
      PROVE  IInv'
  BY <1>2, DisconnectStep
<1>3. ASSUME NEW p \in Products, UpdatePolicy(p)
      PROVE  IInv'
  BY <1>3, UpdatePolicyStep
<1>4. ASSUME UNCHANGED vars
      PROVE  IInv'
  <2>1. UNCHANGED <<committed, progress, draft>> /\ UNCHANGED policy
    BY <1>4 DEF vars
  <2>2. MovementsTypeOK'
    BY <2>1 DEF IInv, MovementsTypeOK, committed, progress, draft
  <2>3. QED  BY <2>1, <2>2, OutsideStep
<1>5. QED  BY <1>1, <1>2, <1>3, <1>4 DEF Next, Rest

\* The inductive invariant holds of every reachable state: what a request in
\* flight knows of the rows it has locked is still true of the database.
THEOREM Invariance == Spec => []IInv
BY InitIInv, NextIInv, PTL DEF Spec

\* Of what a request has booked, the audit log is told in the same transaction.
LEMMA StepAudited ==
  ASSUME Audited, NEW r \in Requests, Step(r) \/ Disconnect(r)
  PROVE  Audited'
<1>1. ASSUME UNCHANGED <<rows, entries, ledger, audit>>
      PROVE  Audited'
  BY <1>1 DEF Audited
<1>2. CASE Reject(r) \/ Open(r) \/ Upsert(r) \/ EnsureRow(r) \/ LockRow(r)
  BY <1>1, <1>2 DEF Reject, Open, Upsert, EnsureRow, LockRow, committed, draft
<1>3. ASSUME NEW type, NEW delta, NEW after, Record(r, type, delta, after),
             UNCHANGED committed
      PROVE  Audited'
  BY <1>3 DEF Audited, Record, committed
<1>4. CASE Check(r)
  BY <1>1, <1>3, <1>4 DEF Check, committed
<1>5. CASE SetCounted(r)
  BY <1>1, <1>3, <1>5 DEF SetCounted, committed
<1>6. CASE Commit(r)
  BY <1>6 DEF Audited, Commit, Discard
<1>7. CASE Rollback(r) \/ Disconnect(r)
  BY <1>7 DEF Audited, Rollback, Disconnect, Discard, committed
<1>8. QED  BY <1>2, <1>4, <1>5, <1>6, <1>7 DEF Step

\* The audit log tells of the ledger's rows, and of no others.
LEMMA AuditFollows == Spec => []Audited
<1>1. Init => Audited
  BY DEF Init, Audited
<1>2. Audited /\ [Next]_vars => Audited'
  <2> SUFFICES ASSUME Audited, [Next]_vars PROVE Audited'
    OBVIOUS
  <2>1. CASE UNCHANGED <<committed, draft>>
    BY <2>1 DEF Audited, committed, draft
  <2>2. CASE \E p \in Products : UpdatePolicy(p)
    BY <2>1, <2>2 DEF UpdatePolicy
  <2>3. CASE Rest \/ UNCHANGED vars
    BY <2>1, <2>3 DEF Rest, vars
  <2>4. QED  BY <2>2, <2>3, StepAudited DEF Next
<1>3. QED  BY <1>1, <1>2, PTL DEF Spec

\* Every column and every local variable keeps its type, whatever requests,
\* warehouses, variants and calls there are.
THEOREM TypeCorrect == Spec => []TypeOK
<1>1. IInv /\ Audited => TypeOK
  BY DEF IInv, Audited, TypeOK, MovementsTypeOK
<1>2. QED  BY <1>1, Invariance, AuditFollows, PTL

\* No lost update: the relative upsert and the counted set, under the row
\* lock, keep every ledger a chain of balances that ends in the stock level.
THEOREM NoLostUpdate == Spec => []LedgerExplainsBalance
<1>1. IInv => LedgerExplainsBalance
  BY DEF IInv
<1>2. QED  BY <1>1, Invariance, PTL

\* The session dependency's commit or rollback makes every request all or
\* nothing, transfers with their two legs and their header included.
THEOREM Atomicity == Spec => []AllOrNothing
<1>1. IInv /\ Audited => AllOrNothing
  BY DEF IInv, Audited, AllOrNothing
<1>2. QED  BY <1>1, Invariance, AuditFollows, PTL

\* _check_policy after the upsert, under the row lock, is enough: concurrent
\* movements cannot together oversell what each of them could not alone.
THEOREM NoOversell == Spec => []NegativeOnlyByPolicy
<1>1. IInv => NegativeOnlyByPolicy
  BY DEF IInv
<1>2. QED  BY <1>1, Invariance, PTL

\* A movement is refused for insufficient stock on the strength of the
\* committed balance, which its row lock keeps from changing.
THEOREM RefusalIsCurrent == Spec => []InsufficientIsCurrent
<1>1. IInv => InsufficientIsCurrent
  BY DEF IInv, Drafts, InsufficientIsCurrent
<1>2. QED  BY <1>1, Invariance, PTL

-----------------------------------------------------------------------------
(* Deadlocks.  No set of requests can wait for each other's row locks: a   *)
(* request that waits and is waited for holds a smaller warehouse than the *)
(* one it waits for, and there are finitely many warehouses.               *)

\* A request that waits has a target, in an existing warehouse.
LEMMA WaiterFacts ==
  ASSUME IInv, NEW r \in Requests, NEW s \in Requests, WaitsFor(r, s)
  PROVE  /\ phase[r] \in {"upsert", "ensure", "lock", "set"}
         /\ CurrentLeg(r).warehouse \in Warehouses
<1>1. phase[r] \in {"upsert", "ensure", "lock", "set"}
  BY DEF WaitsFor
<1>2. Target(r) \in Keys
  BY <1>1, TargetFacts DEF IInv, Validated
<1>3. QED  BY <1>1, <1>2 DEF Target, Keys

\* A request that waits for a waiting one waits for a smaller warehouse.
LEMMA WaitChainAscends ==
  ASSUME IInv, NEW r \in Requests, NEW s \in Requests, NEW t \in Requests,
         WaitsFor(r, s), WaitsFor(s, t)
  PROVE  CurrentLeg(r).warehouse < CurrentLeg(s).warehouse
<1>0. MovementsTypeOK /\ Shape(s) /\ Locks(s) /\ Exclusive
  BY DEF IInv
<1>1. Target(r) \in held[s] /\ Target(s) \in held[t] /\ s # t
  BY DEF WaitsFor
<1>2. Target(s) \notin held[s]
  BY <1>0, <1>1 DEF Exclusive
<1>3. phase[s] \in {"upsert", "ensure", "lock", "set"}
  BY WaiterFacts
<1>4. phase[s] = "upsert"
  <2>1. CASE phase[s] \in {"ensure", "lock"}
    BY <1>0, <1>1, <1>2, <2>1 DEF Locks
  <2>2. CASE phase[s] = "set"
    BY <1>0, <1>2, <2>2, CountFacts DEF Locks
  <2>3. QED  BY <1>3, <2>1, <2>2
<1>5. /\ call[s] \in Calls /\ ValidNumbers(call[s]) /\ KnownIds(call[s])
      /\ at[s] \in {1, 2} /\ at[s] \in DOMAIN Legs(call[s])
      /\ held[s] = FirstKeys(s, at[s] - 1)
  BY <1>0, <1>4 DEF MovementsTypeOK, Shape, Locks, Validated
<1>6. at[s] = 2 /\ held[s] = {LegKey(s, 1)}
  BY <1>1, <1>5, FirstKeysUnfold
<1>7. call[s].kind = "transfer"
  BY <1>5, <1>6, LegsType
<1>8. Legs(call[s])[1].warehouse < Legs(call[s])[2].warehouse
  BY <1>5, <1>7, LegsKnown
<1>9. Target(r) = LegKey(s, 1)
  BY <1>1, <1>6
<1>10. /\ CurrentLeg(r).warehouse = Legs(call[s])[1].warehouse
       /\ CurrentLeg(s).warehouse = Legs(call[s])[2].warehouse
  BY <1>6, <1>9 DEF Target, LegKey, CurrentLeg
<1>11. QED  BY <1>8, <1>10

\* A cycle of waiting requests would have no greatest warehouse.
LEMMA IInvNoLockCycle == IInv => NoLockCycle
<1> SUFFICES ASSUME IInv, NEW S \in (SUBSET Requests) \ {{}},
                    \A r \in S : \E s \in S : WaitsFor(r, s)
             PROVE  FALSE
  BY DEF NoLockCycle
<1> DEFINE T == {CurrentLeg(r).warehouse : r \in S}
<1>1. T \subseteq Warehouses /\ T # {}
  BY WaiterFacts
<1>2. T \in SUBSET Nat /\ IsFiniteSet(T)
  <2> HIDE DEF T
  <2>1. IsFiniteSet(T)
    BY <1>1, FS_Subset, StockLedgerAssumption
  <2>2. QED  BY <1>1, <2>1, MovementsAssumption
<1>3. PICK m \in T : \A n \in T : n <= m
  <2> HIDE DEF T
  <2>1. QED  BY <1>1, <1>2, Greatest
<1>4. PICK r \in S : CurrentLeg(r).warehouse = m
  OBVIOUS
<1>5. PICK s \in S : WaitsFor(r, s)
  OBVIOUS
<1>6. PICK t \in S : WaitsFor(s, t)
  OBVIOUS
<1>7. CurrentLeg(r).warehouse < CurrentLeg(s).warehouse
  BY <1>5, <1>6, WaitChainAscends
<1>8. CurrentLeg(s).warehouse \in T
  OBVIOUS
<1>9. m \in Nat /\ CurrentLeg(s).warehouse \in Nat /\ CurrentLeg(s).warehouse <= m
  BY <1>2, <1>3, <1>8
<1>10. QED  BY <1>4, <1>7, <1>9

\* The canonical order in which transfer takes its row locks, and the single
\* lock of the other movements, leave no circle of waiting transactions, for
\* any number of concurrent requests and of warehouses.
THEOREM DeadlockFree == Spec => []NoLockCycle
BY IInvNoLockCycle, Invariance, PTL

-----------------------------------------------------------------------------
\* The stock book
\*
\* The inventory service implements the abstract stock book: seen through its
\* commits alone, every request takes effect at most once and in one step.
\* The only step of the service that the book notices is a commit; what the
\* commit does to the book is known from the inductive invariant.  A book that
\* changes in no other way conserves stock, so the service does.

\* The instance has its own copies of the operators of Movements.
LEMMA SameMovements ==
  /\ Book!Keys = Keys
  /\ \A c : Book!Legs(c) = Legs(c)
  /\ \A c : Book!ValidNumbers(c) <=> ValidNumbers(c)
  /\ \A c : Book!KnownIds(c) <=> KnownIds(c)
  /\ \A by, type, delta, after : Book!Row(by, type, delta, after) = Row(by, type, delta, after)
  /\ \A k : Book!OpeningRows(k) = OpeningRows(k)
<1>1. Book!Keys = Keys
  BY DEF Book!Keys, Keys
<1>2. \A by, type, delta, after : Book!Row(by, type, delta, after) = Row(by, type, delta, after)
  BY DEF Book!Row, Row
<1>3. \A k : Book!OpeningRows(k) = OpeningRows(k)
  BY <1>2 DEF Book!OpeningRows, OpeningRows, Book!Before, Before
<1>4. \A c : Book!Legs(c) = Legs(c)
  BY DEF Book!Legs, Legs, Book!Leg, Leg, Book!TransferOut, TransferOut,
         Book!TransferIn, TransferIn
<1>5. \A c : Book!ValidNumbers(c) <=> ValidNumbers(c)
  BY DEF Book!ValidNumbers, ValidNumbers
<1>6. \A c : Book!KnownIds(c) <=> KnownIds(c)
  BY DEF Book!KnownIds, KnownIds
<1>7. QED  BY <1>1, <1>2, <1>3, <1>4, <1>5, <1>6

Posted == {r \in Requests : phase[r] = "committed"}

\* Initial states are initial states of the stock book.
LEMMA InitBook == Init => Book!Init
<1> SUFFICES ASSUME Init PROVE Book!Init
  OBVIOUS
<1>1. Posted = {}
  BY DEF Init, Posted
<1>2. QED  BY <1>1, SameMovements DEF Init, Book!Init, Posted

\* A step that is not a commit changes nothing that the book shows.
LEMMA QuietStep ==
  ASSUME IInv, [Next]_vars, \A r \in Requests : ~Commit(r)
  PROVE  UNCHANGED Book!vars
<1>1. ASSUME NEW r \in Requests, Step(r) \/ Disconnect(r)
      PROVE  /\ UNCHANGED committed
             /\ \E p \in Running \union {"failed"} : phase' = [phase EXCEPT ![r] = p]
             /\ phase[r] # "committed"
  <2>1. CASE Reject(r)
    BY <2>1 DEF Reject, Fail, Goto, Running
  <2>2. CASE Open(r)
    BY <2>2 DEF Open, Fail, Goto, Running
  <2>3. CASE Upsert(r)
    BY <2>3 DEF Upsert, Fail, Goto, Running
  <2>4. CASE Check(r)
    BY <2>4 DEF Check, Record, Fail, Goto, Running
  <2>5. CASE EnsureRow(r)
    BY <2>5 DEF EnsureRow, Goto, Running
  <2>6. CASE LockRow(r)
    BY <2>6 DEF LockRow, Goto, Running
  <2>7. CASE SetCounted(r)
    BY <2>7 DEF SetCounted, Record, Fail, Goto, Running
  <2>8. CASE Rollback(r)
    BY <2>8 DEF Rollback, Goto
  <2>9. CASE Disconnect(r)
    BY <2>9 DEF Disconnect, Goto, Running
  <2>10. QED
    BY <1>1, <2>1, <2>2, <2>3, <2>4, <2>5, <2>6, <2>7, <2>8, <2>9 DEF Step
<1>2. UNCHANGED committed /\ Posted' = Posted
  <2>1. CASE \E r \in Requests : Step(r) \/ Disconnect(r)
    <3>1. PICK r \in Requests : Step(r) \/ Disconnect(r)
      BY <2>1
    <3>2. PICK p \in Running \union {"failed"} : phase' = [phase EXCEPT ![r] = p]
      BY <1>1, <3>1
    <3>3. p # "committed" /\ phase[r] # "committed" /\ UNCHANGED committed
      BY <1>1, <3>1 DEF Running
    <3>4. \A s \in Requests : phase'[s] = "committed" <=> phase[s] = "committed"
      BY <3>2, <3>3 DEF IInv, MovementsTypeOK
    <3>5. QED  BY <3>3, <3>4 DEF Posted
  <2>2. CASE \E p \in Products : UpdatePolicy(p)
    BY <2>2 DEF UpdatePolicy, progress, Posted
  <2>3. CASE UNCHANGED vars
    BY <2>3 DEF vars, progress, Posted
  <2>4. QED  BY <2>1, <2>2, <2>3 DEF Next, Rest
<1>3. QED  BY <1>2 DEF committed, Book!vars, Posted

\* What a commit of r does, leg by leg and elsewhere.
LEMMA CommitCall ==
  ASSUME IInv, NEW r \in Requests, Commit(r)
  PROVE  /\ call[r] \in Calls /\ ValidNumbers(call[r]) /\ KnownIds(call[r])
         /\ quantity \in [Keys -> Int] /\ quantity' \in [Keys -> Int]
         /\ ledger \in [Keys -> Seq(RowType)] /\ ledger' \in [Keys -> Seq(RowType)]
         /\ transfers' = IF call[r].kind = "transfer" THEN transfers \union {r} ELSE transfers
<1>0. /\ MovementsTypeOK /\ Shape(r) /\ phase[r] = "commit"
      /\ transfers' = IF header[r] THEN transfers \union {r} ELSE transfers
  BY DEF IInv, Commit
<1>1. call[r] \in Calls /\ ValidNumbers(call[r]) /\ KnownIds(call[r])
  BY <1>0 DEF MovementsTypeOK, Shape, Validated
<1>2. /\ quantity \in [Keys -> Int] /\ quantity' \in [Keys -> Int]
      /\ ledger \in [Keys -> Seq(RowType)] /\ ledger' \in [Keys -> Seq(RowType)]
  BY CommitStep DEF IInv, MovementsTypeOK
<1>3. header[r] = (call[r].kind = "transfer")
  BY <1>0, DraftOfCommit
<1>4. QED  BY <1>0, <1>1, <1>2, <1>3

\* A commit leaves the rows that are not of its legs as they are.
LEMMA CommitElsewhere ==
  ASSUME IInv, NEW r \in Requests, Commit(r),
         NEW k \in Keys, \A i \in DOMAIN Legs(call[r]) : k # LegKey(r, i)
  PROVE  quantity'[k] = quantity[k] /\ ledger'[k] = ledger[k]
<1>1. k \notin held[r]
  BY DraftOfCommit DEF Commit
<1>2. QED  BY <1>1, LedgerOfCommit

\* A commit changes the row of each leg as the leg says, with its ledger row.
LEMMA CommitLeg ==
  ASSUME IInv, NEW r \in Requests, Commit(r), NEW i \in DOMAIN Legs(call[r]),
         NEW k, k = LegKey(r, i), NEW leg, leg = Legs(call[r])[i]
  PROVE  /\ k \in Keys
         /\ ledger'[k] = Append(ledger[k],
              Row(r, leg.type, quantity'[k] - quantity[k], quantity'[k]))
         /\ IF call[r].kind = "adjustment"
            THEN quantity'[k] = call[r].quantity
            ELSE quantity'[k] = quantity[k] + leg.delta
<1>0. /\ phase[r] = "commit" /\ ledger' = [j \in Keys |-> ledger[j] \o rows[r][j]]
  BY DEF Commit
<1> DEFINE row == Booked(r, k)
<1>1. k \in held[r] /\ k \in Keys
  BY <1>0, DraftOfCommit
<1>2. /\ rows[r][k] = <<row>> /\ row \in RowType /\ row.by = r
      /\ row.after = work[r][k] /\ row.delta = work[r][k] - quantity[k]
      /\ Reports(row, leg, call[r])
  BY <1>0, <1>1, DraftOfCommit
<1> HIDE DEF row
<1>3. quantity'[k] = work[r][k]
  BY <1>1, LedgerOfCommit
<1>4. /\ quantity'[k] \in Int /\ quantity[k] \in Int /\ leg.delta \in Int
      /\ call[r].quantity \in Int
  BY <1>1, CommitCall, LegFields, CallType
<1>5. row = Row(r, leg.type, quantity'[k] - quantity[k], quantity'[k])
  BY <1>2, <1>3 DEF RowType, Row, Reports
<1>6. ledger'[k] = Append(ledger[k], row)
  <2>1. ledger'[k] = ledger[k] \o <<row>> /\ ledger[k] \in Seq(RowType)
    BY <1>0, <1>1, <1>2, CommitCall
  <2>2. QED  BY <1>2, <2>1
<1>7. IF call[r].kind = "adjustment" THEN quantity'[k] = call[r].quantity
      ELSE quantity'[k] = quantity[k] + leg.delta
  BY <1>2, <1>3, <1>4 DEF Reports
<1>8. QED  BY <1>1, <1>5, <1>6, <1>7

\* The commit of a stock-in or stock-out is its posting in the book.
LEMMA CommitDelta ==
  ASSUME IInv, NEW r \in Requests, Commit(r),
         NEW c \in Calls, c = call[r], c.kind \in {"stock_in", "stock_out"}
  PROVE  Book!PostDelta(r, c)
<1> DEFINE k == <<c.warehouse, c.variant>>
           delta == Legs(c)[1].delta
<1>1. c \in Calls /\ DOMAIN Legs(c) = {1} /\ Legs(c)[1].type = c.kind /\ LegKey(r, 1) = k
  BY CommitCall, LegsType, LegsOfOthers DEF Leg, LegKey
<1>2. /\ k \in Keys /\ quantity[k] \in Int /\ quantity'[k] = quantity[k] + delta
      /\ delta \in Int
      /\ ledger'[k] = Append(ledger[k], Row(r, c.kind, quantity'[k] - quantity[k], quantity'[k]))
  <2>1. PICK leg : leg = Legs(c)[1]
    OBVIOUS
  <2>2. leg.delta \in Int /\ leg.type = c.kind /\ 1 \in DOMAIN Legs(c) /\ k = LegKey(r, 1)
    BY <1>1, <2>1, LegFields
  <2> HIDE DEF k
  <2>3. /\ k \in Keys /\ quantity'[k] = quantity[k] + leg.delta
        /\ ledger'[k] = Append(ledger[k], Row(r, leg.type, quantity'[k] - quantity[k], quantity'[k]))
    BY <2>1, <2>2, CommitLeg
  <2>4. QED  BY <2>1, <2>2, <2>3, CommitCall
<1>3. \A j \in Keys : j # k => quantity'[j] = quantity[j] /\ ledger'[j] = ledger[j]
  BY <1>1, CommitElsewhere
<1> DEFINE row == Row(r, c.kind, delta, quantity[k] + delta)
<1>4. ledger'[k] = Append(ledger[k], row)
  <2>1. quantity'[k] - quantity[k] = delta
    BY <1>2
  <2>2. QED  BY <1>2, <2>1
<1>5. row.after = quantity[k] + delta
  BY DEF Row
<1> HIDE DEF row, delta, k
<1>6. /\ quantity' = [quantity EXCEPT ![k] = row.after]
      /\ ledger' = [ledger EXCEPT ![k] = Append(@, row)]
  BY <1>2, <1>3, <1>4, <1>5, CommitCall
<1>7. transfers' = transfers
  BY CommitCall
<1>8. QED
  BY <1>6, <1>7, SameMovements DEF Book!PostDelta, Book!Enter, row, k, delta

\* So is the commit of an adjustment,
LEMMA CommitCount ==
  ASSUME IInv, NEW r \in Requests, Commit(r),
         NEW c \in Calls, c = call[r], c.kind = "adjustment"
  PROVE  Book!PostCount(r, c)
<1> DEFINE k == <<c.warehouse, c.variant>>
<1>1. c \in Calls /\ DOMAIN Legs(c) = {1} /\ Legs(c)[1].type = c.kind /\ LegKey(r, 1) = k
  BY CommitCall, LegsType, LegsOfOthers DEF Leg, LegKey
<1>2. /\ k \in Keys /\ quantity'[k] = c.quantity
      /\ ledger'[k] = Append(ledger[k], Row(r, c.kind, quantity'[k] - quantity[k], quantity'[k]))
  BY <1>1, CommitLeg
<1>3. \A j \in Keys : j # k => quantity'[j] = quantity[j] /\ ledger'[j] = ledger[j]
  BY <1>1, CommitElsewhere
<1> DEFINE row == Row(r, "adjustment", c.quantity - quantity[k], c.quantity)
<1>4. ledger'[k] = Append(ledger[k], row)
  BY <1>2
<1>5. row.after = c.quantity
  BY DEF Row
<1> HIDE DEF row, k
<1>6. /\ quantity' = [quantity EXCEPT ![k] = row.after]
      /\ ledger' = [ledger EXCEPT ![k] = Append(@, row)]
  BY <1>2, <1>3, <1>4, <1>5, CommitCall
<1>7. transfers' = transfers
  BY CommitCall
<1>8. QED
  BY <1>6, <1>7, SameMovements DEF Book!PostCount, Book!Enter, row, k

\* and the commit of a transfer, both of its legs at once.
LEMMA CommitTransfer ==
  ASSUME IInv, NEW r \in Requests, Commit(r),
         NEW c \in Calls, c = call[r], c.kind = "transfer"
  PROVE  Book!PostTransfer(r, c)
<1> DEFINE source == <<c.warehouse, c.variant>>
           target == <<c.to, c.variant>>
<1>1. /\ c \in Calls /\ c.quantity \in Int /\ DOMAIN Legs(c) = {1, 2}
      /\ c.warehouse # c.to
  BY CommitCall, LegsType, CallType DEF ValidNumbers
<1>2. PICK i \in {1, 2}, j \in {1, 2} :
        i # j /\ Legs(c)[i] = TransferOut(c) /\ Legs(c)[j] = TransferIn(c)
  BY <1>1, LegsOfTransfer
<1>3. /\ LegKey(r, i) = source /\ LegKey(r, j) = target
      /\ Legs(c)[i].type = "transfer_out" /\ Legs(c)[i].delta = -c.quantity
      /\ Legs(c)[j].type = "transfer_in" /\ Legs(c)[j].delta = c.quantity
  BY <1>2 DEF LegKey, TransferOut, TransferIn, Leg
<1>4. /\ source \in Keys /\ quantity[source] \in Int
      /\ quantity'[source] = quantity[source] + (-c.quantity)
      /\ ledger'[source] = Append(ledger[source],
           Row(r, "transfer_out", quantity'[source] - quantity[source], quantity'[source]))
  <2>1. PICK leg : leg = Legs(c)[i]
    OBVIOUS
  <2>2. /\ leg.type = "transfer_out" /\ leg.delta = -c.quantity
        /\ i \in DOMAIN Legs(call[r]) /\ source = LegKey(r, i)
    BY <1>1, <1>3, <2>1
  <2> HIDE DEF source
  <2>3. /\ source \in Keys /\ quantity'[source] = quantity[source] + leg.delta
        /\ ledger'[source] = Append(ledger[source],
             Row(r, leg.type, quantity'[source] - quantity[source], quantity'[source]))
    BY <2>1, <2>2, CommitLeg
  <2>4. QED  BY <2>2, <2>3, CommitCall
<1>5. /\ target \in Keys /\ quantity[target] \in Int
      /\ quantity'[target] = quantity[target] + c.quantity
      /\ ledger'[target] = Append(ledger[target],
           Row(r, "transfer_in", quantity'[target] - quantity[target], quantity'[target]))
  <2>1. PICK leg : leg = Legs(c)[j]
    OBVIOUS
  <2>2. /\ leg.type = "transfer_in" /\ leg.delta = c.quantity
        /\ j \in DOMAIN Legs(call[r]) /\ target = LegKey(r, j)
    BY <1>1, <1>3, <2>1
  <2> HIDE DEF target
  <2>3. /\ target \in Keys /\ quantity'[target] = quantity[target] + leg.delta
        /\ ledger'[target] = Append(ledger[target],
             Row(r, leg.type, quantity'[target] - quantity[target], quantity'[target]))
    BY <2>1, <2>2, CommitLeg
  <2>4. QED  BY <2>2, <2>3, CommitCall
<1>6. \A k \in Keys : k # source /\ k # target =>
        quantity'[k] = quantity[k] /\ ledger'[k] = ledger[k]
  BY <1>1, <1>2, <1>3, CommitElsewhere
<1>7. source # target
  BY <1>1
<1>8. /\ ledger'[source] = Append(ledger[source],
           Row(r, "transfer_out", -c.quantity, quantity[source] - c.quantity))
      /\ ledger'[target] = Append(ledger[target],
           Row(r, "transfer_in", c.quantity, quantity[target] + c.quantity))
      /\ quantity'[source] = quantity[source] - c.quantity
  <2>1. /\ quantity'[source] - quantity[source] = -c.quantity
        /\ quantity'[source] = quantity[source] - c.quantity
        /\ quantity'[target] - quantity[target] = c.quantity
    BY <1>1, <1>4, <1>5
  <2>2. QED  BY <1>4, <1>5, <2>1
<1> DEFINE outRow == Row(r, "transfer_out", -c.quantity, quantity[source] - c.quantity)
           inRow == Row(r, "transfer_in", c.quantity, quantity[target] + c.quantity)
<1>9. transfers' = transfers \union {r}
  BY CommitCall
<1>10. ledger'[source] = Append(ledger[source], outRow)
       /\ ledger'[target] = Append(ledger[target], inRow)
  BY <1>8
<1> HIDE DEF source, target, outRow, inRow
<1>11. quantity' = [quantity EXCEPT ![source] = @ - c.quantity, ![target] = @ + c.quantity]
  BY <1>4, <1>5, <1>6, <1>7, <1>8, CommitCall
<1>12. ledger' = [ledger EXCEPT ![source] = Append(@, outRow), ![target] = Append(@, inRow)]
  BY <1>4, <1>5, <1>6, <1>7, <1>10, CommitCall
<1>13. QED
  BY <1>9, <1>11, <1>12, SameMovements
  DEF Book!PostTransfer, source, target, outRow, inRow

\* A commit is a step of the book.
LEMMA CommitPosts ==
  ASSUME IInv, NEW r \in Requests, Commit(r)
  PROVE  Book!Next
<1>1. PICK c \in Calls : c = call[r] /\ ValidNumbers(c) /\ KnownIds(c)
  BY CommitCall
<1>2. phase[r] = "commit" /\ phase' = [phase EXCEPT ![r] = "committed"]
  BY DEF Commit, Goto
<1>3. r \notin Posted /\ Posted' = Posted \union {r}
  BY <1>2 DEF Posted, IInv, MovementsTypeOK
<1>4. Book!PostDelta(r, c) \/ Book!PostCount(r, c) \/ Book!PostTransfer(r, c)
  BY <1>1, CallType, CommitDelta, CommitCount, CommitTransfer DEF Kinds
<1>5. Book!Post(r, c)
  BY <1>1, <1>3, <1>4, SameMovements DEF Book!Post, Posted
<1>6. QED  BY <1>5 DEF Book!Next

\* Every behaviour of the service, with its locks, policy checks, rollbacks
\* and lost connections, is a behaviour of the stock book: get_db_session's
\* commit is the one moment at which a movement happens, and it happens whole.
THEOREM Refinement == Spec => BookSpec
<1>1. Init => Book!Init
  BY InitBook
<1>2. IInv /\ [Next]_vars => [Book!Next]_(Book!vars)
  BY QuietStep, CommitPosts
<1>3. QED  BY <1>1, <1>2, Invariance, PTL DEF Spec, BookSpec, Book!Spec

-----------------------------------------------------------------------------
(* The conservation of stock.                                              *)

OfTransfers == {"transfer_out", "transfer_in"}

\* What the rows of a ledger that are not of transfers add up to.
Net(l) == SumFunctionOnSet([i \in DOMAIN l |-> l[i].delta],
                           {i \in DOMAIN l : l[i].type \notin OfTransfers})

\* A row of a transfer leaves it, any other row adds its delta.
LEMMA NetOfAppend ==
  ASSUME NEW l \in Seq(RowType), NEW row \in RowType
  PROVE  /\ Net(l) \in Int
         /\ Net(Append(l, row)) = Net(l) + IF row.type \in OfTransfers THEN 0 ELSE row.delta
<1> DEFINE m == Append(l, row)
           n == Len(l) + 1
           f == [i \in DOMAIN l |-> l[i].delta]
           g == [i \in DOMAIN m |-> m[i].delta]
           I == {i \in DOMAIN l : l[i].type \notin OfTransfers}
           J == {i \in DOMAIN m : m[i].type \notin OfTransfers}
<1>1. /\ n \in Nat /\ n \notin DOMAIN l /\ DOMAIN m = DOMAIN l \union {n}
      /\ \A i \in DOMAIN l : m[i] = l[i]
      /\ m[n] = row
  <2>1. m = l \o <<row>>
    OBVIOUS
  <2> HIDE DEF m
  <2>2. QED  BY <2>1, AppendRow
<1>2. IsFiniteSet(I)
  <2>1. IsFiniteSet(DOMAIN l)
    BY FS_Interval
  <2>2. QED  BY <2>1, FS_Subset
<1>3. \A i \in DOMAIN l : l[i].delta \in Int
  <2>1. \A i \in DOMAIN l : l[i] \in RowType
    OBVIOUS
  <2>2. QED  BY <2>1 DEF RowType
<1>4. row.delta \in Int
  BY DEF RowType
<1> HIDE DEF m, n
<1>5. \A i \in I : f[i] \in Int /\ g[i] = f[i]
  BY <1>1, <1>3
<1>6. g[n] = row.delta
  BY <1>1
<1>7. SumFunctionOnSet(f, I) \in Int /\ SumFunctionOnSet(g, I) = SumFunctionOnSet(f, I)
  <2> HIDE DEF f, g, I
  <2>1. QED  BY <1>2, <1>5, SumType, SumSame
<1>8. CASE row.type \in OfTransfers
  <2>1. J = I
    BY <1>1, <1>8
  <2> HIDE DEF f, g, I, J
  <2>2. SumFunctionOnSet(g, J) = SumFunctionOnSet(f, I)
    BY <1>7, <2>1
  <2>3. Net(l) = SumFunctionOnSet(f, I) /\ Net(m) = SumFunctionOnSet(g, J)
    BY DEF Net, f, g, I, J
  <2>4. QED  BY <1>7, <1>8, <2>2, <2>3 DEF m
<1>9. CASE row.type \notin OfTransfers
  <2>1. J = I \union {n} /\ n \in J /\ J \ {n} = I
    BY <1>1, <1>9
  <2>2. IsFiniteSet(J) /\ \A i \in J : g[i] \in Int
    <3>1. IsFiniteSet(I \union {n})
      BY <1>2, FS_AddElement
    <3>2. QED  BY <2>1, <3>1, <1>4, <1>5, <1>6
  <2>3. SumFunctionOnSet(g, J) = g[n] + SumFunctionOnSet(g, I)
    <3> HIDE DEF f, g, I, J
    <3>1. QED  BY <2>1, <2>2, SumRemove
  <2>4. SumFunctionOnSet(g, J) = SumFunctionOnSet(f, I) + row.delta
    <3> HIDE DEF f, g, I, J
    <3>1. QED  BY <1>4, <1>6, <1>7, <2>3
  <2>5. QED  BY <1>7, <1>9, <2>4 DEF Net, m
<1>10. QED  BY <1>8, <1>9

\* The balances of a variant, and its net receipts, by warehouse.
Balances(q, v) == [w \in Warehouses |-> q[<<w, v>>]]
Receipts(l, v) == [w \in Warehouses |-> Net(l[<<w, v>>])]

Stock(q, v)    == SumFunctionOnSet(Balances(q, v), Warehouses)
Received(l, v) == SumFunctionOnSet(Receipts(l, v), Warehouses)

Balanced(q, l) == \A v \in Variants : Stock(q, v) = Received(l, v)

LEMMA Conserved ==
  /\ StockConserved <=> Balanced(quantity, ledger)
  /\ StockConserved' <=> Balanced(quantity', ledger')
<1>1. ASSUME NEW v
      PROVE  /\ TotalStock(v) = Stock(quantity, v)
             /\ TotalStock(v)' = Stock(quantity', v)
  BY DEF TotalStock, SumFunction, Stock, Balances
<1>2. ASSUME NEW v
      PROVE  /\ SumFunction([w \in Warehouses |-> NetReceived(<<w, v>>)]) = Received(ledger, v)
             /\ SumFunction([w \in Warehouses |-> NetReceived(<<w, v>>)])' = Received(ledger', v)
  BY DEF SumFunction, NetReceived, Received, Receipts, Net, OfTransfers
<1>3. QED  BY <1>1, <1>2 DEF StockConserved, Balanced

\* A balance that changes moves the stock of its variant by as much.
LEMMA StockMoves ==
  ASSUME NEW q \in [Keys -> Int], NEW p \in [Keys -> Int], NEW k \in Keys,
         NEW v \in Variants, \A j \in Keys \ {k} : p[j] = q[j]
  PROVE  /\ Stock(q, v) \in Int /\ Stock(p, v) \in Int
         /\ Stock(p, v) - Stock(q, v) = IF v = k[2] THEN p[k] - q[k] ELSE 0
<1>0. PICK a \in Warehouses, u \in Variants : k = <<a, u>>
  BY DEF Keys
<1> DEFINE Q == Balances(q, v)
           P == Balances(p, v)
<1>1. IsFiniteSet(Warehouses)
  BY StockLedgerAssumption
<1>2. \A w \in Warehouses : /\ Q[w] \in Int /\ P[w] \in Int
                            /\ Q[w] = q[<<w, v>>] /\ P[w] = p[<<w, v>>]
                            /\ w # a \/ v # u => P[w] = Q[w]
  BY <1>0 DEF Balances, Keys
<1> HIDE DEF Q, P
<1>3. SumFunctionOnSet(Q, Warehouses) \in Int /\ SumFunctionOnSet(P, Warehouses) \in Int
  BY <1>1, <1>2, SumType
<1>4. CASE v = u
  <2>0. /\ \A w \in Warehouses : Q[w] \in Int /\ P[w] \in Int
        /\ \A w \in Warehouses \ {a} : Q[w] = P[w]
    BY <1>2
  <2>1. SumFunctionOnSet(P, Warehouses) - SumFunctionOnSet(Q, Warehouses) = P[a] - Q[a]
    BY <1>1, <2>0, SumChange
  <2>2. QED  BY <1>0, <1>2, <1>3, <1>4, <2>1 DEF Stock, Q, P
<1>5. CASE v # u
  <2>1. SumFunctionOnSet(P, Warehouses) = SumFunctionOnSet(Q, Warehouses)
    BY <1>1, <1>2, <1>5, SumSame
  <2>2. QED  BY <1>0, <1>3, <1>5, <2>1 DEF Stock, Q, P
<1>6. QED  BY <1>4, <1>5

\* A row of a movement that is not a transfer is received.
LEMMA ReceivedMoves ==
  ASSUME NEW l \in [Keys -> Seq(RowType)], NEW m, NEW k \in Keys,
         NEW v \in Variants, NEW row \in RowType, m = [l EXCEPT ![k] = Append(@, row)]
  PROVE  /\ Received(l, v) \in Int /\ Received(m, v) \in Int
         /\ Received(m, v) - Received(l, v)
              = IF v = k[2] /\ row.type \notin OfTransfers THEN row.delta ELSE 0
<1>0. PICK a \in Warehouses, u \in Variants : k = <<a, u>>
  BY DEF Keys
<1> DEFINE R == Receipts(l, v)
           S == Receipts(m, v)
<1>1. IsFiniteSet(Warehouses) /\ row.delta \in Int
  BY StockLedgerAssumption DEF RowType
<1>2. m[k] = Append(l[k], row) /\ \A j \in Keys \ {k} : m[j] = l[j]
  OBVIOUS
<1>3. m \in [Keys -> Seq(RowType)]
  <2>1. Append(l[k], row) \in Seq(RowType)
    OBVIOUS
  <2>2. QED  BY <2>1
<1>4. \A j \in Keys : Net(l[j]) \in Int /\ Net(m[j]) \in Int
  BY <1>3, NetOfAppend
<1>5. Net(m[k]) - Net(l[k]) = IF row.type \in OfTransfers THEN 0 ELSE row.delta
  BY <1>1, <1>2, <1>4, NetOfAppend
<1>6. \A w \in Warehouses : /\ R[w] \in Int /\ S[w] \in Int
                            /\ R[w] = Net(l[<<w, v>>]) /\ S[w] = Net(m[<<w, v>>])
                            /\ w # a \/ v # u => S[w] = R[w]
  BY <1>0, <1>2, <1>4 DEF Receipts, Keys
<1> HIDE DEF R, S
<1>7. SumFunctionOnSet(R, Warehouses) \in Int /\ SumFunctionOnSet(S, Warehouses) \in Int
  BY <1>1, <1>6, SumType
<1>8. CASE v = u
  <2>0. /\ \A w \in Warehouses : R[w] \in Int /\ S[w] \in Int
        /\ \A w \in Warehouses \ {a} : R[w] = S[w]
    BY <1>6
  <2>1. SumFunctionOnSet(S, Warehouses) - SumFunctionOnSet(R, Warehouses) = S[a] - R[a]
    BY <1>1, <2>0, SumChange
  <2>2. S[a] - R[a] = IF row.type \in OfTransfers THEN 0 ELSE row.delta
    BY <1>0, <1>5, <1>6, <1>8
  <2>3. QED  BY <1>0, <1>7, <1>8, <2>1, <2>2 DEF Received, R, S
<1>9. CASE v # u
  <2>1. SumFunctionOnSet(S, Warehouses) = SumFunctionOnSet(R, Warehouses)
    BY <1>1, <1>6, <1>9, SumSame
  <2>2. QED  BY <1>0, <1>7, <1>9, <2>1 DEF Received, R, S
<1>10. QED  BY <1>8, <1>9

\* The opening balances were received.
LEMMA OpeningBalanced == Balanced(Opening, [k \in Keys |-> OpeningRows(k)])
<1> DEFINE l == [k \in Keys |-> OpeningRows(k)]
<1>1. Net(<< >>) = 0
  <2>1. {i \in DOMAIN << >> : << >>[i].type \notin OfTransfers} = {}
    OBVIOUS
  <2>2. QED  BY <2>1, SumEmpty DEF Net
<1>2. ASSUME NEW k \in Keys PROVE Net(OpeningRows(k)) = Opening[k]
  <2>1. CASE Opening[k] = 0
    BY <1>1, <2>1 DEF OpeningRows
  <2>2. CASE Opening[k] # 0
    <3> DEFINE row == Row(Before, "stock_in", Opening[k], Opening[k])
    <3>1. /\ row \in RowType /\ row.type \notin OfTransfers
          /\ row.delta = Opening[k] /\ Opening[k] \in Nat
      BY OpeningFacts DEF Row, RowType, Types, OfTransfers
    <3>2. OpeningRows(k) = <<row>> /\ << >> \in Seq(RowType)
      BY <2>2 DEF OpeningRows
    <3> HIDE DEF row
    <3>3. OpeningRows(k) = Append(<< >>, row)
      BY <3>2
    <3>4. Net(Append(<< >>, row)) = Net(<< >>) + row.delta
      BY <3>1, <3>2, NetOfAppend
    <3>5. QED  BY <1>1, <3>1, <3>3, <3>4
  <2>3. QED  BY <2>1, <2>2
<1>3. SUFFICES ASSUME NEW v \in Variants PROVE Stock(Opening, v) = Received(l, v)
  BY DEF Balanced
<1>4. \A w \in Warehouses : Balances(Opening, v)[w] = Receipts(l, v)[w]
  BY <1>2 DEF Balances, Receipts, Keys
<1>5. IsFiniteSet(Warehouses)
  BY StockLedgerAssumption
<1>6. QED  BY <1>4, <1>5, SumSame DEF Stock, Received

\* A movement that is not a transfer receives what it adds to the stock.
LEMMA EntryConserves ==
  ASSUME NEW k \in Keys, NEW row \in RowType,
         quantity \in [Keys -> Int], ledger \in [Keys -> Seq(RowType)],
         Balanced(quantity, ledger), Book!Enter(k, row),
         row.type \notin OfTransfers, row.delta = row.after - quantity[k]
  PROVE  Balanced(quantity', ledger')
<1> SUFFICES ASSUME NEW v \in Variants PROVE Stock(quantity', v) = Received(ledger', v)
  BY DEF Balanced
<1>1. /\ quantity' \in [Keys -> Int] /\ quantity'[k] = row.after
      /\ \A j \in Keys \ {k} : quantity'[j] = quantity[j]
  BY DEF Book!Enter, RowType
<1>2. ledger' = [ledger EXCEPT ![k] = Append(@, row)]
  BY DEF Book!Enter
<1>3. row.delta \in Int
  BY DEF RowType
<1>4. /\ Stock(quantity, v) \in Int /\ Stock(quantity', v) \in Int
      /\ Stock(quantity', v) - Stock(quantity, v)
           = IF v = k[2] THEN quantity'[k] - quantity[k] ELSE 0
  BY <1>1, StockMoves
<1>5. /\ Received(ledger, v) \in Int /\ Received(ledger', v) \in Int
      /\ Received(ledger', v) - Received(ledger, v)
           = IF v = k[2] /\ row.type \notin OfTransfers THEN row.delta ELSE 0
  BY <1>2, ReceivedMoves
<1>6. Stock(quantity, v) = Received(ledger, v)
  BY DEF Balanced
<1>7. quantity'[k] - quantity[k] = row.delta
  BY <1>1
<1>8. QED  BY <1>3, <1>4, <1>5, <1>6, <1>7

\* A transfer receives nothing, and gives to one key what it takes from the
\* other, of the same variant.
LEMMA TransferConserves ==
  ASSUME NEW j \in Keys, NEW k \in Keys, j # k, j[2] = k[2], NEW n \in Int,
         NEW outRow \in RowType, outRow.type \in OfTransfers,
         NEW inRow \in RowType, inRow.type \in OfTransfers,
         quantity \in [Keys -> Int], ledger \in [Keys -> Seq(RowType)],
         Balanced(quantity, ledger),
         quantity' = [quantity EXCEPT ![j] = @ - n, ![k] = @ + n],
         ledger' = [ledger EXCEPT ![j] = Append(@, outRow), ![k] = Append(@, inRow)]
  PROVE  Balanced(quantity', ledger')
<1> SUFFICES ASSUME NEW v \in Variants PROVE Stock(quantity', v) = Received(ledger', v)
  BY DEF Balanced
<1>1. PICK q : q = [quantity EXCEPT ![j] = @ - n]
  OBVIOUS
<1>2. PICK l : l = [ledger EXCEPT ![j] = Append(@, outRow)]
  OBVIOUS
<1>3. /\ q \in [Keys -> Int] /\ q[j] - quantity[j] = -n /\ q[k] = quantity[k]
      /\ \A i \in Keys \ {j} : q[i] = quantity[i]
  BY <1>1
<1>4. l \in [Keys -> Seq(RowType)]
  <2>1. Append(ledger[j], outRow) \in Seq(RowType)
    OBVIOUS
  <2>2. QED  BY <1>2, <2>1
<1>5. /\ quantity' \in [Keys -> Int] /\ quantity'[k] - q[k] = n
      /\ \A i \in Keys \ {k} : quantity'[i] = q[i]
  BY <1>1, <1>3
<1>6. ledger' = [l EXCEPT ![k] = Append(@, inRow)]
  BY <1>2
<1>7. /\ Stock(quantity, v) \in Int /\ Stock(q, v) \in Int
      /\ Stock(q, v) - Stock(quantity, v) = IF v = j[2] THEN q[j] - quantity[j] ELSE 0
  BY <1>3, StockMoves
<1>8. /\ Stock(quantity', v) \in Int
      /\ Stock(quantity', v) - Stock(q, v) = IF v = k[2] THEN quantity'[k] - q[k] ELSE 0
  <2>1. q \in [Keys -> Int]
    BY <1>3
  <2>2. quantity' \in [Keys -> Int] /\ \A i \in Keys \ {k} : quantity'[i] = q[i]
    BY <1>5
  <2>3. QED  BY ONLY <2>1, <2>2, StockMoves, k \in Keys, v \in Variants
<1>9. /\ Received(ledger, v) \in Int /\ Received(l, v) \in Int
      /\ Received(l, v) - Received(ledger, v) = 0
  BY <1>2, ReceivedMoves
<1>10. Received(ledger', v) \in Int /\ Received(ledger', v) - Received(l, v) = 0
  BY <1>4, <1>6, ReceivedMoves
<1>11. Stock(quantity, v) = Received(ledger, v)
  BY DEF Balanced
<1>12. /\ v = k[2] => Stock(q, v) - Stock(quantity, v) = -n /\ Stock(quantity', v) - Stock(q, v) = n
       /\ v # k[2] => Stock(q, v) - Stock(quantity, v) = 0 /\ Stock(quantity', v) - Stock(q, v) = 0
  BY <1>3, <1>5, <1>7, <1>8
<1>13. Stock(quantity', v) = Stock(quantity, v)
  BY ONLY <1>7, <1>8, <1>12, n \in Int
<1>14. QED  BY ONLY <1>9, <1>10, <1>11, <1>13

\* A commit conserves stock, whichever of the four movements it is of.
LEMMA CommitConserves ==
  ASSUME IInv, NEW r \in Requests, Commit(r), Balanced(quantity, ledger)
  PROVE  Balanced(quantity', ledger')
<1>1. PICK c \in Calls : c = call[r]
  BY CommitCall
<1>2. /\ ValidNumbers(c) /\ KnownIds(c) /\ c.quantity \in Int /\ c.kind \in Kinds
      /\ quantity \in [Keys -> Int] /\ ledger \in [Keys -> Seq(RowType)]
      /\ c.warehouse \in Warehouses /\ c.variant \in Variants
      /\ c.kind = "transfer" => c.to \in Warehouses /\ c.to # c.warehouse
      /\ r \in Requests \union {Before}
  BY <1>1, CommitCall, CallType DEF ValidNumbers, KnownIds
<1> DEFINE k == <<c.warehouse, c.variant>>
<1>3. k \in Keys /\ quantity[k] \in Int
  BY <1>2 DEF Keys
<1>4. CASE c.kind \in {"stock_in", "stock_out"}
  <2> DEFINE delta == Legs(c)[1].delta
             row == Row(r, c.kind, delta, quantity[k] + delta)
  <2>1. delta \in Int
    BY <1>1, <1>4, LegsOfOthers, LegFields DEF Leg
  <2>2. /\ row \in RowType /\ row.type \notin OfTransfers
        /\ row.delta = row.after - quantity[k]
    BY <1>2, <1>3, <1>4, <2>1 DEF Row, RowType, Types, OfTransfers
  <2>3. Book!Enter(k, row)
    BY <1>1, <1>4, CommitDelta, SameMovements DEF Book!PostDelta
  <2> HIDE DEF row, k
  <2>4. QED  BY <1>2, <1>3, <2>2, <2>3, EntryConserves
<1>5. CASE c.kind = "adjustment"
  <2> DEFINE row == Row(r, "adjustment", c.quantity - quantity[k], c.quantity)
  <2>2. /\ row \in RowType /\ row.type \notin OfTransfers
        /\ row.delta = row.after - quantity[k]
    BY <1>2, <1>3 DEF Row, RowType, Types, OfTransfers
  <2>3. Book!Enter(k, row)
    BY <1>1, <1>5, CommitCount, SameMovements DEF Book!PostCount
  <2> HIDE DEF row, k
  <2>4. QED  BY <1>2, <1>3, <2>2, <2>3, EntryConserves
<1>6. CASE c.kind = "transfer"
  <2> DEFINE j == <<c.to, c.variant>>
             outRow == Row(r, "transfer_out", -c.quantity, quantity[k] - c.quantity)
             inRow == Row(r, "transfer_in", c.quantity, quantity[j] + c.quantity)
  <2>1. /\ j \in Keys /\ quantity[j] \in Int /\ k # j /\ k[2] = j[2]
    BY <1>2, <1>6 DEF Keys
  <2>2. /\ outRow \in RowType /\ outRow.type \in OfTransfers
        /\ inRow \in RowType /\ inRow.type \in OfTransfers
    BY <1>2, <1>3, <2>1 DEF Row, RowType, Types, OfTransfers
  <2>3. /\ quantity' = [quantity EXCEPT ![k] = @ - c.quantity, ![j] = @ + c.quantity]
        /\ ledger' = [ledger EXCEPT ![k] = Append(@, outRow), ![j] = Append(@, inRow)]
    BY <1>1, <1>6, CommitTransfer, SameMovements DEF Book!PostTransfer
  <2> HIDE DEF outRow, inRow, j, k
  <2>4. QED  BY <1>2, <1>3, <2>1, <2>2, <2>3, TransferConserves
<1>7. QED  BY <1>2, <1>4, <1>5, <1>6 DEF Kinds

\* The stock of a variant in all warehouses is what was received, issued and
\* corrected: get_stock_level without a warehouse never sees half a transfer,
\* and _apply_delta, in flight, refused or repeated, makes no stock and loses
\* none, for any number of requests, warehouses and variants.
THEOREM StockIsConserved == Spec => []StockConserved
<1>1. Init => StockConserved
  <2>1. ASSUME Init PROVE Balanced(quantity, ledger)
    BY <2>1, OpeningBalanced DEF Init
  <2>2. QED  BY <2>1, Conserved
<1>2. IInv /\ StockConserved /\ [Next]_vars => StockConserved'
  <2> SUFFICES ASSUME IInv, Balanced(quantity, ledger), [Next]_vars
               PROVE  Balanced(quantity', ledger')
    BY Conserved
  <2>1. CASE \E r \in Requests : Commit(r)
    BY <2>1, CommitConserves
  <2>2. CASE \A r \in Requests : ~Commit(r)
    <3>1. quantity' = quantity /\ ledger' = ledger
      BY <2>2, QuietStep DEF Book!vars
    <3>2. QED  BY <3>1
  <2>3. QED  BY <2>1, <2>2
<1>3. QED  BY <1>1, <1>2, Invariance, PTL DEF Spec
=============================================================================
