------------------------- MODULE VersionedRowProofs -------------------------
(***************************************************************************)
(* Proofs about VersionedRow.  First for the rows that are only ever       *)
(* changed by updates with an expected version: companies, branches,       *)
(* categories, brands and variants; these theorems assume VersionedOnly.   *)
(* Then for rows with plain writes beside them, users and products: what   *)
(* holds of every kind of call.                                            *)
(***************************************************************************)
EXTENDS VersionedRow, SequenceTheorems, TLAPS

\* What a request knows of the row is either the row or strictly older.
Knows(r) ==
  /\ phase[r] # "new" => /\ known[r].version <= row.version
                         /\ known[r].version = row.version => known[r] = row
  /\ phase[r] = "apply" /\ ChangesName(r) /\ known[r].version = row.version
       => existing[r] = row.fields

\* What a request that was accepted and has not committed is about to commit.
Accepted(r) ==
  phase[r] = "commit" =>
    /\ known[r] = row
    /\ draft[r].version = row.version + 1
    /\ draft[r].fields = Merged(call[r].change, row.fields)
    /\ draft[r].name = NameOf(draft[r].fields)

\* How the flags of a request follow from its phase.
Progress(r) ==
  /\ phase[r] # "flush"
  /\ wrote[r] <=> phase[r] = "commit"
  /\ error[r] = "conflict" => phase[r] \in {"failing", "failed"}
  /\ \A i \in DOMAIN log : log[i].by = r => phase[r] = "committed"

OneWriter == \A r, s \in Requests : wrote[r] /\ wrote[s] => r = s

RowInv ==
  /\ TypeOK
  /\ OneWriter
  /\ \A r \in Requests : Knows(r) /\ Accepted(r) /\ Progress(r)
  /\ VersionCountsWrites
  /\ NameAgrees
  /\ ConflictIsReal
-----------------------------------------------------------------------------
\* A change sets some of the columns.
LEMMA ChangeDomain ==
  ASSUME NEW change \in Changes
  PROVE  \E D \in SUBSET Columns : change \in [D -> Values]
BY DEF Changes

\* A row with a change merged into it has all of its columns.
LEMMA MergedType ==
  ASSUME NEW change \in Changes, NEW old \in [Columns -> Values]
  PROVE  Merged(change, old) \in [Columns -> Values]
<1>1. PICK D \in SUBSET Columns : change \in [D -> Values]
  BY ChangeDomain
<1>2. \A c \in Columns : (IF c \in DOMAIN change THEN change[c] ELSE old[c]) \in Values
  BY <1>1
<1>3. DOMAIN old = Columns
  OBVIOUS
<1>4. QED
  BY <1>2, <1>3 DEF Merged

\* A composed name has the columns it is composed of.
LEMMA NameType ==
  ASSUME NEW fields \in [Columns -> Values]
  PROVE  NameOf(fields) \in [NameColumns -> Values]
BY VersionedRowAssumption DEF NameOf

\* An update that leaves size and color alone leaves the name as it is.
LEMMA NameKept ==
  ASSUME NEW change \in Changes, NEW old \in [Columns -> Values],
         DOMAIN change \cap NameColumns = {}
  PROVE  NameOf(Merged(change, old)) = NameOf(old)
<1>1. \A c \in NameColumns : c \in DOMAIN old /\ c \notin DOMAIN change
  BY VersionedRowAssumption
<1>2. \A c \in NameColumns : Merged(change, old)[c] = old[c]
  BY <1>1 DEF Merged
<1>3. QED
  BY <1>2 DEF NameOf

\* The invariant holds in the beginning.
LEMMA InitRowInv == Init => RowInv
<1> SUFFICES ASSUME Init PROVE RowInv
  OBVIOUS
<1> USE DEF Init
<1>1. InitialFields \in [Columns -> Values] /\ NameOf(InitialFields) \in [NameColumns -> Values]
  BY VersionedRowAssumption, NameType
<1>2. row \in RowType
  BY <1>1 DEF NewRow, RowType
<1>3. TypeOK
  BY <1>1, <1>2 DEF TypeOK
<1>4. VersionCountsWrites /\ NameAgrees
  BY DEF VersionCountsWrites, NameAgrees, NewRow
<1>5. QED
  BY <1>3, <1>4 DEF RowInv, OneWriter, Knows, Accepted, Progress, ConflictIsReal
-----------------------------------------------------------------------------
\* Type correctness, for every kind of call.
LEMMA TypeStep == TypeOK /\ [Next]_vars => TypeOK'
<1> SUFFICES ASSUME TypeOK, [Next]_vars PROVE TypeOK'
  OBVIOUS
<1> USE DEF TypeOK, Open, Ended, Goto
<1>0. ASSUME NEW r \in Requests
      PROVE  /\ call[r].change \in Changes
             /\ row.fields \in [Columns -> Values] /\ row.name \in [NameColumns -> Values]
             /\ row.version + 1 \in Nat \ {0} /\ known[r].version + 1 \in Nat \ {0}
  BY VersionedRowAssumption DEF RowType
<1>1. ASSUME NEW r \in Requests, Load(r) PROVE TypeOK'
  BY <1>1 DEF Load
<1>2. ASSUME NEW r \in Requests, Lookup(r) PROVE TypeOK'
  BY <1>2, <1>0 DEF Lookup
<1>3. ASSUME NEW r \in Requests, Apply(r) PROVE TypeOK'
  <2>1. Composed(r) \in [NameColumns -> Values]
    BY <1>0, MergedType, NameType DEF Composed
  <2>2. NewRow(row.version + 1, Merged(call[r].change, row.fields), Composed(r)) \in RowType
    BY <2>1, <1>0, MergedType DEF NewRow, RowType
  <2>3. QED
    BY <1>3, <2>2 DEF Apply, Write, Fail
<1>4. ASSUME NEW r \in Requests, Fetch(r) PROVE TypeOK'
  BY <1>4 DEF Fetch
<1>5. ASSUME NEW r \in Requests, Refuse(r) PROVE TypeOK'
  BY <1>5 DEF Refuse, Fail
<1>w. ASSUME NEW r \in Requests PROVE Written(r) \in Changes
  <2>1. PICK D \in SUBSET Columns : call[r].change \in [D -> Values]
    BY <1>0, ChangeDomain
  <2> DEFINE E == {d \in DOMAIN call[r].change : call[r].change[d] # known[r].fields[d]}
  <2>2. E \in SUBSET Columns /\ [c \in E |-> call[r].change[c]] \in [E -> Values]
    BY <2>1
  <2>3. [c \in E |-> call[r].change[c]] \in Changes
    BY <2>2 DEF Changes
  <2>4. QED
    BY <2>3, <1>0 DEF Written
<1>6. ASSUME NEW r \in Requests, Flush(r) PROVE TypeOK'
  <2>1. NewRow(known[r].version + 1, Merged(Written(r), row.fields), row.name) \in RowType
    BY <1>w, <1>0, MergedType DEF NewRow, RowType
  <2>2. QED
    BY <1>6, <2>1 DEF Flush, Write
<1>7. ASSUME NEW r \in Requests, Commit(r) PROVE TypeOK'
  <2>1. [by |-> r, written |-> Written(r)] \in [by : Requests, written : Changes]
    BY <1>w
  <2>2. Append(log, [by |-> r, written |-> Written(r)]) \in Seq([by : Requests, written : Changes])
    BY <2>1
  <2>3. row' \in RowType /\ log' \in Seq([by : Requests, written : Changes])
    BY <1>7, <2>2 DEF Commit
  <2>4. QED
    BY <1>7, <2>3 DEF Commit
<1>8. ASSUME NEW r \in Requests, Rollback(r) PROVE TypeOK'
  BY <1>8 DEF Rollback
<1>9. ASSUME NEW r \in Requests, Disconnect(r) PROVE TypeOK'
  BY <1>9 DEF Disconnect
<1>10. ASSUME UNCHANGED vars PROVE TypeOK'
  BY <1>10 DEF vars
<1>11. QED
  BY <1>1, <1>2, <1>3, <1>4, <1>5, <1>6, <1>7, <1>8, <1>9, <1>10 DEF Next, Rest
-----------------------------------------------------------------------------
\* One step of one request r, for the actions that leave the row alone: what
\* the other requests know is not touched.
LEMMA LocalStep ==
  ASSUME RowInv, TypeOK', NEW r \in Requests,
         row' = row, log' = log, call' = call,
         \A s \in Requests \ {r} :
           /\ phase'[s] = phase[s] /\ error'[s] = error[s] /\ known'[s] = known[s]
           /\ existing'[s] = existing[s] /\ draft'[s] = draft[s] /\ wrote'[s] = wrote[s],
         wrote'[r] => Free(r),
         Knows(r)', Accepted(r)', Progress(r)',
         error'[r] = "conflict" =>
           known'[r] = known[r] /\ (error[r] = "conflict" \/ known[r].version < row.version)
  PROVE  RowInv'
<1> USE DEF RowInv
<1>1. OneWriter'
  <2> SUFFICES ASSUME NEW a \in Requests, NEW b \in Requests, wrote'[a], wrote'[b], a # b
               PROVE  FALSE
    BY DEF OneWriter
  <2>1. CASE a = r
    BY <2>1 DEF Free
  <2>2. CASE b = r
    BY <2>2 DEF Free
  <2>3. CASE a # r /\ b # r
    BY <2>3 DEF OneWriter
  <2>4. QED
    BY <2>1, <2>2, <2>3
<1>2. \A s \in Requests : Knows(s)' /\ Accepted(s)' /\ Progress(s)'
  <2> SUFFICES ASSUME NEW s \in Requests, s # r
               PROVE  Knows(s)' /\ Accepted(s)' /\ Progress(s)'
    OBVIOUS
  <2>1. Knows(s) /\ Accepted(s) /\ Progress(s)
    OBVIOUS
  <2>2. Knows(s)'
    BY <2>1 DEF Knows, ChangesName
  <2>3. Accepted(s)'
    BY <2>1 DEF Accepted
  <2>4. Progress(s)'
    BY <2>1 DEF Progress
  <2>5. QED
    BY <2>2, <2>3, <2>4
<1>3. VersionCountsWrites' /\ NameAgrees'
  BY DEF VersionCountsWrites, NameAgrees
<1>4. ConflictIsReal'
  <2> SUFFICES ASSUME NEW s \in Requests, error'[s] = "conflict"
               PROVE  \E i \in DOMAIN log : log[i].by # s /\ i >= known'[s].version
    BY DEF ConflictIsReal
  <2>1. CASE error[s] = "conflict"
    <3>1. known'[s] = known[s]
      OBVIOUS
    <3>2. QED
      BY <2>1, <3>1 DEF ConflictIsReal
  <2>2. CASE error[s] # "conflict"
    <3>1. s = r /\ known'[r] = known[r] /\ known[r].version < row.version
      BY <2>2
    <3>2. known[r].version \in Nat \ {0} /\ Len(log) \in Nat /\ row.version = 1 + Len(log)
      BY DEF TypeOK, RowType, VersionCountsWrites
    <3>3. Len(log) \in DOMAIN log /\ Len(log) >= known'[r].version
      BY <3>1, <3>2 DEF TypeOK
    <3>4. log[Len(log)].by # r
      BY <3>1, <3>3 DEF Progress
    <3>5. QED
      BY <3>1, <3>3, <3>4
  <2>3. QED
    BY <2>1, <2>2
<1>5. QED
  BY <1>1, <1>2, <1>3, <1>4
-----------------------------------------------------------------------------
\* Every step of rows that are only changed by versioned updates.
LEMMA RowStep == VersionedOnly /\ RowInv /\ [Next]_vars => RowInv'
<1> SUFFICES ASSUME VersionedOnly, RowInv, [Next]_vars PROVE RowInv'
  OBVIOUS
<1>t. TypeOK /\ TypeOK'
  BY TypeStep DEF RowInv
<1>k. ASSUME NEW r \in Requests
      PROVE  /\ Knows(r) /\ Accepted(r) /\ Progress(r) /\ call[r].kind = "update"
             /\ call[r].change \in Changes
             /\ row.version \in Nat /\ known[r].version \in Nat
             /\ row.fields \in [Columns -> Values] /\ row.name = NameOf(row.fields)
  BY <1>t, VersionedRowAssumption DEF RowInv, VersionedOnly, TypeOK, RowType, NameAgrees
<1>1. ASSUME NEW r \in Requests, Load(r) PROVE RowInv'
  <2>1. phase[r] = "new" /\ phase'[r] \in {"unchanged", "lookup", "apply"}
    BY <1>1, <1>t DEF Load, Goto, TypeOK
  <2>2. known'[r] = row /\ row' = row /\ wrote' = wrote /\ error' = error /\ log' = log
    BY <1>1, <1>t DEF Load, TypeOK
  <2>3. phase'[r] = "apply" => ~ChangesName(r)'
    BY <1>1, <1>t DEF Load, Goto, TypeOK, ChangesName
  <2>4. Knows(r)'
    BY <2>1, <2>2, <2>3, <1>k DEF Knows
  <2>5. Accepted(r)'
    BY <2>1 DEF Accepted
  <2>6. Progress(r)' /\ error'[r] # "conflict" /\ ~wrote'[r]
    BY <2>1, <2>2, <1>k DEF Progress
  <2>7. QED
    BY <1>1, <1>t, <2>4, <2>5, <2>6, LocalStep DEF Load, Goto, TypeOK
<1>2. ASSUME NEW r \in Requests, Lookup(r) PROVE RowInv'
  <2>1. phase[r] = "lookup" /\ phase'[r] = "apply" /\ existing'[r] = row.fields
    BY <1>2, <1>t DEF Lookup, Goto, TypeOK
  <2>2. row' = row /\ known' = known /\ wrote' = wrote /\ error' = error /\ log' = log
    BY <1>2 DEF Lookup
  <2>3. Knows(r)' /\ Accepted(r)' /\ Progress(r)' /\ ~wrote'[r] /\ error'[r] # "conflict"
    BY <2>1, <2>2, <1>k DEF Knows, Accepted, Progress
  <2>4. QED
    BY <1>2, <1>t, <2>3, LocalStep DEF Lookup, Goto, TypeOK
<1>3. ASSUME NEW r \in Requests, Apply(r) PROVE RowInv'
  <2>1. phase[r] = "apply" /\ UNCHANGED <<row, log, call, known, existing>>
    BY <1>3 DEF Apply
  <2>2. CASE /\ Matches(r) /\ Free(r) /\ UNCHANGED error
             /\ Write(r, NewRow(row.version + 1, Merged(call[r].change, row.fields), Composed(r)))
    <3>1. known[r] = row /\ (ChangesName(r) => existing[r] = row.fields)
      BY <2>1, <2>2, <1>k DEF Knows, Matches
    <3>2. Composed(r) = NameOf(Merged(call[r].change, row.fields))
      BY <3>1, <1>k, NameKept DEF Composed, ChangesName
    <3>3. /\ phase'[r] = "commit" /\ wrote'[r]
          /\ draft'[r] = NewRow(row.version + 1, Merged(call[r].change, row.fields), Composed(r))
      BY <2>2, <1>t DEF Write, Goto, TypeOK
    <3>4. Accepted(r)'
      BY <2>1, <3>1, <3>2, <3>3 DEF Accepted, NewRow
    <3>5. Knows(r)' /\ Progress(r)' /\ error'[r] # "conflict"
      BY <2>1, <2>2, <3>1, <3>3, <1>k DEF Knows, Progress
    <3>6. QED
      BY <2>1, <2>2, <3>4, <3>5, <1>t, LocalStep DEF Write, Goto, TypeOK
  <2>3. CASE ~Matches(r) /\ Fail(r, "conflict") /\ UNCHANGED <<draft, wrote>>
    <3>1. phase'[r] = "failing" /\ known[r].version < row.version
      BY <2>1, <2>3, <1>k, <1>t DEF Fail, Goto, TypeOK, Knows, Matches
    <3>2. Knows(r)' /\ Accepted(r)' /\ Progress(r)' /\ ~wrote'[r]
      BY <2>1, <2>3, <3>1, <1>k DEF Knows, Accepted, Progress
    <3>3. QED
      BY <2>1, <2>3, <3>1, <3>2, <1>t, LocalStep DEF Fail, Goto, TypeOK
  <2>4. QED
    BY <1>3, <2>2, <2>3 DEF Apply
<1>4. ASSUME NEW r \in Requests, Fetch(r) \/ Refuse(r) \/ Flush(r) PROVE RowInv'
  BY <1>4, <1>k DEF Fetch, Refuse, Flush, Progress
<1>5. ASSUME NEW r \in Requests, Rollback(r) PROVE RowInv'
  <2>1. phase[r] = "failing" /\ phase'[r] = "failed" /\ ~wrote'[r]
    BY <1>5, <1>t DEF Rollback, Goto, TypeOK
  <2>2. row' = row /\ known' = known /\ error' = error /\ log' = log
    BY <1>5 DEF Rollback
  <2>3. Knows(r)' /\ Accepted(r)' /\ Progress(r)'
    BY <2>1, <2>2, <1>k DEF Knows, Accepted, Progress
  <2>4. QED
    BY <1>5, <1>t, <2>1, <2>3, LocalStep DEF Rollback, Goto, TypeOK
<1>6. ASSUME NEW r \in Requests, Disconnect(r) PROVE RowInv'
  <2>1. /\ phase[r] \in Open /\ phase'[r] = "failed" /\ ~wrote'[r]
        /\ error'[r] = "connection"
    BY <1>6, <1>t DEF Disconnect, Goto, TypeOK
  <2>2. row' = row /\ known' = known /\ log' = log
    BY <1>6 DEF Disconnect
  <2>3. Knows(r)' /\ Accepted(r)' /\ Progress(r)'
    BY <2>1, <2>2, <1>k DEF Knows, Accepted, Progress, Open
  <2>4. QED
    BY <1>6, <1>t, <2>1, <2>3, LocalStep DEF Disconnect, Goto, TypeOK
<1>7. ASSUME NEW r \in Requests, Commit(r) PROVE RowInv'
  <2>1. phase[r] = "commit" /\ wrote[r] /\ phase'[r] = "committed" /\ ~wrote'[r]
    BY <1>7, <1>k, <1>t DEF Commit, Goto, TypeOK, Progress
  <2>2. /\ row' = draft[r] /\ log' = Append(log, [by |-> r, written |-> Written(r)])
        /\ UNCHANGED <<call, error, known, existing, draft>>
    BY <1>7, <2>1 DEF Commit
  <2>3. row'.version = row.version + 1 /\ row'.name = NameOf(row'.fields)
    BY <2>1, <2>2, <1>k DEF Accepted
  <2>4. ASSUME NEW s \in Requests, s # r
        PROVE  phase'[s] = phase[s] /\ wrote'[s] = wrote[s] /\ ~wrote[s] /\ phase[s] # "commit"
    BY <1>7, <2>1, <2>4, <1>k, <1>t DEF Commit, Goto, TypeOK, RowInv, OneWriter, Progress
  <2>5. OneWriter'
    BY <2>1, <2>4 DEF OneWriter
  <2>6. /\ Len(log') = Len(log) + 1 /\ Len(log) \in Nat /\ DOMAIN log' = 1..(Len(log) + 1)
        /\ \A i \in DOMAIN log : log'[i] = log[i] /\ i \in DOMAIN log'
        /\ log'[Len(log) + 1].by = r
        /\ \A i \in DOMAIN log' : i \in DOMAIN log \/ i = Len(log) + 1
    BY <2>2, <1>t DEF TypeOK
  <2>7. ASSUME NEW s \in Requests PROVE Knows(s)' /\ Accepted(s)' /\ Progress(s)'
    <3>1. CASE s = r
      <4>1. known'[r].version = row.version /\ row.version < row'.version
        BY <2>1, <2>2, <2>3, <1>k DEF Accepted
      <4>2. Knows(r)' /\ Accepted(r)'
        BY <2>1, <2>3, <4>1, <1>k DEF Knows, Accepted
      <4>3. Progress(r)'
        BY <2>1, <2>2, <1>k DEF Progress
      <4>4. QED
        BY <3>1, <4>2, <4>3
    <3>2. CASE s # r
      <4>1. phase[s] # "new" => known'[s].version < row'.version
        BY <2>2, <2>3, <1>k DEF Knows
      <4>2. Knows(s)' /\ Accepted(s)'
        BY <2>3, <2>4, <3>2, <4>1, <1>k, <1>t DEF Knows, Accepted, TypeOK, RowType
      <4>3. Progress(s)'
        BY <2>2, <2>4, <2>6, <3>2, <1>k DEF Progress
      <4>4. QED
        BY <4>2, <4>3
    <3>3. QED
      BY <3>1, <3>2
  <2>8. VersionCountsWrites' /\ NameAgrees'
    BY <2>3, <2>6, <1>k DEF RowInv, VersionCountsWrites, NameAgrees
  <2>9. ConflictIsReal'
    BY <2>2, <2>6 DEF RowInv, ConflictIsReal
  <2>10. QED
    BY <1>t, <2>5, <2>7, <2>8, <2>9 DEF RowInv
<1>8. ASSUME UNCHANGED vars PROVE RowInv'
  BY <1>8, <1>t DEF vars, RowInv, OneWriter, Knows, ChangesName, Accepted, Progress,
     VersionCountsWrites, NameAgrees, ConflictIsReal
<1>9. QED
  BY <1>1, <1>2, <1>3, <1>4, <1>5, <1>6, <1>7, <1>8 DEF Next, Rest
-----------------------------------------------------------------------------
\* The types of the columns are respected by every kind of request.
THEOREM RowTypeCorrect == Spec => []TypeOK
<1>1. Init => TypeOK
  BY InitRowInv DEF RowInv
<1>2. QED
  BY <1>1, TypeStep, PTL DEF Spec

\* The inductive invariant of rows that only versioned updates change.
THEOREM RowInvariance ==
  ASSUME VersionedOnly
  PROVE  Spec => []RowInv
<1>1. RowInv /\ [Next]_vars => RowInv'
  BY RowStep
<1>2. QED
  BY <1>1, InitRowInv, PTL DEF Spec

\* An edit of a stale copy is never accepted.
THEOREM NoStaleEdit ==
  ASSUME VersionedOnly
  PROVE  Spec => []StaleIsRefused
<1>1. RowInv => StaleIsRefused
  BY DEF RowInv, Accepted, StaleIsRefused
<1>2. QED
  BY <1>1, RowInvariance, PTL

\* The version is a count of the writes: it never repeats and never goes back.
THEOREM VersionIsCount ==
  ASSUME VersionedOnly
  PROVE  Spec => []VersionCountsWrites
<1>1. RowInv => VersionCountsWrites
  BY DEF RowInv
<1>2. QED
  BY <1>1, RowInvariance, PTL

\* The composed variant_name never disagrees with size and color.
THEOREM NameIsComposed ==
  ASSUME VersionedOnly
  PROVE  Spec => []NameAgrees
<1>1. RowInv => NameAgrees
  BY DEF RowInv
<1>2. QED
  BY <1>1, RowInvariance, PTL

\* Nobody is told of a modification that did not take place.
THEOREM RefusalIsTrue ==
  ASSUME VersionedOnly
  PROVE  Spec => []ConflictIsReal
<1>1. RowInv => ConflictIsReal
  BY DEF RowInv
<1>2. QED
  BY <1>1, RowInvariance, PTL
-----------------------------------------------------------------------------
\* The refinement mapping, on one request.
Basis(r) == IF phase[r] = "new" THEN -1 ELSE known[r].version - 1

\* Initial states are initial states of OptimisticEdits.
LEMMA MapsInit == Init => Edits!Init
BY DEF Init, Edits!Init, Edits!Unread, NewRow

\* Steps are steps of OptimisticEdits, or change nothing it knows of.
LEMMA MapsStep == VersionedOnly /\ RowInv /\ [Next]_vars => [Edits!Next]_(Edits!vars)
<1> SUFFICES ASSUME VersionedOnly, RowInv, [Next]_vars
             PROVE  [Edits!Next]_(Edits!vars)
  OBVIOUS
<1> DEFINE acc == {r \in Requests : phase[r] = "committed"}
           basis == [r \in Requests |-> Basis(r)]
<1>t. TypeOK /\ TypeOK' /\ row.version \in Nat \ {0}
  BY TypeStep DEF RowInv, TypeOK, RowType
<1>s. ASSUME row' = row, basis' = basis, acc' = acc PROVE UNCHANGED Edits!vars
  BY <1>s DEF Edits!vars, Basis
<1>q. ASSUME NEW r \in Requests, row' = row, known' = known,
             phase[r] \notin {"new", "committed"}, phase'[r] \notin {"new", "committed"},
             \A s \in Requests \ {r} : phase'[s] = phase[s]
      PROVE  UNCHANGED Edits!vars
  <2>1. \A s \in Requests : Basis(s)' = Basis(s)
    BY <1>q DEF Basis
  <2>2. basis' = basis /\ acc' = acc
    BY <1>q, <2>1
  <2>3. QED
    BY <2>2, <1>q, <1>s
<1>1. ASSUME NEW r \in Requests, Load(r) PROVE Edits!Next
  <2>1. /\ phase[r] = "new" /\ phase'[r] \in {"unchanged", "lookup", "apply"} /\ row' = row
        /\ known'[r] = row
        /\ \A s \in Requests \ {r} : phase'[s] = phase[s] /\ known'[s] = known[s]
    BY <1>1, <1>t DEF Load, Goto, TypeOK
  <2>2. basis' = [basis EXCEPT ![r] = row.version - 1] /\ acc' = acc /\ basis[r] = -1
    BY <2>1, <1>t DEF Basis
  <2>3. Edits!Load(r)
    BY <2>1, <2>2 DEF Edits!Load, Edits!Unread, Basis
  <2>4. QED
    BY <2>3 DEF Edits!Next
<1>2. ASSUME NEW r \in Requests, Lookup(r) PROVE UNCHANGED Edits!vars
  BY <1>2, <1>t, <1>q DEF Lookup, Goto, TypeOK
<1>3. ASSUME NEW r \in Requests, Apply(r) PROVE UNCHANGED Edits!vars
  BY <1>3, <1>t, <1>q DEF Apply, Write, Fail, Goto, TypeOK
<1>4. ASSUME NEW r \in Requests, Fetch(r) \/ Refuse(r) \/ Flush(r) PROVE FALSE
  BY <1>4, <1>t DEF Fetch, Refuse, Flush, RowInv, Progress, VersionedOnly, TypeOK
<1>5. ASSUME NEW r \in Requests, Rollback(r) \/ Disconnect(r) PROVE UNCHANGED Edits!vars
  BY <1>5, <1>t, <1>q DEF Rollback, Disconnect, Open, Goto, TypeOK
<1>6. ASSUME NEW r \in Requests, Commit(r) PROVE Edits!Next
  <2>1. /\ phase[r] = "commit" /\ wrote[r] /\ known[r] = row
        /\ draft[r].version = row.version + 1
        /\ draft[r].fields = Merged(call[r].change, row.fields)
    BY <1>6, <1>t DEF Commit, RowInv, Progress, Accepted
  <2>2. /\ row' = draft[r] /\ known' = known /\ phase'[r] = "committed"
        /\ \A s \in Requests \ {r} : phase'[s] = phase[s]
    BY <1>6, <2>1, <1>t DEF Commit, Goto, TypeOK
  <2>3. \A s \in Requests : Basis(s)' = Basis(s)
    BY <2>1, <2>2 DEF Basis
  <2>4. basis' = basis /\ acc' = acc \union {r} /\ r \notin acc /\ basis[r] = row.version - 1
    BY <2>1, <2>2, <2>3 DEF Basis
  <2>5. PICK change \in Changes : change = call[r].change
    BY <1>t, VersionedRowAssumption DEF TypeOK
  <2>6. row'.version - 1 = (row.version - 1) + 1
    BY <2>1, <2>2, <1>t
  <2>7. row'.fields = Edits!Merged(change, row.fields)
    BY <2>1, <2>2, <2>5 DEF Merged, Edits!Merged
  <2>8. Edits!Accept(r, change)
    BY <2>4, <2>6, <2>7 DEF Edits!Accept, Basis
  <2>9. QED
    BY <2>8 DEF Edits!Next
<1>7. CASE UNCHANGED vars
  BY <1>7, <1>s DEF vars, Basis
<1>8. QED
  BY <1>1, <1>2, <1>3, <1>4, <1>5, <1>6, <1>7 DEF Next, Rest

\* A row that only versioned updates change is a row of OptimisticEdits: each
\* accepted edit was made on a copy of the row as it was when accepted.
THEOREM ImplementsOptimisticEdits ==
  ASSUME VersionedOnly
  PROVE  Spec => EditsSpec
<1>1. RowInv /\ [Next]_vars => [Edits!Next]_(Edits!vars)
  BY MapsStep
<1>2. QED
  BY <1>1, MapsInit, RowInvariance, PTL DEF Spec, EditsSpec, Edits!Spec

-----------------------------------------------------------------------------
(* Rows with plain writes.                                                 *)

\* What a request that holds the row is about to commit: what it writes, on
\* top of the row as it is committed.
Writes(r) ==
  /\ wrote[r] => /\ phase[r] = "commit"
                 /\ draft[r].fields = Merged(Written(r), row.fields)
                 /\ draft[r].version = known[r].version + 1
  /\ phase[r] = "commit" /\ call[r].kind = "update" =>
       wrote[r] /\ known[r].version = row.version
  /\ phase[r] \in {"lookup", "apply"} => call[r].kind = "update"
  /\ phase[r] = "flush" => call[r].kind # "update"

\* A plain write that had loaded an older version than this request.
PlainBehind(r) ==
  \E i \in DOMAIN log : /\ call[log[i].by].kind # "update"
                        /\ known[log[i].by].version < known[r].version

\* What a request has loaded is the row or older, unless a plain write of an
\* older copy has set the version back.
Loaded(r) ==
  phase[r] # "new" => known[r] = row \/ known[r].version < row.version \/ PlainBehind(r)

\* The writers of the committed writes have committed.
Logged == \A i \in DOMAIN log : phase[log[i].by] = "committed"

PlainInv ==
  /\ TypeOK /\ OneWriter /\ Logged
  /\ \A r \in Requests : Writes(r) /\ Loaded(r)
  /\ EveryColumnLands
-----------------------------------------------------------------------------
\* A committed write has a writer.
LEMMA LogType ==
  ASSUME TypeOK, NEW i \in DOMAIN log
  PROVE  log[i].by \in Requests
<1> DEFINE Entries == [by : Requests, written : Changes]
<1>1. log \in Seq(Entries)
  BY DEF TypeOK
<1> HIDE DEF Entries
<1>2. DOMAIN log = 1..Len(log)
  BY <1>1
<1>3. log[i] \in Entries
  BY <1>1, <1>2, ElementOfSeq
<1>4. QED
  BY <1>3 DEF Entries

\* The invariant holds in the beginning.
LEMMA InitPlainInv == Init => PlainInv
<1> SUFFICES ASSUME Init PROVE PlainInv
  OBVIOUS
<1>1. TypeOK
  BY InitRowInv DEF RowInv
<1>2. log = << >> /\ row.fields = InitialFields
  BY DEF Init, NewRow
<1>3. OneWriter /\ Logged
  BY <1>2 DEF Init, OneWriter, Logged
<1>4. \A r \in Requests : Writes(r) /\ Loaded(r)
  BY DEF Init, Writes, Loaded
<1>5. EveryColumnLands
  BY <1>2 DEF EveryColumnLands, LastWrite
<1>6. QED
  BY <1>1, <1>3, <1>4, <1>5 DEF PlainInv

\* A step of one request that leaves the row alone and does not undo what the
\* request is known by once it has committed.
LEMMA PlainLocalStep ==
  ASSUME PlainInv, TypeOK', NEW r \in Requests,
         row' = row, log' = log, call' = call,
         \A s \in Requests \ {r} :
           phase'[s] = phase[s] /\ known'[s] = known[s] /\ draft'[s] = draft[s] /\ wrote'[s] = wrote[s],
         phase[r] # "committed",
         wrote'[r] => Free(r),
         Writes(r)',
         phase[r] = "new" => known'[r] = row,
         phase[r] # "new" => known'[r] = known[r]
  PROVE  PlainInv'
<1> USE DEF PlainInv
<1>1. OneWriter'
  <2> SUFFICES ASSUME NEW a \in Requests, NEW b \in Requests, wrote'[a], wrote'[b], a # b
               PROVE  FALSE
    BY DEF OneWriter
  <2>1. CASE a = r
    BY <2>1 DEF Free
  <2>2. CASE b = r
    BY <2>2 DEF Free
  <2>3. CASE a # r /\ b # r
    BY <2>3 DEF OneWriter
  <2>4. QED
    BY <2>1, <2>2, <2>3
<1>2. ASSUME NEW i \in DOMAIN log PROVE log[i].by \in Requests /\ log[i].by # r
  <2>1. QED
    BY LogType DEF Logged
<1>3. Logged'
  BY <1>2 DEF Logged
<1>4. \A s \in Requests : phase'[s] # "new" => phase[s] # "new" \/ s = r
  OBVIOUS
<1>5. ASSUME NEW s \in Requests, s # r \/ phase[r] # "new", PlainBehind(s) PROVE PlainBehind(s)'
  <2>1. known'[s] = known[s]
    BY <1>5
  <2>2. PICK i \in DOMAIN log : call[log[i].by].kind # "update"
                                /\ known[log[i].by].version < known[s].version
    BY <1>5 DEF PlainBehind
  <2>3. known'[log[i].by] = known[log[i].by]
    BY <1>2
  <2>4. QED
    BY <2>1, <2>2, <2>3 DEF PlainBehind
<1>6. ASSUME NEW s \in Requests PROVE Loaded(s)'
  <2>1. CASE s = r /\ phase[r] = "new"
    BY <2>1 DEF Loaded
  <2>2. CASE s # r \/ phase[r] # "new"
    <3>1. known'[s] = known[s] /\ (phase'[s] # "new" => phase[s] # "new")
      BY <2>2
    <3>2. QED
      BY <2>2, <3>1, <1>5 DEF Loaded
  <2>3. QED
    BY <2>1, <2>2
<1>7. ASSUME NEW s \in Requests, s # r PROVE Writes(s)'
  <2>1. Writes(s) /\ Written(s)' = Written(s)
    BY <1>7 DEF Written
  <2>2. QED
    BY <1>7, <2>1 DEF Writes
<1>8. EveryColumnLands'
  BY DEF EveryColumnLands, LastWrite
<1>9. QED
  BY <1>1, <1>3, <1>6, <1>7, <1>8

\* What the commit of a request that has written does to the log.
LEMMA LogCommits ==
  ASSUME PlainInv, NEW r \in Requests, Commit(r), wrote[r]
  PROVE  /\ Len(log) \in Nat /\ DOMAIN log = 1..Len(log)
         /\ DOMAIN log' = 1..(Len(log) + 1)
         /\ \A i \in DOMAIN log : log'[i] = log[i]
         /\ log'[Len(log) + 1] = [by |-> r, written |-> Written(r)]
<1>1. log \in Seq([by : Requests, written : Changes])
  BY DEF PlainInv, TypeOK
<1>2. log' = Append(log, [by |-> r, written |-> Written(r)])
  BY DEF Commit
<1>3. QED
  BY <1>1, <1>2

\* The columns after a commit are those of the last writes.
LEMMA ColumnsCommit ==
  ASSUME PlainInv, NEW r \in Requests, Commit(r), wrote[r]
  PROVE  EveryColumnLands'
<1> DEFINE n == Len(log) + 1
<1>1. row'.fields = Merged(Written(r), row.fields) /\ DOMAIN row.fields = Columns
  BY DEF Commit, PlainInv, Writes, TypeOK, RowType
<1>2. SUFFICES ASSUME NEW c \in Columns
               PROVE  /\ LastWrite(c)' = {} => row'.fields[c] = InitialFields[c]
                      /\ \A i \in LastWrite(c)' : row'.fields[c] = log'[i].written[c]
  BY DEF EveryColumnLands
<1>3. row'.fields[c] = IF c \in DOMAIN Written(r) THEN Written(r)[c] ELSE row.fields[c]
  BY <1>1 DEF Merged
<1>4. /\ Len(log) \in Nat /\ DOMAIN log = 1..Len(log) /\ DOMAIN log' = 1..n
      /\ \A i \in DOMAIN log : log'[i] = log[i]
      /\ log'[n].written = Written(r)
  <2>1. log'[n] = [by |-> r, written |-> Written(r)]
    BY LogCommits
  <2>2. log'[n].written = Written(r)
    BY <2>1
  <2>3. QED
    BY <2>2, LogCommits
<1>5. CASE c \in DOMAIN Written(r)
  <2>1. n \in LastWrite(c)'
    BY <1>4, <1>5 DEF LastWrite
  <2>2. ASSUME NEW i \in LastWrite(c)' PROVE i = n
    BY <1>4, <1>5, <2>2 DEF LastWrite
  <2>3. QED
    BY <1>3, <1>4, <1>5, <2>1, <2>2
<1>6. CASE c \notin DOMAIN Written(r)
  <2>1. LastWrite(c)' = LastWrite(c)
    <3>1. ASSUME NEW i \in LastWrite(c) PROVE i \in LastWrite(c)'
      BY <1>4, <1>6 DEF LastWrite
    <3>2. ASSUME NEW i \in LastWrite(c)' PROVE i \in LastWrite(c)
      BY <1>4, <1>6 DEF LastWrite
    <3>3. QED
      BY <3>1, <3>2
  <2>2. \A i \in LastWrite(c) : log'[i] = log[i]
    BY <1>4 DEF LastWrite
  <2>3. QED
    BY <1>3, <1>6, <2>1, <2>2 DEF PlainInv, EveryColumnLands
<1>7. QED
  BY <1>5, <1>6

\* A commit keeps the invariant.
LEMMA PlainCommitStep ==
  ASSUME PlainInv, TypeOK', NEW r \in Requests, Commit(r)
  PROVE  PlainInv'
<1> USE DEF PlainInv
<1>1. /\ phase[r] = "commit" /\ phase'[r] = "committed" /\ ~wrote'[r]
      /\ UNCHANGED <<call, known, draft>>
      /\ \A s \in Requests \ {r} : phase'[s] = phase[s] /\ wrote'[s] = wrote[s]
  BY DEF Commit, Goto, TypeOK
<1>2. CASE ~wrote[r]
  <2>1. row' = row /\ log' = log
    BY <1>2 DEF Commit
  <2>2. Writes(r)'
    BY <1>1 DEF Writes
  <2>3. QED
    BY <1>1, <2>1, <2>2, PlainLocalStep
<1>3. CASE wrote[r]
  <2>1. row' = draft[r] /\ row'.version = known[r].version + 1
    BY <1>3 DEF Commit, Writes
  <2>2. \A s \in Requests \ {r} : ~wrote[s] /\ ~wrote'[s]
    BY <1>1, <1>3 DEF OneWriter
  <2>3. OneWriter'
    BY <1>1, <2>2 DEF OneWriter
  <2>l. /\ Len(log) \in Nat /\ DOMAIN log = 1..Len(log) /\ DOMAIN log' = 1..(Len(log) + 1)
        /\ \A i \in DOMAIN log : log'[i] = log[i] /\ log[i].by \in Requests
        /\ log'[Len(log) + 1].by = r
    <3>1. log'[Len(log) + 1] = [by |-> r, written |-> Written(r)]
      BY <1>3, LogCommits
    <3>2. log'[Len(log) + 1].by = r
      BY <3>1
    <3>3. QED
      BY <1>3, <3>2, LogCommits, LogType
  <2>4. Logged'
    BY <1>1, <2>l DEF Logged
  <2>5. ASSUME NEW s \in Requests PROVE Writes(s)'
    BY <1>1, <2>2 DEF Writes
  <2>6. ASSUME NEW s \in Requests, PlainBehind(s) PROVE PlainBehind(s)'
    BY <1>1, <2>l, <2>6 DEF PlainBehind
  <2>7. ASSUME NEW s \in Requests PROVE Loaded(s)'
    <3>1. SUFFICES ASSUME phase'[s] # "new"
                   PROVE  known[s].version < row'.version \/ PlainBehind(s)'
      BY <1>1 DEF Loaded
    <3>2. phase[s] # "new" /\ Loaded(s)
      BY <1>1, <3>1
    <3>3. known[r].version \in Nat /\ known[s].version \in Nat /\ row.version \in Nat
      BY DEF TypeOK, RowType
    <3>4. CASE known[s].version <= known[r].version
      BY <2>1, <3>3, <3>4
    <3>5. CASE known[r].version < known[s].version /\ call[r].kind # "update"
      BY <1>1, <2>l, <3>5 DEF PlainBehind
    <3>6. CASE known[r].version < known[s].version /\ call[r].kind = "update"
      <4>1. known[r].version = row.version
        BY <1>1, <3>6 DEF Writes
      <4>2. PlainBehind(s)
        BY <3>2, <3>3, <3>6, <4>1 DEF Loaded
      <4>3. QED
        BY <4>2, <2>6
    <3>7. QED
      BY <3>3, <3>4, <3>5, <3>6
  <2>8. EveryColumnLands'
    BY <1>3, ColumnsCommit
  <2>9. QED
    BY <2>3, <2>4, <2>5, <2>7, <2>8
<1>4. QED
  BY <1>2, <1>3 DEF TypeOK

\* Every step keeps the invariant, whatever the kinds of the calls.
LEMMA PlainStep == PlainInv /\ [Next]_vars => PlainInv'
<1> SUFFICES ASSUME PlainInv, [Next]_vars PROVE PlainInv'
  OBVIOUS
<1>t. TypeOK /\ TypeOK'
  BY TypeStep DEF PlainInv
<1>w. ASSUME NEW r \in Requests PROVE Writes(r)
  BY DEF PlainInv
<1>1. ASSUME NEW r \in Requests, Load(r) \/ Fetch(r) PROVE PlainInv'
  <2>1. /\ phase[r] = "new" /\ known'[r] = row
        /\ UNCHANGED <<row, log, call, draft, wrote>>
        /\ phase'[r] \in {"flush", "commit"} => call[r].kind # "update"
        /\ phase'[r] \in {"lookup", "apply"} => call[r].kind = "update"
    BY <1>1, <1>t DEF Load, Fetch, Goto, TypeOK
  <2>2. ~wrote[r]
    BY <2>1, <1>w DEF Writes
  <2>3. Writes(r)' /\ ~wrote'[r]
    BY <2>1, <2>2 DEF Writes
  <2>4. QED
    BY <1>1, <1>t, <2>1, <2>3, PlainLocalStep DEF Load, Fetch, Goto, TypeOK
<1>2. ASSUME NEW r \in Requests, Lookup(r) \/ Refuse(r) \/ Rollback(r) \/ Disconnect(r)
      PROVE  PlainInv'
  <2>1. /\ phase[r] \notin {"new", "committed"} /\ phase'[r] # "commit"
        /\ phase'[r] \in {"lookup", "apply"} => phase[r] = "lookup"
        /\ phase'[r] # "flush"
        /\ UNCHANGED <<row, log, call, known, draft>>
        /\ wrote'[r] => wrote[r]
    BY <1>2, <1>t DEF Lookup, Refuse, Rollback, Disconnect, Fail, Goto, TypeOK, Open
  <2>2. ~wrote'[r]
    BY <1>2, <1>t, <1>w DEF Lookup, Refuse, Rollback, Disconnect, Writes, TypeOK
  <2>3. Writes(r)'
    BY <2>1, <2>2, <1>w DEF Writes
  <2>4. QED
    BY <1>2, <1>t, <2>1, <2>2, <2>3, PlainLocalStep
       DEF Lookup, Refuse, Rollback, Disconnect, Fail, Goto, TypeOK
<1>3. ASSUME NEW r \in Requests, Apply(r) PROVE PlainInv'
  <2>1. phase[r] = "apply" /\ UNCHANGED <<row, log, call, known>>
    BY <1>3 DEF Apply
  <2>2. CASE /\ Matches(r) /\ Free(r)
             /\ Write(r, NewRow(row.version + 1, Merged(call[r].change, row.fields), Composed(r)))
    <3>1. call[r].kind = "update" /\ Written(r)' = call[r].change
      BY <2>1, <1>w DEF Written, Writes
    <3>2. /\ phase'[r] = "commit" /\ wrote'[r]
          /\ draft'[r].fields = Merged(call[r].change, row.fields)
          /\ draft'[r].version = known[r].version + 1
      BY <2>2, <1>t DEF Write, Goto, TypeOK, NewRow, Matches
    <3>3. QED
      BY <2>1, <2>2, <3>1, <3>2, <1>t, PlainLocalStep DEF Write, Goto, TypeOK, Writes, Matches
  <2>3. CASE ~Matches(r) /\ Fail(r, "conflict") /\ UNCHANGED <<draft, wrote>>
    <3>1. phase'[r] = "failing" /\ ~wrote'[r]
      BY <2>1, <2>3, <1>t, <1>w DEF Fail, Goto, TypeOK, Writes
    <3>2. Writes(r)'
      BY <3>1 DEF Writes
    <3>3. QED
      BY <2>1, <2>3, <3>1, <3>2, <1>t, PlainLocalStep DEF Fail, Goto, TypeOK
  <2>4. QED
    BY <1>3, <2>2, <2>3 DEF Apply
<1>4. ASSUME NEW r \in Requests, Flush(r) PROVE PlainInv'
  <2>1. phase[r] = "flush" /\ Free(r) /\ UNCHANGED <<row, log, call, known>>
    BY <1>4 DEF Flush
  <2>2. /\ phase'[r] = "commit" /\ wrote'[r]
        /\ draft'[r].fields = Merged(Written(r), row.fields)
        /\ draft'[r].version = known[r].version + 1
    BY <1>4, <1>t DEF Flush, Write, Goto, TypeOK, NewRow
  <2>3. Writes(r)'
    BY <2>1, <2>2, <1>w DEF Writes, Written
  <2>4. QED
    BY <1>4, <2>1, <2>2, <2>3, <1>t, PlainLocalStep DEF Flush, Write, Goto, TypeOK
<1>5. ASSUME UNCHANGED vars PROVE PlainInv'
  BY <1>5, <1>t DEF vars, PlainInv, OneWriter, Logged, Writes, Written, Loaded, PlainBehind,
     EveryColumnLands, LastWrite
<1>6. QED
  BY <1>1, <1>2, <1>3, <1>4, <1>5, <1>t, PlainCommitStep DEF Next, Rest
-----------------------------------------------------------------------------
\* The inductive invariant of rows with plain writes.
THEOREM PlainInvariance == Spec => []PlainInv
<1>1. QED
  BY InitPlainInv, PlainStep, PTL DEF Spec

\* No write, plain or versioned, loses a column that another one set, although
\* the plain ones do not look at the version they overwrite.
THEOREM ColumnsLand == Spec => []EveryColumnLands
<1>1. PlainInv => EveryColumnLands
  BY DEF PlainInv
<1>2. QED
  BY <1>1, PlainInvariance, PTL

\* An edit of a stale copy is accepted only behind a plain write of a copy
\* that was older still.
THEOREM StaleBehindPlain == Spec => []StaleOnlyBehindPlainWrite
<1>1. PlainInv => StaleOnlyBehindPlainWrite
  <2> SUFFICES ASSUME PlainInv, NEW r \in Requests,
                      phase[r] = "commit", call[r].kind = "update", known[r] # row
               PROVE  PlainBehind(r)
    BY DEF StaleOnlyBehindPlainWrite, PlainBehind
  <2>1. Loaded(r) /\ known[r].version = row.version /\ row.version \in Nat
    BY DEF PlainInv, Writes, TypeOK, RowType
  <2>2. QED
    BY <2>1 DEF Loaded
<1>2. QED
  BY <1>1, PlainInvariance, PTL
=============================================================================
