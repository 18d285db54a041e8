--------------------------- MODULE UniqueRowsProofs ---------------------------
(***************************************************************************)
(* Theorems about UniqueRows, for every set of requests, calls and seeded  *)
(* rows: no identifying key is there twice, groups of rows are whole, and  *)
(* what an import answers is true.                                         *)
(***************************************************************************)
EXTENDS UniqueRows, SequenceTheorems, TLAPS

\* Every call of a request, and the steps of its groups, are as assumed.
LEMMA CallShape ==
  ASSUME TypeOK, NEW r \in Requests, NEW g \in DOMAIN call[r].groups
  PROVE  /\ Len(call[r].groups) \in Nat /\ DOMAIN call[r].groups = 1..Len(call[r].groups)
         /\ call[r].groups[g].sku \in Keys
         /\ Len(call[r].groups[g].steps) \in Nat \ {0}
         /\ DOMAIN call[r].groups[g].steps = 1..Len(call[r].groups[g].steps)
         /\ \A i \in DOMAIN call[r].groups[g].steps :
              LET s == call[r].groups[g].steps
              IN  /\ s[i].do \in Actions /\ s[i].key \in Keys
                  /\ s[i].do = "resolve" => /\ i < Len(s)
                                            /\ s[i + 1].do = "insert"
                                            /\ s[i + 1].key = s[i].key
<1>1. call[r] \in Calls
  BY DEF TypeOK
<1> QED
  BY <1>1, UniqueRowsAssumption

\* The step after one that uses a row as it is inserts the row.
LEMMA AfterResolve ==
  ASSUME TypeOK, NEW r \in Requests, NEW g \in DOMAIN call[r].groups,
         NEW i \in DOMAIN call[r].groups[g].steps, call[r].groups[g].steps[i].do = "resolve"
  PROVE  /\ i \in Nat /\ i < Len(call[r].groups[g].steps)
         /\ call[r].groups[g].steps[i + 1].do = "insert"
         /\ call[r].groups[g].steps[i + 1].key = call[r].groups[g].steps[i].key
BY CallShape

\* The groups of every call are a sequence.
LEMMA GroupsShape ==
  ASSUME TypeOK, NEW r \in Requests
  PROVE  Len(call[r].groups) \in Nat /\ DOMAIN call[r].groups = 1..Len(call[r].groups)
<1>1. call[r] \in Calls
  BY DEF TypeOK
<1> QED
  BY <1>1, UniqueRowsAssumption
-----------------------------------------------------------------------------
\* Type correctness

\* The next group keeps the types.
LEMMA NextGroupType ==
  ASSUME TypeOK, NEW r \in Requests, NEW status \in {"created", "skipped", "error"},
         NextGroup(r, status), group[r] \in DOMAIN call[r].groups,
         rows' = rows, call' = call, own' \in [Requests -> SUBSET RowType], error' = error
  PROVE  TypeOK'
<1>1. Len(call[r].groups) \in Nat /\ DOMAIN call[r].groups = 1..Len(call[r].groups)
  BY GroupsShape
<1>2. report[r] \in Seq({"created", "skipped", "error"}) /\ Len(report[r]) = group[r] - 1
  BY DEF TypeOK
<1>3. /\ Append(report[r], status) \in Seq({"created", "skipped", "error"})
      /\ Len(Append(report[r], status)) = group[r]
  BY <1>2 DEF TypeOK
<1>4. /\ report' = [report EXCEPT ![r] = Append(report[r], status)]
      /\ group' = [group EXCEPT ![r] = group[r] + 1]
      /\ at' = [at EXCEPT ![r] = 1]
      /\ phase' = [phase EXCEPT ![r] = "group"]
  BY DEF NextGroup, Goto
<1>5. report' \in [Requests -> Seq({"created", "skipped", "error"})]
  BY <1>3, <1>4 DEF TypeOK
<1>6. ASSUME NEW s \in Requests
      PROVE  /\ Len(report'[s]) = group'[s] - 1
             /\ group'[s] <= Len(call[s].groups) + 1
  BY <1>1, <1>2, <1>3, <1>4, <1>6 DEF TypeOK
<1> QED
  BY <1>4, <1>5, <1>6 DEF TypeOK, Current

\* Going on to the next step or group keeps the types.
LEMMA ProceedType ==
  ASSUME TypeOK, NEW r \in Requests, NEW n \in {1, 2}, phase[r] = "step", Proceed(r, n),
         rows' = rows, call' = call, own' \in [Requests -> SUBSET RowType], error' = error
  PROVE  TypeOK'
<1>1. group[r] \in DOMAIN call[r].groups /\ at[r] \in DOMAIN Current(r).steps
  BY DEF TypeOK
<1>2. CASE at[r] + n > Len(Current(r).steps)
  BY <1>1, <1>2, NextGroupType DEF Proceed
<1>3. CASE ~(at[r] + n > Len(Current(r).steps))
  <2>1. /\ Len(Current(r).steps) \in Nat
        /\ DOMAIN Current(r).steps = 1..Len(Current(r).steps)
    BY <1>1, CallShape DEF Current
  <2>2. at' = [at EXCEPT ![r] = at[r] + n] /\ UNCHANGED <<phase, group, report>>
    BY <1>3 DEF Proceed
  <2>3. at[r] + n \in DOMAIN Current(r).steps
    BY <2>1, <1>1, <1>3 DEF TypeOK
  <2> QED
    BY <2>2, <2>3 DEF TypeOK, Current
<1> QED
  BY <1>2, <1>3

\* A request that fails, and an import that undoes a group, keep the types.
LEMMA FailType ==
  ASSUME TypeOK, NEW r \in Requests,
         NEW e \in {"taken", "missing", "invalid", "several", "broken", "duplicate", "deadlock"},
         Fail(r, e), rows' = rows, call' = call, own' = own
  PROVE  TypeOK'
BY DEF TypeOK, Fail, Goto, Current, Ended

\* So does an AppException, whether it ends the request or the group.
LEMMA RaiseType ==
  ASSUME TypeOK, NEW r \in Requests, NEW e \in {"taken", "missing", "invalid"},
         phase[r] = "step", RaiseApp(r, e), rows' = rows, call' = call, own' = own
  PROVE  TypeOK'
<1>1. CASE call[r].kind = "import"
  BY <1>1 DEF TypeOK, RaiseApp, Goto, Current
<1>2. CASE call[r].kind # "import"
  BY <1>2, FailType DEF RaiseApp
<1> QED
  BY <1>1, <1>2

\* The types hold in the beginning.
LEMMA TypeInit == Init => TypeOK
<1> SUFFICES ASSUME Init PROVE TypeOK
  OBVIOUS
<1>1. rows \in SUBSET RowType
  BY UniqueRowsAssumption DEF Init, RowType
<1>2. report \in [Requests -> Seq({"created", "skipped", "error"})]
  BY DEF Init
<1>3. \A r \in Requests : Len(report[r]) = group[r] - 1 /\ group[r] <= Len(call[r].groups) + 1
  BY UniqueRowsAssumption DEF Init
<1> QED
  BY <1>1, <1>2, <1>3 DEF Init, TypeOK, Ended

\* Every step keeps the types.
LEMMA TypeNext == TypeOK /\ [Next]_vars => TypeOK'
<1> SUFFICES ASSUME TypeOK, [Next]_vars PROVE TypeOK'
  OBVIOUS
<1>1. ASSUME NEW r \in Requests, Begin(r) PROVE TypeOK'
  <2>1. Len(call[r].groups) \in Nat /\ group[r] \in DOMAIN call[r].groups
    BY <1>1, GroupsShape DEF Begin, TypeOK
  <2>2. Len(Current(r).steps) \in Nat \ {0} /\ DOMAIN Current(r).steps = 1..Len(Current(r).steps)
    BY <2>1, CallShape DEF Current
  <2>3. CASE call[r].kind = "import" /\ Found(r, Current(r).sku) # {}
    <3>1. own' \in [Requests -> SUBSET RowType]
      BY <1>1 DEF Begin, TypeOK
    <3> QED
      BY <1>1, <2>1, <2>3, <3>1, NextGroupType DEF Begin
  <2>4. CASE ~(call[r].kind = "import" /\ Found(r, Current(r).sku) # {})
    <3>1. at[r] \in DOMAIN Current(r).steps
      BY <1>1, <2>2 DEF Begin, TypeOK
    <3> QED
      BY <1>1, <2>1, <2>4, <3>1 DEF Begin, Goto, TypeOK, Current
  <2> QED
    BY <2>3, <2>4
<1>2. ASSUME NEW r \in Requests, Absent(r) PROVE TypeOK'
  <2>1. own' \in [Requests -> SUBSET RowType] /\ phase[r] = "step"
    BY <1>2 DEF Absent, TypeOK
  <2>2. CASE Proceed(r, 1) /\ UNCHANGED error
    BY <1>2, <2>1, <2>2, ProceedType DEF Absent
  <2>3. CASE RaiseApp(r, "taken")
    BY <1>2, <2>1, <2>3, RaiseType DEF Absent
  <2>4. CASE Fail(r, "several")
    BY <1>2, <2>4, FailType DEF Absent
  <2> QED
    BY <1>2, <2>2, <2>3, <2>4 DEF Absent
<1>3. ASSUME NEW r \in Requests, Present(r) PROVE TypeOK'
  <2>1. own' \in [Requests -> SUBSET RowType] /\ phase[r] = "step"
    BY <1>3 DEF Present, TypeOK
  <2>2. CASE Proceed(r, 1) /\ UNCHANGED error
    BY <1>3, <2>1, <2>2, ProceedType DEF Present
  <2>3. CASE RaiseApp(r, "missing")
    BY <1>3, <2>1, <2>3, RaiseType DEF Present
  <2>4. CASE Fail(r, "broken")
    BY <1>3, <2>4, FailType DEF Present
  <2> QED
    BY <1>3, <2>2, <2>3, <2>4 DEF Present
<1>4. ASSUME NEW r \in Requests, Resolve(r) PROVE TypeOK'
  <2>1. own' \in [Requests -> SUBSET RowType] /\ phase[r] = "step" /\ UNCHANGED <<rows, call, error>>
    BY <1>4 DEF Resolve, TypeOK
  <2>2. PICK n \in {1, 2} : Proceed(r, n)
    BY <1>4 DEF Resolve
  <2> QED
    BY <2>1, <2>2, ProceedType
<1>5. ASSUME NEW r \in Requests, Reject(r) PROVE TypeOK'
  BY <1>5, RaiseType, FailType DEF Reject
<1>6. ASSUME NEW r \in Requests, Insert(r) PROVE TypeOK'
  <2>1. phase[r] = "step" /\ UNCHANGED <<rows, call>>
    BY <1>6 DEF Insert
  <2>2. CASE Fail(r, "duplicate") /\ UNCHANGED own
    BY <2>1, <2>2, FailType
  <2>3. CASE /\ own' = [own EXCEPT ![r] = @ \union {[key |-> Step(r).key, by |-> r, group |-> group[r]]}]
             /\ Proceed(r, 1) /\ UNCHANGED error
    <3>1. Step(r).key \in Keys
      BY <2>1, CallShape DEF TypeOK, Step, Current
    <3>2. own' \in [Requests -> SUBSET RowType]
      BY <2>3, <3>1 DEF TypeOK, RowType
    <3> QED
      BY <2>1, <2>3, <3>2, ProceedType
  <2> QED
    BY <1>6, <2>2, <2>3 DEF Insert
<1>7. ASSUME NEW r \in Requests, Undo(r) PROVE TypeOK'
  <2>1. /\ group[r] \in DOMAIN call[r].groups /\ UNCHANGED <<rows, call, error>>
        /\ own' \in [Requests -> SUBSET RowType] /\ NextGroup(r, "error")
    BY <1>7 DEF Undo, TypeOK
  <2> QED
    BY <2>1, NextGroupType
<1>8. ASSUME NEW r \in Requests, Commit(r) PROVE TypeOK'
  BY <1>8 DEF Commit, Goto, TypeOK, Current, Ended
<1>9. ASSUME NEW r \in Requests, Rollback(r) PROVE TypeOK'
  BY <1>9 DEF Rollback, Goto, TypeOK, Current, Ended
<1>10. ASSUME NEW r \in Requests, Deadlock(r) PROVE TypeOK'
  BY <1>10, FailType DEF Deadlock
<1>11. ASSUME NEW r \in Requests, Disconnect(r) PROVE TypeOK'
  BY <1>11 DEF Disconnect, Goto, TypeOK, Current, Ended
<1>12. CASE UNCHANGED vars
  BY <1>12 DEF vars, TypeOK, Current, Ended
<1> QED
  BY <1>1, <1>2, <1>3, <1>4, <1>5, <1>6, <1>7, <1>8, <1>9, <1>10, <1>11, <1>12
  DEF Next, Advance, Rest

\* Rows, requests and their positions stay what they are.
THEOREM CreateTypeCorrect == Spec => []TypeOK
BY TypeInit, TypeNext, PTL DEF Spec
-----------------------------------------------------------------------------
\* What an open transaction has found and done stays so

\* What a transaction has stays while no row of these groups is removed.
LEMMA HadStays ==
  ASSUME NEW r \in Requests, NEW g, NEW key, Had(r, g, key), rows \subseteq rows',
         \A x \in own[r] : x.group <= g => x \in own'[r]
  PROVE  Had(r, g, key)'
BY DEF Had

\* A step that is done stays done, with the same proviso.
LEMMA DoneStays ==
  ASSUME NEW r \in Requests, NEW g \in Nat, NEW i, Done(r, g, i), call' = call,
         rows \subseteq rows', \A x \in own[r] : x.group <= g => x \in own'[r]
  PROVE  Done(r, g, i)'
<1> DEFINE steps == call[r].groups[g].steps
<1>1. steps' = steps
  OBVIOUS
<1>2. steps[i].do \notin {"refuse", "break"}
  BY DEF Done
<1>3. ASSUME steps[i].do \in {"present", "demand", "resolve"}
      PROVE  Had(r, g, steps[i].key)'
  <2>1. PICK key : key = steps[i].key
    OBVIOUS
  <2>2. Had(r, g, key)
    BY <1>3, <2>1 DEF Done
  <2>3. Had(r, g, key)'
    BY <2>2, HadStays
  <2> QED
    BY <2>1, <2>3, <1>1 DEF Had
<1>4. ASSUME steps[i].do = "insert", ~(i > 1 /\ steps[i - 1].do = "resolve")
      PROVE  [key |-> steps[i].key, by |-> r, group |-> g] \in own'[r]
  BY <1>4 DEF Done
<1> QED
  BY <1>1, <1>2, <1>3, <1>4 DEF Done

\* Groups that are answered for stay so.
LEMMA AnswersStay ==
  ASSUME NEW r \in Requests, TypeOK, Answers(r), call' = call, rows \subseteq rows',
         phase[r] \in {"group", "step", "undo"},
         NEW g \in 1..(group[r] - 1), report'[r][g] = report[r][g],
         \A x \in own[r] : x.group <= g => x \in own'[r],
         \A x \in own'[r] : x.group = g => x \in own[r]
  PROVE  /\ report'[r][g] = "created" => \A i \in DOMAIN call'[r].groups[g].steps : Done(r, g, i)'
         /\ report'[r][g] # "created" => \A x \in own'[r] : x.group # g
         /\ report'[r][g] = "skipped" => Had(r, g, call[r].groups[g].sku)'
<1>1. g \in Nat
  BY DEF TypeOK
<1>2. ASSUME report[r][g] = "created", NEW i \in DOMAIN call[r].groups[g].steps
      PROVE  Done(r, g, i)'
  <2>1. Done(r, g, i)
    BY <1>2 DEF Answers
  <2> QED
    BY <1>1, <2>1, DoneStays
<1>3. ASSUME report[r][g] = "skipped"
      PROVE  Had(r, g, call[r].groups[g].sku)'
  <2>1. PICK key : key = call[r].groups[g].sku
    OBVIOUS
  <2>2. Had(r, g, key)
    BY <1>3, <2>1 DEF Answers
  <2>3. Had(r, g, key)'
    BY <2>2, HadStays
  <2> QED
    BY <2>1, <2>3 DEF Had
<1>4. report[r][g] # "created" => \A x \in own'[r] : x.group # g
  BY DEF Answers
<1> QED
  BY <1>2, <1>3, <1>4

\* What is behind a request after a step, in terms of the group it is then at.
LEMMA BehindNext ==
  ASSUME NEW r \in Requests, NEW g, NEW a, call' = call, group'[r] = g, at'[r] = a,
         \A i \in 1..(a - 1) :
           (call[r].groups[g].steps[i].do = "resolve" => i + 1 < a) => Done(r, g, i)'
  PROVE  Behind(r)'
<1> SUFFICES ASSUME NEW i \in 1..(at'[r] - 1),
                    Current(r)'.steps[i].do = "resolve" => i + 1 < at'[r]
             PROVE  Done(r, group[r], i)'
  BY DEF Behind
<1>1. call[r].groups[g].steps[i].do = "resolve" => i + 1 < a
  BY DEF Current
<1>2. Done(r, g, i)'
  BY <1>1
<1> QED
  BY <1>2 DEF Done, Had

\* A step of another request, which may commit rows, leaves a request as it is.
LEMMA OthersKeep ==
  ASSUME NEW s \in Requests, TypeOK, OwnRows(s), Behind(s), Answers(s),
         call' = call, rows \subseteq rows', own'[s] = own[s], phase'[s] = phase[s],
         group'[s] = group[s], at'[s] = at[s], report'[s] = report[s]
  PROVE  OwnRows(s)' /\ Behind(s)' /\ Answers(s)'
<1>1. OwnRows(s)'
  BY DEF OwnRows
<1>2. Behind(s)'
  <2>1. PICK g \in Nat : g = group[s]
    BY DEF TypeOK
  <2>2. CASE phase[s] = "step"
    <3>1. ASSUME NEW i \in 1..(at[s] - 1),
                 call[s].groups[g].steps[i].do = "resolve" => i + 1 < at[s]
          PROVE  Done(s, g, i)'
      <4>1. Done(s, g, i)
        BY <2>1, <2>2, <3>1 DEF Behind, Current
      <4> QED
        BY <4>1, DoneStays
    <3> QED
      BY <2>1, <3>1, BehindNext
  <2>3. CASE phase[s] # "step"
    BY <2>3 DEF Behind
  <2> QED
    BY <2>2, <2>3
<1>3. Answers(s)'
  <2> SUFFICES ASSUME phase[s] \in {"group", "step", "undo"}, NEW g \in 1..(group[s] - 1)
               PROVE /\ report'[s][g] = "created" => \A i \in DOMAIN call'[s].groups[g].steps : Done(s, g, i)'
                     /\ report'[s][g] # "created" => \A x \in own'[s] : x.group # g
                     /\ report'[s][g] = "skipped" => Had(s, g, call[s].groups[g].sku)'
    BY DEF Answers
  <2> QED
    BY AnswersStay
<1> QED
  BY <1>1, <1>2, <1>3

\* The next group begins, and what is reported of the one before is true.
LEMMA NextGroupKeeps ==
  ASSUME TypeOK, NEW r \in Requests, phase[r] \in {"group", "step", "undo"},
         Answers(r), call' = call, rows \subseteq rows',
         NEW g \in Nat, g = group[r], NEW status, NextGroup(r, status),
         \A x \in own[r] : x.group < g => x \in own'[r],
         \A x \in own'[r] : x.group < g => x \in own[r],
         \A x \in own'[r] : x.by = r /\ x.group \in 1..g,
         status = "created" => \A i \in DOMAIN call[r].groups[g].steps : Done(r, g, i)',
         status # "created" => \A x \in own'[r] : x.group # g,
         status = "skipped" => Had(r, g, call[r].groups[g].sku)'
  PROVE  OwnRows(r)' /\ Behind(r)' /\ Answers(r)'
<1>1. /\ group'[r] = g + 1 /\ phase'[r] = "group"
      /\ report[r] \in Seq({"created", "skipped", "error"}) /\ Len(report[r]) = g - 1
      /\ report'[r] = Append(report[r], status)
  BY DEF NextGroup, Goto, TypeOK
<1>2. OwnRows(r)'
  BY <1>1 DEF OwnRows
<1>3. Behind(r)'
  BY <1>1 DEF Behind
<1>4. ASSUME NEW h \in 1..g
      PROVE  /\ report'[r][h] = "created" => \A i \in DOMAIN call'[r].groups[h].steps : Done(r, h, i)'
             /\ report'[r][h] # "created" => \A x \in own'[r] : x.group # h
             /\ report'[r][h] = "skipped" => Had(r, h, call[r].groups[h].sku)'
  <2>1. CASE h = g
    <3>1. report'[r][g] = status
      BY <1>1
    <3> QED
      BY <2>1, <3>1
  <2>2. CASE h # g
    <3>1. h \in 1..(group[r] - 1) /\ h < g /\ \A x \in own[r] : x.group \in Nat
      BY <2>2 DEF TypeOK, RowType
    <3>2. report'[r][h] = report[r][h]
      BY <1>1, <3>1
    <3>3. /\ \A x \in own[r] : x.group <= h => x \in own'[r]
          /\ \A x \in own'[r] : x.group = h => x \in own[r]
      BY <3>1
    <3> QED
      BY <3>1, <3>2, <3>3, AnswersStay
  <2> QED
    BY <2>1, <2>2
<1>5. Answers(r)'
  <2> SUFFICES ASSUME NEW h \in 1..(group'[r] - 1)
               PROVE  /\ report'[r][h] = "created" => \A i \in DOMAIN call'[r].groups[h].steps : Done(r, h, i)'
                      /\ report'[r][h] # "created" => \A x \in own'[r] : x.group # h
                      /\ report'[r][h] = "skipped" => Had(r, h, call[r].groups[h].sku)'
    BY DEF Answers
  <2>1. h \in 1..g
    BY <1>1
  <2> QED
    BY <2>1, <1>4
<1> QED
  BY <1>2, <1>3, <1>5

\* A request goes on with its group, or ends it: the steps it has taken are done.
LEMMA ProceedKeeps ==
  ASSUME TypeOK, NEW r \in Requests, phase[r] = "step", OwnRows(r), Behind(r), Answers(r),
         call' = call, rows' = rows, NEW n \in {1, 2}, Proceed(r, n),
         NEW g \in Nat, g = group[r], NEW a \in Nat, a = at[r],
         own[r] \subseteq own'[r],
         \A x \in own'[r] : x \in own[r] \/ (x.by = r /\ x.group = g),
         n = 1 /\ a > 1 /\ call[r].groups[g].steps[a - 1].do = "resolve" => Done(r, g, a - 1)',
         n = 1 /\ call[r].groups[g].steps[a].do # "resolve" => Done(r, g, a)',
         n = 2 => /\ call[r].groups[g].steps[a].do = "resolve"
                  /\ Done(r, g, a)' /\ Done(r, g, a + 1)'
  PROVE  OwnRows(r)' /\ Behind(r)' /\ Answers(r)'
<1> DEFINE steps == call[r].groups[g].steps
<1>1. /\ g \in DOMAIN call[r].groups /\ g > 0 /\ a \in DOMAIN steps
      /\ Current(r).steps = steps
  BY DEF TypeOK, Current
<1>2. Len(steps) \in Nat /\ DOMAIN steps = 1..Len(steps)
  BY <1>1, CallShape
<1>3. ASSUME NEW i \in 1..(a + n - 1), steps[i].do = "resolve" => i + 1 < a + n
      PROVE  Done(r, g, i)'
  <2>1. CASE i < a /\ (steps[i].do = "resolve" => i + 1 < a)
    <3>1. Done(r, g, i)
      <4>1. i \in 1..(at[r] - 1)
        BY <2>1
      <4> QED
        BY <4>1, <2>1 DEF Behind, Current
    <3> QED
      BY <3>1, DoneStays
  <2>2. CASE i < a /\ steps[i].do = "resolve" /\ ~(i + 1 < a)
    <3>1. i = a - 1 /\ a > 1
      BY <2>2
    <3>2. i \in DOMAIN steps
      <4> HIDE DEF steps
      <4>1. PICK length \in Nat : DOMAIN steps = 1..length
        BY <1>2
      <4>2. a \in 1..length
        BY <1>1, <4>1
      <4> QED
        BY <3>1, <4>1, <4>2
    <3>3. steps[i + 1].do = "insert"
      BY <2>2, <3>2, <1>1, AfterResolve
    <3>4. i + 1 = a
      BY <3>1
    <3> QED
      BY <2>2, <3>1, <3>3, <3>4
  <2>3. CASE i = a
    BY <2>3, <1>3
  <2>4. CASE i > a
    <3>1. n = 2 /\ i = a + 1
      BY <2>4
    <3> QED
      BY <3>1
  <2> QED
    BY <2>1, <2>2, <2>3, <2>4
<1>4. \A x \in own'[r] : x.by = r /\ x.group \in 1..g
  BY <1>1 DEF OwnRows
<1>5. CASE a + n > Len(steps)
  <2>1. ASSUME NEW i \in DOMAIN steps PROVE Done(r, g, i)'
    <3>1. steps[i].do = "resolve" => i < Len(steps)
      BY <1>1, AfterResolve
    <3>2. i \in 1..Len(steps) /\ Len(steps) \in Nat
      BY <1>2
    <3>3. i \in 1..(a + n - 1) /\ (steps[i].do = "resolve" => i + 1 < a + n)
      <4> HIDE DEF steps
      <4>1. PICK length \in Nat : length = Len(steps)
        BY <3>2
      <4>2. i \in 1..length /\ a + n > length /\ (steps[i].do = "resolve" => i < length)
        BY <1>5, <3>1, <3>2, <4>1
      <4> QED
        BY <4>2
    <3> QED
      BY <3>3, <1>3
  <2>2. NextGroup(r, "created")
    BY <1>5, <1>1 DEF Proceed
  <2>3. /\ \A x \in own[r] : x.group < g => x \in own'[r]
        /\ \A x \in own'[r] : x.group < g => x \in own[r]
    BY DEF OwnRows
  <2> QED
    BY <2>1, <2>2, <2>3, <1>4, NextGroupKeeps
<1>6. CASE ~(a + n > Len(steps))
  <2>1. /\ at'[r] = a + n /\ phase'[r] = "step" /\ group'[r] = g /\ report' = report
    BY <1>6, <1>1 DEF Proceed, TypeOK
  <2>2. OwnRows(r)'
    BY <2>1, <1>4 DEF OwnRows
  <2>3. a + n \in Nat
    OBVIOUS
  <2>4. Behind(r)'
    BY <2>1, <2>3, <1>3, BehindNext
  <2>5. Answers(r)'
    <3> SUFFICES ASSUME NEW h \in 1..(group[r] - 1)
                 PROVE /\ report'[r][h] = "created" => \A i \in DOMAIN call'[r].groups[h].steps : Done(r, h, i)'
                       /\ report'[r][h] # "created" => \A x \in own'[r] : x.group # h
                       /\ report'[r][h] = "skipped" => Had(r, h, call[r].groups[h].sku)'
      BY <2>1 DEF Answers
    <3>1. \A x \in own'[r] : x.group = h => x \in own[r]
      OBVIOUS
    <3> QED
      BY <2>1, <3>1, AnswersStay
  <2> QED
    BY <2>2, <2>4, <2>5
<1> QED
  BY <1>5, <1>6

\* A request that fails has nothing to show, and one that is to undo its group
\* keeps what it had.
LEMMA FailKeeps ==
  ASSUME TypeOK, NEW r \in Requests, OwnRows(r), phase[r] \in {"group", "step"},
         NEW e, Fail(r, e), own' = own
  PROVE  OwnRows(r)' /\ Behind(r)' /\ Answers(r)'
<1>1. phase'[r] = "failing" /\ group' = group
  BY DEF Fail, Goto, TypeOK
<1> QED
  BY <1>1 DEF OwnRows, Behind, Answers

\* A group that is to be undone leaves what was answered before it.
LEMMA RaiseKeeps ==
  ASSUME TypeOK, NEW r \in Requests, OwnRows(r), Answers(r), phase[r] = "step",
         NEW e, RaiseApp(r, e), UNCHANGED <<rows, call, own>>
  PROVE  OwnRows(r)' /\ Behind(r)' /\ Answers(r)'
<1>1. CASE call[r].kind = "import"
  <2>1. phase'[r] = "undo" /\ UNCHANGED <<group, at, report>>
    BY <1>1 DEF RaiseApp, Goto, TypeOK
  <2>2. OwnRows(r)' /\ Behind(r)'
    BY <2>1 DEF OwnRows, Behind
  <2>3. Answers(r)'
    <3> SUFFICES ASSUME NEW h \in 1..(group[r] - 1)
                 PROVE /\ report'[r][h] = "created" => \A i \in DOMAIN call'[r].groups[h].steps : Done(r, h, i)'
                       /\ report'[r][h] # "created" => \A x \in own'[r] : x.group # h
                       /\ report'[r][h] = "skipped" => Had(r, h, call[r].groups[h].sku)'
      BY <2>1 DEF Answers
    <3> QED
      BY <2>1, AnswersStay
  <2> QED
    BY <2>2, <2>3
<1>2. CASE call[r].kind # "import"
  BY <1>2, FailKeeps DEF RaiseApp
<1> QED
  BY <1>1, <1>2

\* A request that has not ended takes a step without committing rows: what
\* remains to be shown is about itself and about who holds which key.
LEMMA LocalStep ==
  ASSUME IInv, TypeOK', NEW r \in Requests, phase[r] \notin Ended, phase'[r] # "committed",
         UNCHANGED <<rows, call>>, Exclusive', OwnRows(r)', Behind(r)', Answers(r)',
         \A s \in Requests \ {r} :
           /\ own'[s] = own[s] /\ phase'[s] = phase[s] /\ group'[s] = group[s]
           /\ at'[s] = at[s] /\ report'[s] = report[s]
  PROVE  IInv'
<1>1. OneRowPerKey'
  BY DEF IInv, OneRowPerKey
<1>2. Committed'
  <2> SUFFICES ASSUME NEW x \in rows, x.by # "seed"
               PROVE /\ phase'[x.by] = "committed" /\ x.group \in DOMAIN report'[x.by]
                     /\ report'[x.by][x.group] = "created"
    BY DEF Committed
  <2>1. phase[x.by] = "committed" /\ x.by \in Requests
    BY DEF IInv, Committed, TypeOK, RowType
  <2>2. x.by # r
    BY <2>1 DEF Ended
  <2> QED
    BY <2>1, <2>2 DEF IInv, Committed
<1>3. ReportIsTrue'
  <2> SUFFICES ASSUME NEW s \in Requests, phase'[s] = "committed" PROVE AnswerIsTrue(s)'
    BY DEF ReportIsTrue
  <2>1. s # r /\ phase[s] = "committed" /\ report'[s] = report[s]
    OBVIOUS
  <2>2. AnswerIsTrue(s)
    BY <2>1 DEF IInv, ReportIsTrue
  <2> QED
    BY <2>1, <2>2 DEF AnswerIsTrue, Provided, RowsOf
<1>4. ASSUME NEW s \in Requests PROVE OwnRows(s)' /\ Behind(s)' /\ Answers(s)'
  <2>1. CASE s = r
    BY <2>1
  <2>2. CASE s # r
    BY <2>2, OthersKeep DEF IInv
  <2> QED
    BY <2>1, <2>2
<1> QED
  BY <1>1, <1>2, <1>3, <1>4 DEF IInv

\* Who holds which key is as before, or less is held.
LEMMA LessIsExclusive ==
  ASSUME Exclusive, rows' = rows, \A s \in Requests : own'[s] \subseteq own[s]
  PROVE  Exclusive'
BY DEF Exclusive

\* Going on and failing are steps of one request, which does not commit.
LEMMA OneMoves ==
  ASSUME TypeOK, NEW r \in Requests, phase[r] \in {"group", "step", "undo"}, NEW n, NEW e,
         NextGroup(r, e) \/ Proceed(r, n) \/ Fail(r, e) \/ RaiseApp(r, e)
  PROVE  /\ phase[r] \notin Ended /\ phase'[r] # "committed"
         /\ \A s \in Requests \ {r} : /\ phase'[s] = phase[s] /\ group'[s] = group[s]
                                     /\ at'[s] = at[s] /\ report'[s] = report[s]
BY DEF NextGroup, Proceed, Fail, RaiseApp, Goto, TypeOK, Ended
-----------------------------------------------------------------------------
\* Every step keeps the invariant

\* A group that begins, or is skipped because its SKU was found.
LEMMA BeginKeeps ==
  ASSUME IInv, TypeOK', NEW r \in Requests, Begin(r) PROVE IInv'
<1>1. TypeOK /\ OwnRows(r) /\ Answers(r) /\ phase[r] = "group" /\ UNCHANGED <<rows, call, own>>
  BY DEF IInv, Begin
<1>2. Exclusive'
  BY <1>1, LessIsExclusive DEF IInv
<1>3. PICK g \in Nat : g = group[r]
  BY <1>1 DEF TypeOK
<1>4. \A x \in own[r] : x.by = r /\ x.group \in 1..g /\ x.group < g
  BY <1>1, <1>3 DEF OwnRows
<1>5. CASE call[r].kind = "import" /\ Found(r, Current(r).sku) # {}
  <2>1. NextGroup(r, "skipped")
    BY <1>5 DEF Begin
  <2>2. Had(r, g, call[r].groups[g].sku)'
    <3>1. PICK x \in rows \union own[r] : x.key = call[r].groups[g].sku
      BY <1>5, <1>3 DEF Found, Current
    <3>2. x \in own[r] => x.group <= g
      BY <1>3, <1>4
    <3> QED
      BY <3>1, <3>2, <1>1 DEF Had
  <2>3. \A x \in own[r] : x.group # g
    BY <1>3, <1>4
  <2>4. OwnRows(r)' /\ Behind(r)' /\ Answers(r)'
    BY <2>1, <2>2, <2>3, <1>1, <1>3, <1>4, NextGroupKeeps
  <2> QED
    BY <2>1, <2>4, <1>1, <1>2, OneMoves, LocalStep
<1>6. CASE ~(call[r].kind = "import" /\ Found(r, Current(r).sku) # {})
  <2>1. /\ phase' = [phase EXCEPT ![r] = "step"] /\ UNCHANGED <<group, at, report>>
        /\ phase'[r] = "step" /\ at[r] = 1
    BY <1>6, <1>1 DEF Begin, Goto, TypeOK
  <2>2. OwnRows(r)'
    BY <2>1, <1>1, <1>3, <1>4 DEF OwnRows
  <2>3. Behind(r)'
    BY <2>1, <1>1, BehindNext
  <2>4. Answers(r)'
    <3> SUFFICES ASSUME NEW h \in 1..(group[r] - 1)
                 PROVE /\ report'[r][h] = "created" => \A i \in DOMAIN call'[r].groups[h].steps : Done(r, h, i)'
                       /\ report'[r][h] # "created" => \A x \in own'[r] : x.group # h
                       /\ report'[r][h] = "skipped" => Had(r, h, call[r].groups[h].sku)'
      BY <2>1, <1>1 DEF Answers
    <3> QED
      BY <2>1, <1>1, AnswersStay
  <2>5. phase[r] \notin Ended /\ phase'[r] # "committed"
        /\ \A s \in Requests \ {r} : phase'[s] = phase[s]
    BY <2>1, <1>1 DEF Ended, TypeOK
  <2> QED
    BY <2>1, <2>2, <2>3, <2>4, <2>5, <1>1, <1>2, LocalStep
<1> QED
  BY <1>5, <1>6

\* A look-up that goes on.
LEMMA LookupKeeps ==
  ASSUME IInv, TypeOK', NEW r \in Requests, phase[r] = "step",
         UNCHANGED <<rows, call, own>>, NEW n \in {1, 2}, Proceed(r, n),
         NEW g \in Nat, g = group[r], NEW a \in Nat, a = at[r],
         n = 1 => /\ call[r].groups[g].steps[a].do # "insert"
                  /\ call[r].groups[g].steps[a].do # "resolve" => Done(r, g, a)',
         n = 2 => /\ call[r].groups[g].steps[a].do = "resolve"
                  /\ Done(r, g, a)' /\ Done(r, g, a + 1)'
  PROVE  IInv'
<1>1. TypeOK /\ OwnRows(r) /\ Behind(r) /\ Answers(r)
  BY DEF IInv
<1>2. Exclusive'
  BY LessIsExclusive DEF IInv
<1>3. ~(n = 1 /\ a > 1 /\ call[r].groups[g].steps[a - 1].do = "resolve")
  <2> SUFFICES ASSUME n = 1, a > 1, call[r].groups[g].steps[a - 1].do = "resolve" PROVE FALSE
    OBVIOUS
  <2>1. g \in DOMAIN call[r].groups /\ a \in DOMAIN call[r].groups[g].steps
    BY <1>1 DEF TypeOK, Current
  <2>2. a - 1 \in DOMAIN call[r].groups[g].steps
    <3>1. PICK length \in Nat : DOMAIN call[r].groups[g].steps = 1..length
      BY <2>1, <1>1, CallShape
    <3>2. a \in 1..length
      BY <2>1, <3>1
    <3> QED
      BY <3>1, <3>2
  <2>3. call[r].groups[g].steps[(a - 1) + 1].do = "insert"
    BY <2>1, <2>2, <1>1, AfterResolve
  <2>4. (a - 1) + 1 = a
    OBVIOUS
  <2> QED
    BY <2>3, <2>4
<1>4. OwnRows(r)' /\ Behind(r)' /\ Answers(r)'
  BY <1>1, <1>3, ProceedKeeps
<1> QED
  BY <1>1, <1>2, <1>4, OneMoves, LocalStep

\* A key that must not be there: what was found is forgotten at once, so that
\* nothing depends on it when another request commits the key.
LEMMA AbsentKeeps ==
  ASSUME IInv, TypeOK', NEW r \in Requests, Absent(r) PROVE IInv'
<1>1. /\ TypeOK /\ OwnRows(r) /\ Behind(r) /\ Answers(r)
      /\ phase[r] = "step" /\ UNCHANGED <<rows, call, own>>
  BY DEF IInv, Absent
<1>2. Exclusive'
  BY <1>1, LessIsExclusive DEF IInv
<1>3. CASE Proceed(r, 1)
  <2>1. PICK g \in Nat, a \in Nat : g = group[r] /\ a = at[r]
    BY <1>1 DEF TypeOK
  <2>2. call[r].groups[g].steps[a].do = "absent"
    BY <2>1 DEF Absent, Step, Current
  <2>3. Done(r, g, a)'
    BY <1>1, <2>2 DEF Done
  <2> QED
    BY <1>1, <1>3, <2>1, <2>2, <2>3, LookupKeeps
<1>4. CASE RaiseApp(r, "taken")
  BY <1>1, <1>2, <1>4, RaiseKeeps, OneMoves, LocalStep
<1>5. CASE Fail(r, "several")
  BY <1>1, <1>2, <1>5, FailKeeps, OneMoves, LocalStep
<1> QED
  BY <1>3, <1>4, <1>5 DEF Absent

\* A row that must be there: rows are never removed, except its own by Undo.
LEMMA PresentKeeps ==
  ASSUME IInv, TypeOK', NEW r \in Requests, Present(r) PROVE IInv'
<1>1. /\ TypeOK /\ OwnRows(r) /\ Behind(r) /\ Answers(r)
      /\ phase[r] = "step" /\ UNCHANGED <<rows, call, own>>
  BY DEF IInv, Present
<1>2. Exclusive'
  BY <1>1, LessIsExclusive DEF IInv
<1>3. CASE Found(r, Step(r).key) # {} /\ Proceed(r, 1)
  <2>1. PICK g \in Nat, a \in Nat : g = group[r] /\ a = at[r]
    BY <1>1 DEF TypeOK
  <2>2. call[r].groups[g].steps[a].do \in {"present", "demand"}
    BY <2>1 DEF Present, Step, Current
  <2>3. PICK x \in rows \union own[r] : x.key = call[r].groups[g].steps[a].key
    BY <1>3, <2>1 DEF Found, Step, Current
  <2>4. x \in own[r] => x.group <= g
    BY <1>1, <2>1 DEF OwnRows
  <2>5. Done(r, g, a)'
    BY <1>1, <2>2, <2>3, <2>4 DEF Done, Had
  <2> QED
    BY <1>1, <1>3, <2>1, <2>2, <2>5, LookupKeeps
<1>4. CASE RaiseApp(r, "missing")
  BY <1>1, <1>2, <1>4, RaiseKeeps, OneMoves, LocalStep
<1>5. CASE Fail(r, "broken")
  BY <1>1, <1>2, <1>5, FailKeeps, OneMoves, LocalStep
<1> QED
  BY <1>3, <1>4, <1>5 DEF Present

\* A row that is used as it is, or inserted by the next step.
LEMMA ResolveKeeps ==
  ASSUME IInv, TypeOK', NEW r \in Requests, Resolve(r) PROVE IInv'
<1>1. /\ TypeOK /\ OwnRows(r) /\ phase[r] = "step" /\ UNCHANGED <<rows, call, own>>
  BY DEF IInv, Resolve
<1>2. PICK g \in Nat, a \in Nat : g = group[r] /\ a = at[r] /\ a > 0
  BY <1>1 DEF TypeOK
<1>3. call[r].groups[g].steps[a].do = "resolve"
  BY <1>2 DEF Resolve, Step, Current
<1>4. CASE Found(r, Step(r).key) # {}
  <2>1. Proceed(r, 2)
    BY <1>4 DEF Resolve
  <2>2. PICK x \in rows \union own[r] : x.key = call[r].groups[g].steps[a].key
    BY <1>4, <1>2 DEF Found, Step, Current
  <2>3. x \in own[r] => x.group <= g
    BY <1>1, <1>2 DEF OwnRows
  <2>4. Done(r, g, a)'
    BY <1>1, <1>3, <2>2, <2>3 DEF Done, Had
  <2>5. call[r].groups[g].steps[a + 1].do = "insert"
    BY <1>1, <1>2, <1>3, AfterResolve DEF TypeOK, Current
  <2>6. Done(r, g, a + 1)'
    <3>1. a + 1 > 1 /\ (a + 1) - 1 = a
      BY <1>2
    <3> QED
      BY <1>1, <1>3, <2>5, <3>1 DEF Done
  <2> QED
    BY <1>1, <1>2, <1>3, <2>1, <2>4, <2>6, LookupKeeps
<1>5. CASE Found(r, Step(r).key) = {}
  <2>1. Proceed(r, 1)
    BY <1>5 DEF Resolve
  <2> QED
    BY <1>1, <1>2, <1>3, <2>1, LookupKeeps
<1> QED
  BY <1>4, <1>5

\* A failed check of the data ends the group or the request.
LEMMA RejectKeeps ==
  ASSUME IInv, TypeOK', NEW r \in Requests, Reject(r) PROVE IInv'
<1>1. /\ TypeOK /\ OwnRows(r) /\ Behind(r) /\ Answers(r)
      /\ phase[r] = "step" /\ UNCHANGED <<rows, call, own>>
  BY DEF IInv, Reject
<1>2. Exclusive'
  BY <1>1, LessIsExclusive DEF IInv
<1>3. CASE RaiseApp(r, "invalid")
  BY <1>1, <1>2, <1>3, RaiseKeeps, OneMoves, LocalStep
<1>4. CASE Fail(r, "broken")
  BY <1>1, <1>2, <1>4, FailKeeps, OneMoves, LocalStep
<1> QED
  BY <1>3, <1>4 DEF Reject

\* The transaction that inserts a constrained key is alone with it: the others
\* that hold it would have made it wait.
LEMMA InsertIsExclusive ==
  ASSUME TypeOK, Exclusive, NEW r \in Requests, phase[r] = "step", Step(r).do = "insert",
         rows' = rows, NEW x, x.key = Step(r).key, own' = [own EXCEPT ![r] = own[r] \union {x}],
         Holders(r) = {}, x.key.table \notin Constrained \/ Found(r, x.key) = {}
  PROVE  Exclusive'
<1>1. /\ own'[r] = own[r] \union {x}
      /\ \A s \in Requests \ {r} : own'[s] = own[s]
  BY DEF TypeOK
<1>2. ASSUME x.key.table \in Constrained
      PROVE  /\ \A y \in rows : y.key # x.key
             /\ \A s \in Requests : \A y \in own[s] : y.key # x.key
  BY <1>2 DEF Found, Holders
<1> SUFFICES ASSUME NEW s \in Requests, NEW y \in own'[s], y.key.table \in Constrained
             PROVE  /\ \A z \in rows' : z.key # y.key
                    /\ \A q \in Requests : \A z \in own'[q] : z.key = y.key => z = y
  BY DEF Exclusive
<1>3. CASE s = r /\ y = x
  BY <1>1, <1>2, <1>3
<1>4. CASE y \in own[s]
  <2>1. \A z \in rows' : z.key # y.key
    BY <1>4 DEF Exclusive
  <2>2. ASSUME NEW q \in Requests, NEW z \in own'[q], z.key = y.key PROVE z = y
    <3>1. CASE z \in own[q]
      BY <1>4, <2>2, <3>1 DEF Exclusive
    <3>2. CASE z = x
      BY <1>2, <1>4, <2>2, <3>2
    <3> QED
      BY <1>1, <3>1, <3>2
  <2> QED
    BY <2>1, <2>2
<1> QED
  BY <1>1, <1>3, <1>4

\* An insert that succeeds does so alone with its key, and makes up for a
\* resolve that found nothing.
LEMMA InsertKeeps ==
  ASSUME IInv, TypeOK', NEW r \in Requests, Insert(r) PROVE IInv'
<1>1. /\ TypeOK /\ Exclusive /\ OwnRows(r) /\ Behind(r) /\ Answers(r)
      /\ phase[r] = "step" /\ Step(r).do = "insert" /\ Holders(r) = {} /\ UNCHANGED <<rows, call>>
  BY DEF IInv, Insert
<1>2. PICK g \in Nat, a \in Nat : g = group[r] /\ a = at[r] /\ a > 0
  BY <1>1 DEF TypeOK
<1>3. call[r].groups[g].steps[a].do = "insert"
  BY <1>1, <1>2 DEF Step, Current
<1>4. CASE Fail(r, "duplicate") /\ UNCHANGED own
  <2>1. Exclusive'
    BY <1>1, <1>4, LessIsExclusive
  <2> QED
    BY <1>1, <1>4, <2>1, FailKeeps, OneMoves, LocalStep
<1>5. CASE ~(Fail(r, "duplicate") /\ UNCHANGED own)
  <2>1. PICK x : x = [key |-> Step(r).key, by |-> r, group |-> g]
    OBVIOUS
  <2>2. /\ own' = [own EXCEPT ![r] = own[r] \union {x}] /\ Proceed(r, 1)
        /\ x.key.table \notin Constrained \/ Found(r, x.key) = {}
    BY <1>2, <1>5, <2>1 DEF Insert
  <2>3. own'[r] = own[r] \union {x} /\ \A s \in Requests \ {r} : own'[s] = own[s]
    BY <1>1, <2>2 DEF TypeOK
  <2>4. Exclusive'
    <3>1. x.key = Step(r).key
      BY <2>1
    <3> QED
      BY <1>1, <2>2, <3>1, InsertIsExclusive
  <2>5. x = [key |-> call[r].groups[g].steps[a].key, by |-> r, group |-> g]
    BY <1>2, <2>1 DEF Step, Current
  <2>6. Done(r, g, a)'
    BY <1>1, <1>3, <2>3, <2>5 DEF Done
  <2>7. ASSUME a > 1, call[r].groups[g].steps[a - 1].do = "resolve"
        PROVE  Done(r, g, a - 1)'
    <3>1. g \in DOMAIN call[r].groups /\ a \in DOMAIN call[r].groups[g].steps
      BY <1>1, <1>2 DEF TypeOK, Current
    <3>2. a - 1 \in DOMAIN call[r].groups[g].steps
      <4>1. PICK length \in Nat : DOMAIN call[r].groups[g].steps = 1..length
        BY <1>1, <3>1, CallShape
      <4>2. a \in 1..length
        BY <3>1, <4>1
      <4> QED
        BY <2>7, <4>1, <4>2
    <3>3. call[r].groups[g].steps[(a - 1) + 1].key = call[r].groups[g].steps[a - 1].key
      BY <1>1, <2>7, <3>1, <3>2, AfterResolve
    <3>4. (a - 1) + 1 = a
      OBVIOUS
    <3>5. x \in own'[r] /\ x.key = call[r].groups[g].steps[a - 1].key /\ x.group <= g
      BY <2>3, <2>5, <3>3, <3>4
    <3> QED
      BY <1>1, <2>7, <3>5 DEF Done, Had
  <2>8. \A y \in own'[r] : y \in own[r] \/ (y.by = r /\ y.group = g)
    BY <2>1, <2>3
  <2>9. OwnRows(r)' /\ Behind(r)' /\ Answers(r)'
    BY <1>1, <1>2, <1>3, <2>2, <2>3, <2>6, <2>7, <2>8, ProceedKeeps
  <2> QED
    BY <1>1, <2>2, <2>3, <2>4, <2>9, OneMoves, LocalStep
<1> QED
  BY <1>4, <1>5

\* ROLLBACK TO SAVEPOINT takes the rows of the group, and of no other.
LEMMA UndoKeeps ==
  ASSUME IInv, TypeOK', NEW r \in Requests, Undo(r) PROVE IInv'
<1>1. /\ TypeOK /\ Exclusive /\ OwnRows(r) /\ Answers(r) /\ NextGroup(r, "error")
      /\ phase[r] = "undo" /\ UNCHANGED <<rows, call>>
  BY DEF IInv, Undo
<1>2. PICK g \in Nat : g = group[r]
  BY <1>1 DEF TypeOK
<1>3. /\ own'[r] = {x \in own[r] : x.group # g}
      /\ \A s \in Requests \ {r} : own'[s] = own[s]
  BY <1>1, <1>2 DEF Undo, TypeOK
<1>4. Exclusive'
  <2>1. \A s \in Requests : own'[s] \subseteq own[s]
    BY <1>3
  <2> QED
    BY <1>1, <2>1, LessIsExclusive
<1>5. /\ \A x \in own[r] : x.group < g => x \in own'[r]
      /\ \A x \in own'[r] : x.group < g => x \in own[r]
      /\ \A x \in own'[r] : x.by = r /\ x.group \in 1..g
      /\ \A x \in own'[r] : x.group # g
  BY <1>1, <1>2, <1>3 DEF OwnRows
<1>6. OwnRows(r)' /\ Behind(r)' /\ Answers(r)'
  BY <1>1, <1>2, <1>5, NextGroupKeeps
<1> QED
  BY <1>1, <1>3, <1>4, <1>6, OneMoves, LocalStep

\* A request that is rolled back, or that is about to be, has nothing to show.
LEMMA EndKeeps ==
  ASSUME IInv, TypeOK', NEW r \in Requests, Rollback(r) \/ Deadlock(r) \/ Disconnect(r)
  PROVE  IInv'
<1>1. TypeOK /\ Exclusive /\ OwnRows(r) /\ UNCHANGED <<rows, call, group, at, report>>
  BY DEF IInv, Rollback, Deadlock, Disconnect, Fail
<1>2. phase[r] \notin Ended /\ phase'[r] \in {"failing", "failed"}
  <2>1. CASE Rollback(r) \/ Disconnect(r)
    BY <1>1, <2>1 DEF Rollback, Disconnect, Goto, Ended, TypeOK
  <2>2. CASE Deadlock(r)
    <3>1. phase[r] = "step" /\ Fail(r, "deadlock")
      BY <2>2 DEF Deadlock, WaitCycle, Holders
    <3> QED
      BY <1>1, <3>1 DEF Fail, Goto, Ended, TypeOK
  <2> QED
    BY <2>1, <2>2
<1>3. /\ own'[r] \subseteq own[r]
      /\ \A s \in Requests \ {r} : own'[s] = own[s] /\ phase'[s] = phase[s]
  BY <1>1 DEF Rollback, Deadlock, Disconnect, Fail, Goto, TypeOK
<1>4. OwnRows(r)' /\ Behind(r)' /\ Answers(r)'
  BY <1>1, <1>2, <1>3 DEF OwnRows, Behind, Answers
<1>5. Exclusive'
  <2>1. \A s \in Requests : own'[s] \subseteq own[s]
    BY <1>3
  <2> QED
    BY <1>1, <2>1, LessIsExclusive
<1> QED
  BY <1>1, <1>2, <1>3, <1>4, <1>5, LocalStep

\* What the transaction has done is there once its rows are committed.
LEMMA DoneIsProvided ==
  ASSUME NEW r \in Requests, NEW g, NEW i, Done(r, g, i),
         call' = call, rows' = rows \union own[r]
  PROVE  Provided(r, g, i)'
BY DEF Done, Had, Provided

\* What the commit shows is what was done and reported.
LEMMA CommitKeeps ==
  ASSUME IInv, TypeOK', NEW r \in Requests, Commit(r) PROVE IInv'
<1>1. /\ TypeOK /\ Exclusive /\ OneRowPerKey /\ Committed /\ ReportIsTrue
      /\ OwnRows(r) /\ Answers(r) /\ phase[r] = "group" /\ UNCHANGED <<call, group, at, report>>
      /\ rows' = rows \union own[r]
  BY DEF IInv, Commit
<1>2. /\ phase'[r] = "committed" /\ own'[r] = {}
      /\ \A s \in Requests \ {r} : phase'[s] = phase[s] /\ own'[s] = own[s]
  BY <1>1 DEF Commit, Goto, TypeOK
<1>3. PICK g \in Nat : g = group[r] /\ g > 0
  BY <1>1 DEF TypeOK
<1>4. DOMAIN report[r] = 1..(g - 1)
  BY <1>1, <1>3 DEF TypeOK
<1>5. \A x \in own[r] : x.by = r /\ x.group \in DOMAIN report[r]
  BY <1>1, <1>3, <1>4 DEF OwnRows
<1>6. \A x \in rows : x.by # r
  BY <1>1, UniqueRowsAssumption DEF Committed
<1>7. OneRowPerKey'
  BY <1>1 DEF OneRowPerKey, Exclusive, Identified, Constrained
<1>8. Exclusive'
  <2> SUFFICES ASSUME NEW s \in Requests, NEW x \in own'[s], x.key.table \in Constrained
               PROVE  /\ \A y \in rows' : y.key # x.key
                      /\ \A q \in Requests : \A y \in own'[q] : y.key = x.key => y = x
    BY DEF Exclusive
  <2>1. s # r /\ x \in own[s]
    BY <1>2
  <2>2. x.by = s
    BY <2>1 DEF IInv, OwnRows
  <2>3. \A y \in own[r] : y.key # x.key
    BY <1>1, <1>5, <2>1, <2>2 DEF Exclusive
  <2>4. \A y \in rows : y.key # x.key
    BY <1>1, <2>1 DEF Exclusive
  <2>5. \A q \in Requests : \A y \in own'[q] : y.key = x.key => y = x
    BY <1>1, <1>2, <2>1 DEF Exclusive
  <2> QED
    BY <1>1, <2>3, <2>4, <2>5
<1>9. Committed'
  <2> SUFFICES ASSUME NEW x \in rows', x.by # "seed"
               PROVE  /\ phase'[x.by] = "committed" /\ x.group \in DOMAIN report'[x.by]
                      /\ report'[x.by][x.group] = "created"
    BY DEF Committed
  <2>1. CASE x \in rows
    <3>1. x.by \in Requests \ {r}
      BY <1>1, <1>6, <2>1 DEF TypeOK, RowType
    <3> QED
      BY <1>1, <1>2, <2>1, <3>1 DEF Committed
  <2>2. CASE x \in own[r]
    <3>1. x.by = r /\ x.group \in 1..(group[r] - 1)
      BY <1>3, <1>4, <1>5, <2>2
    <3>2. report[r][x.group] = "created"
      BY <1>1, <2>2, <3>1 DEF Answers
    <3> QED
      BY <1>1, <1>2, <1>5, <2>2, <3>1, <3>2
  <2> QED
    BY <1>1, <2>1, <2>2
<1>10. AnswerIsTrue(r)'
  <2> SUFFICES ASSUME NEW h \in DOMAIN report'[r]
               PROVE  /\ report'[r][h] = "created" => \A i \in DOMAIN call'[r].groups[h].steps : Provided(r, h, i)'
                      /\ report'[r][h] # "created" => RowsOf(r, h)' = {}
                      /\ report'[r][h] = "skipped" => \E x \in rows' : x.key = call'[r].groups[h].sku
    BY DEF AnswerIsTrue
  <2>1. h \in 1..(group[r] - 1)
    BY <1>1, <1>3, <1>4
  <2>2. ASSUME report[r][h] = "created", NEW i \in DOMAIN call[r].groups[h].steps
        PROVE  Provided(r, h, i)'
    <3>1. Done(r, h, i)
      BY <1>1, <2>1, <2>2 DEF Answers
    <3> QED
      BY <1>1, <3>1, DoneIsProvided
  <2>3. report[r][h] # "created" => RowsOf(r, h)' = {}
    BY <1>1, <1>6, <2>1 DEF Answers, RowsOf
  <2>4. ASSUME report[r][h] = "skipped"
        PROVE  \E x \in rows' : x.key = call[r].groups[h].sku
    <3>1. PICK key : key = call[r].groups[h].sku
      OBVIOUS
    <3>2. Had(r, h, key)
      BY <1>1, <2>1, <2>4, <3>1 DEF Answers
    <3> QED
      BY <1>1, <3>1, <3>2 DEF Had
  <2> QED
    BY <1>1, <2>2, <2>3, <2>4
<1>11. ReportIsTrue'
  <2> SUFFICES ASSUME NEW s \in Requests, phase'[s] = "committed" PROVE AnswerIsTrue(s)'
    BY DEF ReportIsTrue
  <2>1. CASE s = r
    BY <1>10, <2>1
  <2>2. CASE s # r
    <3>1. AnswerIsTrue(s)
      BY <1>1, <1>2, <2>2 DEF ReportIsTrue
    <3>2. ASSUME NEW h, NEW i, Provided(s, h, i) PROVE Provided(s, h, i)'
      BY <1>1, <3>2 DEF Provided
    <3>3. ASSUME NEW h PROVE RowsOf(s, h)' = RowsOf(s, h)
      BY <1>1, <1>5, <2>2 DEF RowsOf
    <3> QED
      BY <1>1, <3>1, <3>2, <3>3 DEF AnswerIsTrue
  <2> QED
    BY <2>1, <2>2
<1>12. ASSUME NEW s \in Requests PROVE OwnRows(s)' /\ Behind(s)' /\ Answers(s)'
  <2>1. CASE s = r
    BY <1>2, <2>1 DEF OwnRows, Behind, Answers
  <2>2. CASE s # r
    BY <1>1, <1>2, <2>2, OthersKeep DEF IInv
  <2> QED
    BY <2>1, <2>2
<1> QED
  BY <1>7, <1>8, <1>9, <1>11, <1>12 DEF IInv
-----------------------------------------------------------------------------
\* The invariant holds in the beginning.
LEMMA InvInit == Init => IInv
<1> SUFFICES ASSUME Init PROVE IInv
  OBVIOUS
<1>1. TypeOK
  BY TypeInit
<1>2. OneRowPerKey
  BY UniqueRowsAssumption DEF Init, OneRowPerKey, Identified, Constrained
<1>3. Committed
  BY UniqueRowsAssumption DEF Init, Committed
<1>4. Exclusive /\ ReportIsTrue
  BY DEF Init, Exclusive, ReportIsTrue
<1>5. ASSUME NEW r \in Requests PROVE OwnRows(r) /\ Behind(r) /\ Answers(r)
  BY DEF Init, OwnRows, Behind, Answers
<1> QED
  BY <1>1, <1>2, <1>3, <1>4, <1>5 DEF IInv

\* Every step keeps the invariant.
LEMMA InvNext == IInv /\ [Next]_vars => IInv'
<1> SUFFICES ASSUME IInv, [Next]_vars PROVE IInv'
  OBVIOUS
<1>1. TypeOK'
  BY TypeNext DEF IInv
<1>2. ASSUME NEW r \in Requests, Advance(r) PROVE IInv'
  BY <1>1, <1>2, BeginKeeps, AbsentKeeps, PresentKeeps, ResolveKeeps, RejectKeeps,
     InsertKeeps, UndoKeeps, CommitKeeps, EndKeeps DEF Advance
<1>3. ASSUME NEW r \in Requests, Deadlock(r) \/ Disconnect(r) PROVE IInv'
  BY <1>1, <1>3, EndKeeps
<1>4. CASE UNCHANGED vars
  <2>1. UNCHANGED <<rows, call, phase, group, at, own, report>>
    BY <1>4 DEF vars
  <2>2. OneRowPerKey' /\ Exclusive' /\ Committed'
    BY <2>1 DEF IInv, OneRowPerKey, Exclusive, Committed
  <2>3. ASSUME NEW r \in Requests, AnswerIsTrue(r) PROVE AnswerIsTrue(r)'
    BY <2>1, <2>3 DEF AnswerIsTrue, Provided, RowsOf
  <2>4. ReportIsTrue'
    BY <2>1, <2>3 DEF IInv, ReportIsTrue
  <2>5. ASSUME NEW r \in Requests PROVE OwnRows(r)' /\ Behind(r)' /\ Answers(r)'
    BY <2>1, OthersKeep DEF IInv
  <2> QED
    BY <1>1, <2>2, <2>4, <2>5 DEF IInv
<1> QED
  BY <1>2, <1>3, <1>4 DEF Next, Rest

\* What is true of the requests and the rows at any time: whoever inserted a
\* constrained key is alone with it until it ends, and the report it prepares
\* is true of the rows it will commit.
THEOREM CreateInvariance == Spec => []IInv
BY InvInit, InvNext, PTL DEF Spec

\* No name, SKU, barcode or e-mail address is committed twice, although each
\* request looks it up before it inserts it (ProductService.create).
THEOREM OneRowForEachKey == Spec => []OneRowPerKey
<1>1. IInv => OneRowPerKey
  BY DEF IInv
<1> QED
  BY <1>1, CreateInvariance, PTL

\* No product is there without its variants, unit, category or brand, and no
\* company without its branch, warehouse and owner.
THEOREM NothingInPart == Spec => []GroupsAreWhole
<1>1. IInv => GroupsAreWhole
  <2> SUFFICES ASSUME IInv, NEW x \in rows, x.by # "seed",
                      NEW i \in DOMAIN call[x.by].groups[x.group].steps
               PROVE  Provided(x.by, x.group, i)
    BY DEF GroupsAreWhole
  <2>1. x.by \in Requests /\ phase[x.by] = "committed" /\ x.group \in DOMAIN report[x.by]
        /\ report[x.by][x.group] = "created"
    BY DEF IInv, Committed, TypeOK, RowType
  <2> QED
    BY <2>1 DEF IInv, ReportIsTrue, AnswerIsTrue
<1> QED
  BY <1>1, CreateInvariance, PTL

\* What an import answers about each product of its file is true
\* (import_company_products).
THEOREM AnswersAreTrue == Spec => []ReportIsTrue
<1>1. IInv => ReportIsTrue
  BY DEF IInv
<1> QED
  BY <1>1, CreateInvariance, PTL

\* A request that failed, or is still open, has created nothing
\* (get_db_session).
THEOREM NothingFromFailed == Spec => []FailedLeavesNothing
<1>1. IInv => FailedLeavesNothing
  BY DEF IInv, Committed, FailedLeavesNothing
<1> QED
  BY <1>1, CreateInvariance, PTL
=============================================================================
