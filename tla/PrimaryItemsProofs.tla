------------------------- MODULE PrimaryItemsProofs -------------------------
(***************************************************************************)
(* Proofs about PrimaryItems, for any number of requests, items and        *)
(* owners: type correctness, that a primary item gives way only to another *)
(* of its owner, that two primary items of one owner come of requests that *)
(* overlapped, and that requests never wait for each other in a circle.    *)
(***************************************************************************)
EXTENDS PrimaryItems, FiniteFacts, TLAPS

\* The items that are there are those given and those of the requests that
\* have committed, each with an owner that exists.
ItemsTraced ==
  /\ \A x \in Items : item[x] # Absent => item[x].owner \in Owners
  /\ \A x \in Given : item[x] # Absent
  /\ \A r \in Requests : item[r] # Absent <=> phase[r] = "committed"

\* A request is about an owner that exists; what it has listed and locked is
\* that owner's, and it lists only to add a primary item.
Reach(r) ==
  /\ phase[r] \notin {"idle", "refused"} => call[r].owner \in Owners
  /\ phase[r] \in {"list", "demote"} => call[r].primary
  /\ phase[r] = "insert" => ~call[r].primary
  /\ holds[r] # {} => call[r].primary
  /\ \A x \in saw[r] \union holds[r] : item[x].owner = call[r].owner
  /\ \A s \in before[r] : phase[s] = "committed"

\* No primary item that was there when the request listed them is missed.
Covered(r) ==
  call[r].primary /\ phase[r] \in {"demote", "inserted"} =>
    \A x \in Given \union before[r] :
      item[x].primary /\ item[x].owner = call[r].owner => x \in saw[r] \union holds[r]

\* The inductive invariant.
ItemsInv ==
  /\ TypeOK /\ ItemsTraced /\ TwoPrimariesOverlapped
  /\ \A r \in Requests : Reach(r) /\ Covered(r)

-----------------------------------------------------------------------------
\* The rows that are there in the beginning are of their types.
LEMMA InvInit == Init => ItemsInv
<1> SUFFICES ASSUME Init PROVE ItemsInv
  OBVIOUS
<1> USE ItemsAssumption DEF Init
<1>1. Absent \in ItemType /\ Absent.owner = "absent" /\ ~Absent.primary
  BY DEF Absent, ItemType, Codes
<1>2. \A x \in Given : GivenItems[x] \in ItemType /\ GivenItems[x].owner \in Owners
                       /\ GivenItems[x] # Absent
  BY <1>1 DEF ItemType
<1>3. item \in [Items -> ItemType]
  BY <1>1, <1>2
<1>4. (CHOOSE c \in Calls : TRUE) \in Calls
  OBVIOUS
<1>5. TypeOK
  BY <1>3, <1>4 DEF TypeOK
<1>6. ItemsTraced
  BY <1>1, <1>2 DEF ItemsTraced, Items
<1>7. TwoPrimariesOverlapped
  <2>1. \A r \in Requests : ~item[r].primary
    BY <1>1 DEF Items
  <2>2. QED
    BY <2>1 DEF TwoPrimariesOverlapped
<1>8. ASSUME NEW r \in Requests PROVE Reach(r) /\ Covered(r)
  BY DEF Reach, Covered
<1>9. QED
  BY <1>5, <1>6, <1>7, <1>8 DEF ItemsInv

\* The steps of a request that change nothing that others can see.
Local(r) ==
  \/ \E c \in Calls : FetchOwner(r, c)
  \/ LookUpCode(r) \/ ListItems(r) \/ Demote(r) \/ Insert(r) \/ Lose(r)

\* What such a step makes of the request: nothing others hold, nothing less
\* than it is to cover.
LEMMA LocalFacts ==
  ASSUME ItemsInv, NEW r \in Requests, Local(r)
  PROVE  /\ TypeOK' /\ item' = item /\ Reach(r)' /\ Covered(r)'
         /\ phase[r] # "committed" /\ phase'[r] # "committed"
         /\ \A s \in Requests \ {r} :
              /\ phase'[s] = phase[s] /\ call'[s] = call[s] /\ saw'[s] = saw[s]
              /\ holds'[s] = holds[s] /\ before'[s] = before[s]
<1> USE DEF ItemsInv, Goto
<1>1. TypeOK /\ Reach(r) /\ Covered(r)
  OBVIOUS
<1>2. ASSUME NEW c \in Calls, FetchOwner(r, c)
      PROVE  TypeOK' /\ Reach(r)' /\ Covered(r)'
  <2>1. /\ phase[r] = "idle" /\ call'[r] = c /\ UNCHANGED <<item, saw, holds, before>>
        /\ phase'[r] \in {"refused", "look_up", "list", "insert"}
        /\ phase'[r] # "refused" => c.owner \in Owners
        /\ phase'[r] = "list" => c.primary
        /\ phase'[r] = "insert" => ~c.primary
    BY <1>1, <1>2, ItemsAssumption DEF FetchOwner, FirstWrite, TypeOK
  <2>2. saw[r] = {} /\ holds[r] = {}
    BY <1>1, <2>1 DEF TypeOK
  <2>3. TypeOK'
    <3>1. phase' = [phase EXCEPT ![r] = phase'[r]] /\ call' = [call EXCEPT ![r] = c]
      BY <1>1, <1>2 DEF FetchOwner, TypeOK
    <3>2. QED
      BY <1>1, <2>1, <2>2, <3>1 DEF TypeOK, Committed
  <2>4. \A s \in before[r] : phase'[s] = "committed"
    BY <1>1, <1>2, <2>1 DEF Reach, TypeOK, FetchOwner
  <2>5. QED
    BY <2>1, <2>2, <2>3, <2>4 DEF Reach, Covered
<1>3. ASSUME LookUpCode(r)
      PROVE  TypeOK' /\ Reach(r)' /\ Covered(r)'
  <2>1. /\ phase[r] = "look_up" /\ UNCHANGED <<item, call, saw, holds, before>>
        /\ phase'[r] \in {"refused", "list", "insert"}
        /\ phase'[r] = "list" => call[r].primary
        /\ phase'[r] = "insert" => ~call[r].primary
        /\ phase' = [phase EXCEPT ![r] = phase'[r]]
    BY <1>1, <1>3 DEF LookUpCode, FirstWrite, TypeOK
  <2>2. saw[r] = {} /\ holds[r] = {}
    BY <1>1, <2>1 DEF TypeOK
  <2>3. TypeOK'
    BY <1>1, <2>1, <2>2 DEF TypeOK, Committed
  <2>4. \A s \in before[r] : phase'[s] = "committed"
    BY <1>1, <2>1 DEF Reach, TypeOK
  <2>5. QED
    BY <1>1, <2>1, <2>2, <2>3, <2>4 DEF Reach, Covered
<1>4. ASSUME ListItems(r)
      PROVE  TypeOK' /\ Reach(r)' /\ Covered(r)'
  <2>1. /\ phase[r] = "list" /\ UNCHANGED <<item, call, holds>>
        /\ saw'[r] = PrimaryOf(call[r].owner) /\ before'[r] = Added
        /\ phase'[r] = "demote"
    BY <1>1, <1>4 DEF ListItems, ToDemote, TypeOK
  <2>2. holds[r] = {} /\ call[r].primary /\ call[r].owner \in Owners
    BY <1>1, <2>1 DEF TypeOK, Reach
  <2>3. PrimaryOf(call[r].owner) \subseteq Committed /\ Committed \subseteq Items
    BY DEF PrimaryOf, Committed
  <2>4. TypeOK'
    BY <1>1, <1>4, <2>1, <2>2, <2>3 DEF TypeOK, Committed, ListItems, ToDemote, Added
  <2>5. \A s \in before'[r] : s \in Requests /\ s # r /\ phase[s] = "committed" /\ phase'[s] = "committed"
    BY <1>1, <1>4, <2>1 DEF Added, ListItems, TypeOK
  <2>6. Reach(r)'
    BY <2>1, <2>2, <2>5 DEF Reach, PrimaryOf
  <2>7. \A x \in Given \union before'[r] : x \in Committed
    BY <2>5 DEF ItemsTraced, Committed, Items
  <2>8. Covered(r)'
    BY <2>1, <2>7 DEF Covered, PrimaryOf
  <2>9. QED
    BY <2>4, <2>6, <2>8
<1>5. ASSUME Demote(r)
      PROVE  TypeOK' /\ Reach(r)' /\ Covered(r)'
  <2>1. PICK x \in saw[r] : /\ \A s \in Requests \ {r} : x \notin holds[s]
                            /\ holds' = [holds EXCEPT ![r] = @ \union {x}]
                            /\ saw' = [saw EXCEPT ![r] = @ \ {x}]
    BY <1>5 DEF Demote
  <2>2. phase[r] = "demote" /\ UNCHANGED <<item, phase, call, before>>
    BY <1>5 DEF Demote
  <2>3. saw'[r] = saw[r] \ {x} /\ holds'[r] = holds[r] \union {x}
    BY <1>1, <2>1 DEF TypeOK
  <2>4. TypeOK'
    BY <1>1, <2>1, <2>2, <2>3 DEF TypeOK, Committed
  <2>5. QED
    BY <1>1, <2>2, <2>3, <2>4 DEF Reach, Covered
<1>6. ASSUME Insert(r)
      PROVE  TypeOK' /\ Reach(r)' /\ Covered(r)'
  <2>1. /\ phase[r] \in {"insert", "demote"} /\ UNCHANGED <<item, call, saw, before>>
        /\ phase[r] = "demote" => saw[r] = {}
        /\ \/ phase'[r] = "refused" /\ holds' = [holds EXCEPT ![r] = {}]
           \/ phase'[r] = "inserted" /\ holds' = holds
        /\ phase' = [phase EXCEPT ![r] = phase'[r]]
    BY <1>1, <1>6 DEF Insert, TypeOK
  <2>2. saw[r] = {} /\ (phase[r] = "insert" => holds[r] = {})
    BY <1>1, <2>1 DEF TypeOK
  <2>3. TypeOK'
    BY <1>1, <2>1, <2>2 DEF TypeOK, Committed
  <2>4. \A s \in before[r] : phase'[s] = "committed"
    BY <1>1, <2>1 DEF Reach, TypeOK
  <2>5. holds'[r] \in {{}, holds[r]} /\ (phase'[r] = "inserted" => holds'[r] = holds[r])
    BY <1>1, <2>1 DEF TypeOK
  <2>6. Reach(r)'
    BY <1>1, <2>1, <2>2, <2>4, <2>5 DEF Reach
  <2>7. Covered(r)'
    <3>1. phase[r] = "insert" => ~call[r].primary
      BY <1>1 DEF Reach
    <3>2. QED
      BY <1>1, <2>1, <2>5, <3>1 DEF Covered
  <2>8. QED
    BY <2>3, <2>6, <2>7
<1>7. ASSUME Lose(r)
      PROVE  TypeOK' /\ Reach(r)' /\ Covered(r)'
  <2>1. /\ UNCHANGED <<item, call, before>> /\ phase[r] # "committed"
        /\ phase' = [phase EXCEPT ![r] = "refused"]
        /\ holds' = [holds EXCEPT ![r] = {}] /\ saw' = [saw EXCEPT ![r] = {}]
    BY <1>7 DEF Lose
  <2>2. phase'[r] = "refused" /\ holds'[r] = {} /\ saw'[r] = {}
    BY <1>1, <2>1 DEF TypeOK
  <2>3. TypeOK'
    BY <1>1, <2>1, <2>2 DEF TypeOK, Committed
  <2>4. \A s \in before[r] : phase'[s] = "committed"
    BY <1>1, <2>1 DEF Reach, TypeOK
  <2>5. QED
    BY <2>1, <2>2, <2>3, <2>4 DEF Reach, Covered
<1>8. TypeOK' /\ Reach(r)' /\ Covered(r)'
  BY <1>2, <1>3, <1>4, <1>5, <1>6, <1>7 DEF Local
<1>9. item' = item /\ phase[r] # "committed" /\ phase'[r] # "committed"
  BY <1>1 DEF Local, FetchOwner, LookUpCode, ListItems, Demote, Insert, Lose, FirstWrite, TypeOK
<1>10. \A s \in Requests \ {r} :
         /\ phase'[s] = phase[s] /\ call'[s] = call[s] /\ saw'[s] = saw[s]
         /\ holds'[s] = holds[s] /\ before'[s] = before[s]
  BY <1>1 DEF Local, FetchOwner, LookUpCode, ListItems, Demote, Insert, Lose, TypeOK
<1>11. QED
  BY <1>8, <1>9, <1>10

\* A step that others cannot see keeps the invariant.
LEMMA LocalStep ==
  ASSUME ItemsInv, NEW r \in Requests, Local(r)
  PROVE  ItemsInv'
<1> USE DEF ItemsInv
<1>1. TypeOK' /\ item' = item /\ Reach(r)' /\ Covered(r)'
  BY LocalFacts
<1>2. \A s \in Requests : phase'[s] = "committed" <=> phase[s] = "committed"
  BY LocalFacts
<1>3. ItemsTraced'
  BY <1>1, <1>2 DEF ItemsTraced
<1>4. ASSUME NEW s \in Requests \ {r} PROVE Reach(s)' /\ Covered(s)'
  <2>1. /\ phase'[s] = phase[s] /\ call'[s] = call[s] /\ saw'[s] = saw[s]
        /\ holds'[s] = holds[s] /\ before'[s] = before[s]
    BY LocalFacts
  <2>2. Reach(s) /\ Covered(s) /\ before[s] \subseteq Requests
    BY DEF TypeOK
  <2>3. QED
    BY <1>1, <1>2, <2>1, <2>2 DEF Reach, Covered
<1>5. TwoPrimariesOverlapped'
  <2>1. item[r] = Absent /\ ~Absent.primary
    BY LocalFacts DEF ItemsTraced, Absent
  <2>2. \A s \in Requests \ {r} : before'[s] = before[s]
    BY LocalFacts
  <2>3. QED
    BY <1>1, <2>1, <2>2 DEF TwoPrimariesOverlapped
<1>6. QED
  BY <1>1, <1>3, <1>4, <1>5

-----------------------------------------------------------------------------
\* The items after a commit.
LEMMA CommitFacts ==
  ASSUME ItemsInv, NEW r \in Requests, Commit(r)
  PROVE  /\ phase[r] = "inserted" /\ item[r] = Absent /\ saw[r] = {} /\ call[r].owner \in Owners
         /\ item'[r] = New(r) /\ New(r) # Absent /\ New(r) \in ItemType
         /\ New(r).owner = call[r].owner /\ New(r).primary = call[r].primary
         /\ \A x \in Items \ {r} :
              /\ x \in holds[r] =>
                   ~item'[x].primary /\ item'[x].owner = item[x].owner
                   /\ item[x] # Absent /\ item'[x] # Absent /\ item'[x] \in ItemType
              /\ x \notin holds[r] => item'[x] = item[x]
         /\ phase' = [phase EXCEPT ![r] = "committed"] /\ holds' = [holds EXCEPT ![r] = {}]
         /\ UNCHANGED <<call, saw, before>>
<1> USE DEF ItemsInv
<1>1. TypeOK /\ Reach(r) /\ ItemsTraced /\ r \in Items
  BY DEF Items
<1>2. /\ phase[r] = "inserted" /\ item' = Outcome(r)
      /\ phase' = [phase EXCEPT ![r] = "committed"] /\ holds' = [holds EXCEPT ![r] = {}]
      /\ UNCHANGED <<call, saw, before>>
  BY DEF Commit, Goto
<1>3. item[r] = Absent /\ saw[r] = {} /\ call[r].owner \in Owners
  BY <1>1, <1>2 DEF ItemsTraced, TypeOK, Reach
<1>4. call[r] \in Calls /\ call[r].primary \in BOOLEAN
  BY <1>1, ItemsAssumption DEF TypeOK
<1>5. New(r).owner = call[r].owner /\ New(r).primary = call[r].primary /\ New(r) \in ItemType
  BY <1>3, <1>4 DEF New, Code, ItemType, Codes
<1>6. New(r) # Absent
  BY <1>3, <1>5, ItemsAssumption DEF Absent
<1>7. \A x \in Items \ {r} :
        item'[x] = IF x \in holds[r] THEN [item[x] EXCEPT !.primary = FALSE] ELSE item[x]
  BY <1>2 DEF Outcome
<1>8. item'[r] = New(r)
  BY <1>1, <1>2 DEF Outcome
<1>9. ASSUME NEW x \in Items \ {r}, x \in holds[r]
      PROVE  /\ ~item'[x].primary /\ item'[x].owner = item[x].owner
             /\ item[x] # Absent /\ item'[x] # Absent /\ item'[x] \in ItemType
  <2>1. item[x] # Absent /\ item[x] \in ItemType
    BY <1>1, <1>9 DEF TypeOK, Committed
  <2>2. item[x].owner \in Owners
    BY <1>1, <2>1 DEF ItemsTraced
  <2>3. item'[x] = [item[x] EXCEPT !.primary = FALSE]
    BY <1>7, <1>9
  <2>4. ~item'[x].primary /\ item'[x].owner = item[x].owner /\ item'[x] \in ItemType
    BY <2>1, <2>3 DEF ItemType
  <2>5. item'[x] # Absent
    BY <2>2, <2>4, ItemsAssumption DEF Absent
  <2>6. QED
    BY <2>1, <2>4, <2>5
<1>10. QED
  BY <1>2, <1>3, <1>5, <1>6, <1>7, <1>8, <1>9

\* A commit keeps the invariant.
LEMMA CommitStep ==
  ASSUME ItemsInv, NEW r \in Requests, Commit(r)
  PROVE  ItemsInv'
<1> USE DEF ItemsInv
<1>1. TypeOK /\ Reach(r) /\ Covered(r) /\ ItemsTraced /\ r \in Items /\ r \notin Given
  BY ItemsAssumption DEF Items
<1>2. \A x \in Items : item[x] # Absent => item'[x] # Absent /\ item'[x].owner = item[x].owner
  BY CommitFacts
<1>3. \A x \in Items \ {r} : item'[x].primary => item[x].primary
  BY CommitFacts
<1>4. \A s \in Requests : phase'[s] = IF s = r THEN "committed" ELSE phase[s]
  BY <1>1, CommitFacts DEF TypeOK
<1>5. \A s \in Requests : holds'[s] = IF s = r THEN {} ELSE holds[s]
  <2>1. holds' = [holds EXCEPT ![r] = {}] /\ holds \in [Requests -> SUBSET Items]
    BY <1>1, CommitFacts DEF TypeOK
  <2>2. QED
    BY <2>1
<1>6. TypeOK'
  <2>1. item' \in [Items -> ItemType]
    <3>1. item' = Outcome(r)
      BY DEF Commit
    <3>2. \A x \in Items : item'[x] \in ItemType
      BY <1>1, CommitFacts DEF TypeOK
    <3>3. QED
      BY <3>1, <3>2 DEF Outcome
  <2>2. Committed \subseteq Committed'
    BY <1>2 DEF Committed
  <2>3. phase' \in [Requests -> {"idle", "look_up", "list", "demote", "insert", "inserted",
                            "committed", "refused"}]
    BY <1>1, CommitFacts DEF TypeOK
  <2>4. holds' \in [Requests -> SUBSET Items] /\ saw' = saw /\ call' = call /\ before' = before
    BY <1>1, CommitFacts DEF TypeOK
  <2>5. saw[r] = {} /\ holds'[r] = {}
    BY <1>5, CommitFacts
  <2>6. ASSUME NEW s \in Requests
        PROVE  /\ saw[s] \union holds'[s] \subseteq Committed'
               /\ saw[s] # {} => phase'[s] = "demote"
               /\ holds'[s] # {} => phase'[s] \in {"demote", "inserted"}
               /\ \A q \in Requests \ {s} : holds'[s] \intersect holds'[q] = {}
    BY <1>1, <1>4, <1>5, <2>2, <2>5 DEF TypeOK
  <2>7. QED
    BY <1>1, <2>1, <2>3, <2>4, <2>6 DEF TypeOK
<1>7. ItemsTraced'
  <2>1. \A x \in Items : item'[x] # Absent => item'[x].owner \in Owners
    BY <1>1, <1>2, CommitFacts DEF ItemsTraced
  <2>2. \A x \in Given : item'[x] # Absent
    BY <1>1, <1>2 DEF ItemsTraced, Items
  <2>3. \A s \in Requests : item'[s] # Absent <=> phase'[s] = "committed"
    BY <1>1, <1>4, CommitFacts DEF ItemsTraced, Items
  <2>4. QED
    BY <2>1, <2>2, <2>3 DEF ItemsTraced
<1>8. \A s \in Requests : before[s] \subseteq Items \ {r}
  BY <1>1, CommitFacts DEF TypeOK, Reach, Items
<1>9. ASSUME NEW s \in Requests PROVE Reach(s)' /\ Covered(s)'
  <2>1. Reach(s) /\ Covered(s) /\ saw[s] \union holds[s] \subseteq Committed
    BY <1>1 DEF TypeOK
  <2>2. call' = call /\ saw' = saw /\ before' = before
    BY CommitFacts
  <2>3. \A x \in saw[s] \union holds[s] : item'[x].owner = item[x].owner
    BY <1>2, <2>1 DEF Committed
  <2>4. \A q \in before[s] : phase'[q] = "committed"
    BY <1>1, <1>4, <2>1 DEF Reach, TypeOK
  <2>5. Reach(s)'
    BY <1>4, <1>5, <2>1, <2>2, <2>3, <2>4, CommitFacts DEF Reach
  <2>6. ASSUME NEW x \in Given \union before[s], item'[x].primary
        PROVE  item[x].primary /\ item'[x].owner = item[x].owner
    <3>1. x \in Items \ {r}
      BY <1>1, <1>8 DEF Items
    <3>2. QED
      BY <2>6, <3>1, CommitFacts
  <2>7. Covered(s)'
    BY <1>4, <1>5, <2>1, <2>2, <2>6 DEF Covered
  <2>8. QED
    BY <2>5, <2>7
<1>10. TwoPrimariesOverlapped'
  <2> SUFFICES ASSUME NEW s \in Requests, NEW x \in Items, x # s, item'[x].primary,
                      item'[s].primary, item'[x].owner = item'[s].owner
      PROVE  x \notin Given \union before[s]
    BY CommitFacts DEF TwoPrimariesOverlapped
  <2>1. CASE s = r
    <3>1. item'[x] = item[x] /\ x \notin holds[r] /\ saw[r] = {}
      BY <2>1, CommitFacts
    <3>2. call[r].primary /\ item[x].owner = call[r].owner /\ phase[r] = "inserted"
      BY <2>1, <3>1, CommitFacts
    <3>3. QED
      BY <1>1, <2>1, <3>1, <3>2 DEF Covered
  <2>2. CASE x = r
    BY <1>1, <1>8, <2>2
  <2>3. CASE s # r /\ x # r
    <3>1. s \in Items
      BY DEF Items
    <3>2. item'[x] = item[x] /\ item'[s] = item[s]
      BY <2>3, <3>1, CommitFacts
    <3>3. QED
      BY <3>2 DEF TwoPrimariesOverlapped
  <2>4. QED
    BY <2>1, <2>2, <2>3
<1>11. QED
  BY <1>6, <1>7, <1>9, <1>10

\* Every step keeps the invariant.
LEMMA InvStep == ItemsInv /\ [Next]_vars => ItemsInv'
<1> SUFFICES ASSUME ItemsInv, [Next]_vars PROVE ItemsInv'
  OBVIOUS
<1>1. ASSUME UNCHANGED vars PROVE ItemsInv'
  BY <1>1 DEF ItemsInv, TypeOK, Committed, ItemsTraced, TwoPrimariesOverlapped, Reach, Covered, vars
<1>2. QED
  BY <1>1, LocalStep, CommitStep DEF Next, Rest, Local

\* The inductive invariant holds in every state.
THEOREM ItemsInvariant == Spec => []ItemsInv
<1>1. QED
  BY InvInit, InvStep, PTL DEF Spec

\* Every item and every request's memory is of its type, and no item is locked
\* by two requests.
THEOREM TypeCorrect == Spec => []TypeOK
<1>1. ItemsInv => TypeOK
  BY DEF ItemsInv
<1>2. QED
  BY <1>1, ItemsInvariant, PTL

\* Two primary items of one owner come of requests that overlapped.
THEOREM OverlapOnly == Spec => []TwoPrimariesOverlapped
<1>1. ItemsInv => TwoPrimariesOverlapped
  BY DEF ItemsInv
<1>2. QED
  BY <1>1, ItemsInvariant, PTL

\* An item stops being primary only as another of its owner becomes primary.
THEOREM ReplacedOnly == Spec => PrimaryIsReplaced
<1> DEFINE Replaced ==
      \A x \in Items : item[x].primary /\ ~ item'[x].primary =>
        \E r \in Requests : /\ item[r] = Absent
                           /\ item'[r].primary /\ item'[r].owner = item[x].owner
<1>1. ASSUME ItemsInv, NEW r \in Requests, Commit(r) PROVE Replaced
  <2> SUFFICES ASSUME NEW x \in Items, item[x].primary, ~ item'[x].primary
      PROVE item[r] = Absent /\ item'[r].primary /\ item'[r].owner = item[x].owner
    OBVIOUS
  <2>1. x # r /\ x \in holds[r]
    BY <1>1, CommitFacts DEF Absent
  <2>2. Reach(r)
    BY <1>1 DEF ItemsInv
  <2>3. QED
    BY <1>1, <2>1, <2>2, CommitFacts DEF Reach
<1>2. ASSUME item' = item PROVE Replaced
  BY <1>2
<1>3. ItemsInv /\ [Next]_vars => [Replaced]_vars
  BY <1>1, <1>2, LocalFacts DEF Next, Rest, Local, vars
<1>4. QED
  BY <1>3, ItemsInvariant, PTL DEF Spec, PrimaryIsReplaced
-----------------------------------------------------------------------------
\* Where an item stands in the order of the keys.
Place(x) == CHOOSE i \in DOMAIN KeyOrder : KeyOrder[i] = x

\* Every item has one place, and the places are the order.
LEMMA PlaceFacts ==
  ASSUME NEW x \in Items
  PROVE  /\ Place(x) \in 1..Len(KeyOrder)
         /\ \A y \in Items : /\ Before(x, y) <=> Place(x) < Place(y)
                             /\ x # y => Place(x) # Place(y)
<1>1. DOMAIN KeyOrder = 1..Len(KeyOrder) /\ Len(KeyOrder) \in Nat
  BY ItemsAssumption
<1>2. \A y \in Items : Place(y) \in DOMAIN KeyOrder /\ KeyOrder[Place(y)] = y
  BY ItemsAssumption DEF Place
<1>3. ASSUME NEW y \in Items
      PROVE  Before(x, y) <=> Place(x) < Place(y)
  <2>1. \A i \in DOMAIN KeyOrder : /\ KeyOrder[i] = x <=> i = Place(x)
                                   /\ KeyOrder[i] = y <=> i = Place(y)
    BY <1>2, ItemsAssumption
  <2>2. QED
    BY <1>2, <2>1 DEF Before
<1>4. QED
  BY <1>1, <1>2, <1>3

\* The items a request has demoted come before those it has yet to demote.
InOrder(r) == \A x \in holds[r], y \in saw[r] : Before(x, y)
DemotedInOrder == \A r \in Requests : InOrder(r)

\* Every step keeps the order.
LEMMA InOrderStep ==
  ASSUME ItemsInv, DemotedInOrder, [Next]_vars
  PROVE  DemotedInOrder'
<1>1. TypeOK /\ TypeOK'
  BY InvStep DEF ItemsInv
<1>2. ASSUME NEW r \in Requests, holds'[r] = {} \/ saw'[r] = {}
      PROVE  InOrder(r)'
  BY <1>2 DEF InOrder
<1>3. ASSUME NEW r \in Requests, holds'[r] = holds[r], saw'[r] = saw[r]
      PROVE  InOrder(r)'
  BY <1>3 DEF InOrder, DemotedInOrder, Before
<1>4. ASSUME NEW r \in Requests, Local(r)
      PROVE  InOrder(r)'
  <2>1. ASSUME NEW c \in Calls, FetchOwner(r, c) PROVE InOrder(r)'
    BY <1>3, <2>1 DEF FetchOwner
  <2>2. CASE LookUpCode(r)
    BY <1>3, <2>2 DEF LookUpCode
  <2>3. CASE ListItems(r)
    BY <1>1, <1>2, <2>3 DEF ListItems, TypeOK
  <2>4. CASE Demote(r)
    <3>1. PICK x \in saw[r] : /\ NextToDemote(r, x)
                              /\ holds' = [holds EXCEPT ![r] = @ \union {x}]
                              /\ saw' = [saw EXCEPT ![r] = @ \ {x}]
      BY <2>4 DEF Demote
    <3>2. holds'[r] = holds[r] \union {x} /\ saw'[r] = saw[r] \ {x}
      BY <1>1, <3>1 DEF TypeOK
    <3>3. QED
      BY <3>1, <3>2 DEF InOrder, DemotedInOrder, NextToDemote, Before
  <2>5. CASE Insert(r)
    <3>1. saw'[r] = saw[r] /\ (holds'[r] = holds[r] \/ holds'[r] = {})
      BY <1>1, <2>5 DEF Insert, TypeOK
    <3>2. QED
      BY <1>2, <1>3, <3>1
  <2>6. CASE Lose(r)
    BY <1>1, <1>2, <2>6 DEF Lose, TypeOK
  <2>7. QED
    BY <1>4, <2>1, <2>2, <2>3, <2>4, <2>5, <2>6 DEF Local
<1>5. ASSUME NEW r \in Requests, Commit(r)
      PROVE  InOrder(r)'
  BY <1>1, <1>2, <1>5 DEF Commit, TypeOK
<1>6. ASSUME NEW r \in Requests, Local(r) \/ Commit(r), NEW s \in Requests \ {r}
      PROVE  InOrder(s)'
  <2>1. holds'[s] = holds[s] /\ saw'[s] = saw[s]
    BY <1>1, <1>6, LocalFacts DEF Commit, TypeOK
  <2>2. QED
    BY <1>3, <2>1
<1>7. CASE UNCHANGED vars
  BY <1>3, <1>7 DEF vars, DemotedInOrder
<1>8. QED
  BY <1>4, <1>5, <1>6, <1>7 DEF Next, Rest, Local, DemotedInOrder

LEMMA OrderInvariant == Spec => [](ItemsInv /\ DemotedInOrder)
<1>1. Init => ItemsInv /\ DemotedInOrder
  BY InvInit DEF Init, DemotedInOrder, InOrder
<1>2. QED
  BY <1>1, InvStep, InOrderStep, PTL DEF Spec

\* A request with items to demote has a next one.
LEMMA NextExists ==
  ASSUME TypeOK, NEW r \in Requests, saw[r] # {}
  PROVE  \E x \in saw[r] : NextToDemote(r, x)
<1>1. saw[r] \subseteq Items
  BY DEF TypeOK
<1> DEFINE T == {i \in 1..Len(KeyOrder) : \E x \in saw[r] : i = Place(x)}
<1>2. T # {} /\ T \in SUBSET Nat
  BY <1>1, PlaceFacts
<1>3. IsFiniteSet(T)
  BY FS_Interval, FS_Subset, ItemsAssumption
<1>4. PICK m \in T : \A n \in T : m <= n
  <2> HIDE DEF T
  <2>1. QED
    BY <1>2, <1>3, Least
<1>5. PICK x \in saw[r] : m = Place(x)
  OBVIOUS
<1>6. ASSUME NEW y \in saw[r] \ {x} PROVE Before(x, y)
  <2>1. Place(y) \in T /\ Place(x) # Place(y) /\ Place(x) \in Nat /\ Place(y) \in Nat
    BY <1>1, PlaceFacts
  <2>2. Place(x) < Place(y)
    BY <1>4, <1>5, <2>1
  <2>3. QED
    BY <1>1, <2>2, PlaceFacts
<1>7. QED
  BY <1>6 DEF NextToDemote

\* A request that has inserted its item waits for nobody, so one that waits
\* for a waiting request waits for an item that one has demoted.
LEMMA WaitsForItem ==
  ASSUME NEW r \in Requests, NEW s \in Requests, NEW t \in Requests, WaitsFor(r, s), WaitsFor(s, t)
  PROVE  saw[r] # {} /\ {x \in saw[r] : NextToDemote(r, x)} \subseteq holds[s]
<1>1. phase[s] # "inserted"
  BY DEF WaitsFor
<1>2. QED
  BY <1>1 DEF WaitsFor

\* Requests never wait for each other in a circle, however many items each of
\* them demotes, and whichever codes they insert.
THEOREM DeadlockFree == Spec => []NoLockCycle
<1>1. ItemsInv /\ DemotedInOrder => NoLockCycle
  <2> SUFFICES ASSUME ItemsInv, DemotedInOrder, NEW S \in SUBSET Requests, S # {},
                      \A r \in S : \E s \in S : WaitsFor(r, s)
               PROVE  FALSE
    BY DEF NoLockCycle
  <2>1. TypeOK /\ \A r \in Requests : saw[r] \subseteq Items
    BY DEF ItemsInv, TypeOK
  <2>2. \A r \in S : /\ saw[r] # {}
                     /\ \E s \in S : {x \in saw[r] : NextToDemote(r, x)} \subseteq holds[s]
    BY WaitsForItem
  <2> DEFINE T == {i \in 1..Len(KeyOrder) :
                     \E r \in S : \E x \in saw[r] : NextToDemote(r, x) /\ i = Place(x)}
  <2>3. \A r \in S : \A x \in saw[r] : NextToDemote(r, x) => Place(x) \in T
    BY <2>1, PlaceFacts
  <2>4. T # {} /\ T \in SUBSET Nat
    BY <2>1, <2>2, <2>3, NextExists
  <2>5. IsFiniteSet(T)
    BY FS_Interval, FS_Subset, ItemsAssumption
  <2>6. PICK m \in T : \A n \in T : n <= m
    <3> HIDE DEF T
    <3>1. QED
      BY <2>4, <2>5, Greatest
  <2>7. PICK r \in S : \E x \in saw[r] : NextToDemote(r, x) /\ m = Place(x)
    OBVIOUS
  <2>8. PICK x \in saw[r] : NextToDemote(r, x) /\ m = Place(x)
    BY <2>7
  <2>9. PICK s \in S : x \in holds[s]
    BY <2>2, <2>8
  <2>10. PICK y \in saw[s] : NextToDemote(s, y)
    BY <2>1, <2>2, NextExists
  <2>11. Before(x, y)
    BY <2>9 DEF DemotedInOrder, InOrder
  <2>12. Place(x) < Place(y) /\ Place(y) \in T /\ Place(x) \in Nat /\ Place(y) \in Nat
    BY <2>1, <2>3, <2>10, <2>11, PlaceFacts
  <2> HIDE DEF T
  <2>13. QED
    BY <2>6, <2>8, <2>12
<1>2. QED
  BY <1>1, OrderInvariant, PTL
=============================================================================
