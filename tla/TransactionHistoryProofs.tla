---------------------- MODULE TransactionHistoryProofs ----------------------
(***************************************************************************)
(* Proofs about the transaction history.  The list that is shown stays     *)
(* sorted and complete because of what is known of the answers on their    *)
(* way: a page holds what is behind its cursor, and while no answer of an  *)
(* earlier list has arrived, the only page that is being loaded for the    *)
(* list continues at its last row.                                         *)
(***************************************************************************)
EXTENDS TransactionHistory, FiniteFacts, SequenceTheorems, TLAPS

CursorType == {Start} \union [at : 1..clock, id : Nat]
ListType   == [status : {"loading", "data", "error"}, items : Seq(RowType),
               hasMore : BOOLEAN, loadingMore : BOOLEAN, build : Nat,
               filter : FilterType, seen : SUBSET RowType]
PageType   == [items : Seq(RowType), next : CursorType, more : BOOLEAN,
               seen : SUBSET RowType]
RequestType == [kind : {"build", "more"}, filter : FilterType, cursor : CursorType,
                build : 1..build, current : ListType,
                status : {"sent", "served", "lost", "done"}, page : PageType]

Position(row) == [at |-> row.at, id |-> row.id]

Typed ==
  /\ clock \in Nat \ {0}
  /\ createdAt \in [Movements -> 0..clock]
  /\ selected \in FilterType
  /\ cursor \in CursorType
  /\ view \in ListType /\ view.build \in 0..build
  /\ build \in Nat \ {0} /\ build <= Len(requests)
  /\ requests \in Seq(RequestType) /\ Len(requests) <= MaxRequests
  /\ overtaken \in BOOLEAN

\* The committed rows are those of movements that have started.
Origin ==
  /\ IsFiniteSet(rows)
  /\ \A r \in rows : \E m \in Movements : createdAt[m] > 0 /\ r \in RowsOf(m)

\* What a list promises: no row twice or out of order, none that its filter
\* does not ask for, none missing down to its end.
Covers(items, more, row) ==
  (more => ~Newer(Last(items), row)) => \E k \in DOMAIN items : items[k] = row

ListOK(list) ==
  /\ Descending(list.items)
  /\ \A k \in DOMAIN list.items : Satisfies(list.items[k], list.filter)
  /\ list.hasMore => list.items # <<>>
  /\ \A row \in list.seen :
       Satisfies(row, list.filter) => Covers(list.items, list.hasMore, row)

\* What an answer promises of the rows behind its request's cursor.
PageOK(page, filter, cur) ==
  /\ Descending(page.items)
  /\ \A k \in DOMAIN page.items :
       Satisfies(page.items[k], filter) /\ Behind(page.items[k], cur)
  /\ page.more => page.items # <<>> /\ page.next = Position(Last(page.items))
  /\ \A row \in page.seen :
       Satisfies(row, filter) /\ Behind(row, cur) => Covers(page.items, page.more, row)

Open(q) == q.status # "done"

Answers ==
  \A i \in DOMAIN requests :
    LET q == requests[i]
    IN  /\ q.kind = "build" => q.cursor = Start
        /\ q.kind = "more" /\ Open(q) =>
             /\ q.current.build = q.build /\ q.current.status = "data"
             /\ ~q.current.loadingMore /\ q.current.seen \subseteq rows
             /\ q.build = build => q.filter = selected /\ q.current.filter = selected
        /\ q.status = "served" =>
             /\ PageOK(q.page, q.filter, q.cursor)
             /\ q.page.seen \subseteq rows
             /\ q.kind = "more" => q.current.seen \subseteq q.page.seen

\* Each build() sent one request; while that of the latest is on its way,
\* nothing belongs to it.
IsBuild(i, n) == requests[i].kind = "build" /\ requests[i].build = n

Builds ==
  /\ \A i, j \in DOMAIN requests : \A n \in 1..build :
       IsBuild(i, n) /\ IsBuild(j, n) => i = j
  /\ \E i \in DOMAIN requests : IsBuild(i, build)
  /\ \A i \in DOMAIN requests : IsBuild(i, build) =>
       /\ requests[i].filter = selected
       /\ Open(requests[i]) =>
            /\ view.build # build
            /\ \A j \in DOMAIN requests :
                 requests[j].build = build => requests[j].kind = "build"

Shown ==
  /\ view.status = "data" => view.build # 0
  /\ view.seen \subseteq rows
  /\ view.build = build => view.filter = selected

\* A page on its way for the latest list.
Loads(i) == requests[i].kind = "more" /\ Open(requests[i]) /\ requests[i].build = build

\* While no answer of an earlier list has arrived.
Undisturbed ==
  /\ ListOK(view)
  /\ view.build = build /\ view.hasMore => cursor = Position(Last(view.items))
  /\ \A i \in DOMAIN requests : Loads(i) =>
       /\ view.build = build /\ view.hasMore /\ view.loadingMore
       /\ requests[i].current = [view EXCEPT !.loadingMore = FALSE]
       /\ requests[i].cursor = cursor
       /\ \A j \in DOMAIN requests : Loads(j) => i = j
  /\ view.status = "data" /\ view.build # build =>
       \A i \in DOMAIN requests : IsBuild(i, build) => Open(requests[i])

IInv == Typed /\ Origin /\ Answers /\ Builds /\ Shown /\ (~overtaken => Undisturbed)
-----------------------------------------------------------------------------
\* The order of the rows, and what a sorted sequence of them is.

\* A position in the order: a row, or a cursor.
Placed(a) == a.at \in Nat /\ a.id \in Nat

LEMMA NewerOrder ==
  ASSUME NEW a, Placed(a), NEW b, Placed(b), NEW c, Placed(c)
  PROVE  /\ Newer(a, b) /\ Newer(b, c) => Newer(a, c)
         /\ ~Newer(a, a)
         /\ Newer(a, b) => ~Newer(b, a)
         /\ a.id # b.id => Newer(a, b) \/ Newer(b, a)
BY DEF Placed, Newer

\* Rows that the order tells apart.
Distinct(S) == /\ \A a \in S : Placed(a)
               /\ \A a, b \in S : a # b => a.id # b.id

\* The oldest of finitely many rows.
LEMMA Oldest ==
  ASSUME NEW S, IsFiniteSet(S), Distinct(S)
  PROVE  \A T \in SUBSET S : T # {} => \E r \in T : \A q \in T \ {r} : Newer(q, r)
<1> DEFINE HasOldest(T) == \E r \in T : \A q \in T \ {r} : Newer(q, r)
           F == {T \in SUBSET S : T # {} => HasOldest(T)}
<1>1. ASSUME NEW T \in SUBSET S, \A U \in SUBSET T : U # T => U \in F
      PROVE  T \in F
  <2> SUFFICES ASSUME T # {} PROVE HasOldest(T)
    OBVIOUS
  <2>1. PICK x \in T : TRUE
    OBVIOUS
  <2>2. CASE T \ {x} = {}
    BY <2>1, <2>2
  <2>3. CASE T \ {x} # {}
    <3>0. T \ {x} \in SUBSET T /\ T \ {x} # T
      BY <2>1
    <3>1. PICK r \in T \ {x} : \A q \in (T \ {x}) \ {r} : Newer(q, r)
      <4>1. T \ {x} \in F
        BY <1>1, <3>0
      <4>2. QED  BY <2>3, <4>1
    <3>2. r # x /\ Placed(r) /\ Placed(x) /\ r.id # x.id
      BY <3>1 DEF Distinct
    <3>3. CASE Newer(x, r)
      BY <3>1, <3>3
    <3>4. CASE Newer(r, x)
      <4>1. ASSUME NEW q \in T \ {x} PROVE Newer(q, x)
        <5>1. Placed(q)
          BY DEF Distinct
        <5>2. QED  BY <3>1, <3>2, <3>4, <5>1, NewerOrder
      <4>2. QED  BY <4>1
    <3>5. QED  BY <3>2, <3>3, <3>4, NewerOrder
  <2>4. QED  BY <2>2, <2>3
<1> HIDE DEF F
<1>2. \A T \in SUBSET S : T \in F
  BY <1>1, AllSubsets
<1>3. QED  BY <1>2 DEF F

Ordered(s) == \A k, l \in DOMAIN s : k < l => ~Newer(s[l], s[k])

\* Finitely many rows can be listed.
LEMMA Listed ==
  ASSUME NEW S, IsFiniteSet(S), Distinct(S)
  PROVE  \E s \in SetToSeqs(S) : Ordered(s)
<1> DEFINE F == {T \in SUBSET S : \E s \in SetToSeqs(T) : Ordered(s)}
<1>1. ASSUME NEW T \in SUBSET S, \A U \in SUBSET T : U # T => U \in F
      PROVE  T \in F
  <2>1. IsFiniteSet(T) /\ Cardinality(T) \in Nat
    BY FS_Subset, FS_CardinalityType
  <2> DEFINE n == Cardinality(T)
  <2>2. CASE T = {}
    <3>1. n = 0
      BY <2>2, FS_EmptySet
    <3>2. 1..n = {}
      BY <3>1
    <3> DEFINE s == [i \in 1..n |-> 0]
    <3>3. s \in SetToSeqs(T) /\ Ordered(s)
      BY <3>2 DEF SetToSeqs, Ordered
    <3>4. QED  BY <3>3
  <2>3. CASE T # {}
    <3>1. PICK r \in T : \A q \in T \ {r} : Newer(q, r)
      BY <2>3, Oldest
    <3>2. /\ Cardinality(T \ {r}) = n - 1 /\ n - 1 \in Nat
      <4>1. Cardinality(T \ {r}) = n - 1 /\ IsFiniteSet(T \ {r})
        BY <2>1, FS_RemoveElement
      <4>2. Cardinality(T \ {r}) \in Nat
        BY <4>1, FS_CardinalityType
      <4>3. QED  BY <4>1, <4>2
    <3>3. PICK s \in SetToSeqs(T \ {r}) : Ordered(s)
      BY <1>1
    <3>4. /\ s \in [1..(n - 1) -> T \ {r}]
          /\ \A i, j \in 1..(n - 1) : i # j => s[i] # s[j]
      BY <3>2 DEF SetToSeqs
    <3> DEFINE t == [i \in 1..n |-> IF i = n THEN r ELSE s[i]]
    <3>5. n \in Nat /\ \A i \in 1..n : i = n \/ i \in 1..(n - 1)
      BY <2>1, <3>2
    <3> HIDE DEF n
    <3>6. \A i \in 1..n : i # n => i \in 1..(n - 1) /\ t[i] = s[i] /\ s[i] \in T \ {r}
      BY <3>4, <3>5
    <3>7. n \in 1..n /\ t[n] = r
      BY <3>2, <3>5
    <3>8. t \in [1..n -> T] /\ \A i, j \in 1..n : i # j => t[i] # t[j]
      <4>1. t \in [1..n -> T]
        BY <3>1, <3>6
      <4>2. ASSUME NEW i \in 1..n, NEW j \in 1..n, i # j PROVE t[i] # t[j]
        <5> HIDE DEF t
        <5>1. QED  BY <3>4, <3>6, <3>7, <4>2
      <4>3. QED  BY <4>1, <4>2
    <3>9. ASSUME NEW k \in 1..n, NEW l \in 1..n, k < l PROVE ~Newer(t[l], t[k])
      <4>1. k # n /\ l \in Nat /\ k \in Nat
        BY <3>5, <3>9
      <4>2. CASE l = n
        <5>1. Newer(t[k], t[l]) /\ Placed(t[k]) /\ Placed(t[l])
          <6> HIDE DEF t
          <6>1. t[l] = r /\ t[k] \in T \ {r}
            BY <3>6, <3>7, <4>1, <4>2
          <6>2. QED  BY <3>1, <6>1 DEF Distinct
        <5>2. QED  BY <5>1, NewerOrder
      <4>3. CASE l # n
        <5>1. k \in DOMAIN s /\ l \in DOMAIN s /\ t[k] = s[k] /\ t[l] = s[l]
          BY <3>4, <3>6, <4>1, <4>3
        <5> HIDE DEF t
        <5>2. QED  BY <3>3, <3>9, <5>1 DEF Ordered
      <4>4. QED  BY <4>2, <4>3
    <3>10. DOMAIN t = 1..n
      OBVIOUS
    <3> HIDE DEF t
    <3>11. t \in SetToSeqs(T)
      BY <3>8 DEF SetToSeqs, n
    <3>12. Ordered(t)
      BY <3>9, <3>10 DEF Ordered
    <3>13. QED  BY <3>11, <3>12
  <2>4. QED  BY <2>2, <2>3
<1> HIDE DEF F
<1>2. S \in F
  BY <1>1, AllSubsets
<1>3. QED  BY <1>2 DEF F

\* What ORDER BY gives: every row once, the newest first.
LEMMA SortedRows ==
  ASSUME NEW S, IsFiniteSet(S), Distinct(S)
  PROVE  /\ Sorted(S) \in Seq(S) /\ Descending(Sorted(S))
         /\ \A r \in S : \E k \in DOMAIN Sorted(S) : Sorted(S)[k] = r
<1> DEFINE s == Sorted(S)
           n == Cardinality(S)
<1>1. s \in SetToSeqs(S) /\ Ordered(s)
  <2>1. \E t \in SetToSeqs(S) : Ordered(t)
    BY Listed
  <2>2. QED  BY <2>1 DEF Sorted, Ordered
<1>2. n \in Nat /\ s \in [1..n -> S] /\ \A i, j \in 1..n : i # j => s[i] # s[j]
  BY <1>1, FS_CardinalityType DEF SetToSeqs
<1>3. s \in Seq(S) /\ DOMAIN s = 1..n
  BY <1>2
<1>4. Descending(s)
  <2> SUFFICES ASSUME NEW k \in DOMAIN s, NEW l \in DOMAIN s, k < l
               PROVE  Newer(s[k], s[l])
    BY DEF Descending
  <2>1. s[k] \in S /\ s[l] \in S /\ s[k] # s[l] /\ ~Newer(s[l], s[k])
    BY <1>1, <1>2, <1>3 DEF Ordered
  <2> HIDE DEF s
  <2>2. Placed(s[k]) /\ Placed(s[l]) /\ s[k].id # s[l].id
    BY <2>1 DEF Distinct
  <2>3. QED  BY <2>1, <2>2, NewerOrder
<1>5. \A r \in S : \E k \in DOMAIN s : s[k] = r
  <2>1. s \in Injection(1..n, S)
    BY <1>2 DEF Injection, IsInjective
  <2>2. IsFiniteSet(1..n) /\ Cardinality(1..n) = n
    BY <1>2, FS_Interval
  <2>3. s \in Surjection(1..n, S)
    <3> HIDE DEF s
    <3>1. Cardinality(1..n) = Cardinality(S)
      BY <2>2
    <3> HIDE DEF n
    <3>2. QED  BY <2>1, <3>1, FS_Injection
  <2>4. QED  BY <1>3, <2>3 DEF Surjection
<1>6. QED  BY <1>3, <1>4, <1>5
-----------------------------------------------------------------------------
\* What list_page answers.

LEMMA RowFacts ==
  ASSUME Typed, Origin
  PROVE  /\ rows \subseteq [id : Nat, at : 1..clock, warehouse : Warehouses, type : MovementTypes]
         /\ rows \subseteq RowType /\ Distinct(rows)
<1>1. ASSUME NEW r \in rows
      PROVE  \E m \in Movements : \E e \in Entries[m] :
               /\ createdAt[m] \in 1..clock
               /\ e \in [id : Nat, warehouse : Warehouses, type : MovementTypes]
               /\ r = [id |-> e.id, at |-> createdAt[m],
                       warehouse |-> e.warehouse, type |-> e.type]
  <2>1. PICK m \in Movements : createdAt[m] > 0 /\ r \in RowsOf(m)
    BY DEF Origin
  <2>2. PICK e \in Entries[m] : r = [id |-> e.id, at |-> createdAt[m],
                                     warehouse |-> e.warehouse, type |-> e.type]
    BY <2>1 DEF RowsOf
  <2>3. createdAt[m] \in 1..clock
    BY <2>1 DEF Typed
  <2>4. e \in [id : Nat, warehouse : Warehouses, type : MovementTypes]
    BY TransactionHistoryAssumption
  <2>5. QED  BY <2>2, <2>3, <2>4
<1>2. rows \subseteq [id : Nat, at : 1..clock, warehouse : Warehouses, type : MovementTypes]
  BY <1>1
<1>3. rows \subseteq RowType
  BY <1>2 DEF RowType, Typed
<1>4. \A a \in rows : Placed(a)
  BY <1>3 DEF RowType, Placed
<1>5. ASSUME NEW a \in rows, NEW b \in rows, a.id = b.id PROVE a = b
  <2>1. PICK m \in Movements : \E d \in Entries[m] :
          a = [id |-> d.id, at |-> createdAt[m], warehouse |-> d.warehouse, type |-> d.type]
    BY <1>1
  <2>2. PICK n \in Movements : \E e \in Entries[n] :
          b = [id |-> e.id, at |-> createdAt[n], warehouse |-> e.warehouse, type |-> e.type]
    BY <1>1
  <2>3. PICK d \in Entries[m] :
          a = [id |-> d.id, at |-> createdAt[m], warehouse |-> d.warehouse, type |-> d.type]
    BY <2>1
  <2>4. PICK e \in Entries[n] :
          b = [id |-> e.id, at |-> createdAt[n], warehouse |-> e.warehouse, type |-> e.type]
    BY <2>2
  <2>5. d.id = e.id
    BY <1>5, <2>3, <2>4
  <2>6. m = n /\ d = e
    BY <2>5, TransactionHistoryAssumption
  <2>7. QED  BY <2>3, <2>4, <2>6
<1>6. QED  BY <1>2, <1>3, <1>4, <1>5 DEF Distinct

\* The beginning of a sequence.
LEMMA Beginning ==
  ASSUME NEW S, NEW s \in Seq(S), NEW n \in Nat, n <= Len(s)
  PROVE  LET b == SubSeq(s, 1, n)
         IN  /\ b \in Seq(S) /\ Len(b) = n /\ DOMAIN b = 1..n
             /\ \A i \in 1..n : i \in DOMAIN s /\ b[i] = s[i]
<1>1. SubSeq(s, 1, n) \in Seq(S) /\ Len(SubSeq(s, 1, n)) = n
  OBVIOUS
<1>2. \A i \in 1..n : i \in DOMAIN s /\ SubSeq(s, 1, n)[i] = s[i]
  OBVIOUS
<1>3. QED  BY <1>1, <1>2

LEMMA PageFacts ==
  ASSUME Typed, Origin, NEW filter \in FilterType, NEW cur \in CursorType
  PROVE  /\ Page(filter, cur) \in PageType
         /\ PageOK(Page(filter, cur), filter, cur)
         /\ Page(filter, cur).seen = rows
<1> DEFINE S == {r \in rows : Satisfies(r, filter) /\ Behind(r, cur)}
           found == Sorted(S)
           n == IF HasMore(found) THEN PageSize ELSE Len(found)
           page == Page(filter, cur)
<1>1. /\ IsFiniteSet(S) /\ Distinct(S) /\ S \subseteq RowType
      /\ \A r \in S : r.at \in 1..clock /\ r.id \in Nat
  <2>1. IsFiniteSet(S)
    BY FS_Subset DEF Origin
  <2>2. QED  BY <2>1, RowFacts DEF Distinct
<1>2. /\ found \in Seq(S) /\ Descending(found)
      /\ \A r \in S : \E k \in DOMAIN found : found[k] = r
  <2> HIDE DEF S
  <2>1. QED  BY <1>1, SortedRows
<1>3. /\ PageSize \in Nat /\ PageSize >= 1 /\ Len(found) \in Nat
      /\ DOMAIN found = 1..Len(found)
  <2> HIDE DEF found
  <2>1. QED  BY <1>2, TransactionHistoryAssumption
<1>4. /\ n \in Nat /\ n <= Len(found)
      /\ HasMore(found) => n = PageSize /\ n \in DOMAIN found /\ n >= 1
      /\ ~HasMore(found) => n = Len(found)
  <2> HIDE DEF found
  <2>1. CASE HasMore(found)
    <3>1. n = PageSize /\ Len(found) > PageSize
      BY <2>1 DEF HasMore
    <3> HIDE DEF n
    <3>2. QED  BY <1>3, <2>1, <3>1
  <2>2. CASE ~HasMore(found)
    <3>1. n = Len(found)
      BY <2>2
    <3> HIDE DEF n
    <3>2. n \in Nat /\ n <= Len(found)
      BY <1>3, <3>1
    <3>3. QED  BY <2>2, <3>1, <3>2
  <2>3. QED  BY <2>1, <2>2
<1>5. page = [items |-> SubSeq(found, 1, n), next |-> NextCursor(found),
              more |-> HasMore(found), seen |-> rows]
  BY DEF Page
<1> DEFINE items == SubSeq(found, 1, n)
<1>6. /\ items \in Seq(S) /\ Len(items) = n /\ DOMAIN items = 1..n
      /\ \A i \in 1..n : i \in DOMAIN found /\ items[i] = found[i]
  <2> HIDE DEF found, n, S
  <2>1. QED  BY <1>2, <1>4, Beginning
<1>7. HasMore(found) \in BOOLEAN
  BY DEF HasMore
<1> HIDE DEF items, page, n, found
<1>8. page.items = items /\ page.more = HasMore(found) /\ page.seen = rows
      /\ page.next = NextCursor(found)
  BY <1>5 DEF items
<1>9. \A k \in DOMAIN items : items[k] \in S
  BY <1>6
<1>10. HasMore(found) => /\ items # <<>> /\ Last(items) = found[n]
                         /\ Last(items) \in S /\ NextCursor(found) = Position(Last(items))
  <2> SUFFICES ASSUME HasMore(found)
               PROVE  /\ items # <<>> /\ Last(items) = found[n]
                      /\ Last(items) \in S /\ NextCursor(found) = Position(Last(items))
    OBVIOUS
  <2>1. n >= 1 /\ n \in DOMAIN items
    BY <1>4, <1>6
  <2>2. Last(items) = items[n] /\ items # <<>>
    BY <1>4, <1>6, <2>1 DEF Last
  <2>3. QED  BY <1>4, <1>6, <1>9, <2>1, <2>2 DEF NextCursor, Position
<1>11. NextCursor(found) \in CursorType
  <2>1. CASE HasMore(found)
    BY <1>1, <1>10, <2>1 DEF CursorType, Position
  <2>2. CASE ~HasMore(found)
    BY <2>2 DEF NextCursor, CursorType
  <2>3. QED  BY <2>1, <2>2
<1>12. page \in PageType
  <2>1. items \in Seq(RowType)
    BY <1>1, <1>6
  <2>2. rows \in SUBSET RowType
    BY RowFacts
  <2>3. QED  BY <1>5, <1>7, <1>11, <2>1, <2>2 DEF PageType, items
<1>13. Descending(items)
  <2>1. ASSUME NEW k \in DOMAIN items, NEW l \in DOMAIN items, k < l
        PROVE  Newer(items[k], items[l])
    BY <1>2, <1>6, <2>1 DEF Descending
  <2>2. QED  BY <2>1 DEF Descending
<1>14. \A k \in DOMAIN items : Satisfies(items[k], filter) /\ Behind(items[k], cur)
  BY <1>9
<1>15. ASSUME NEW row \in rows, Satisfies(row, filter), Behind(row, cur)
       PROVE  Covers(items, HasMore(found), row)
  <2> SUFFICES ASSUME HasMore(found) => ~Newer(Last(items), row)
               PROVE  \E k \in DOMAIN items : items[k] = row
    BY DEF Covers
  <2>1. PICK k \in DOMAIN found : found[k] = row
    BY <1>2, <1>15
  <2>2. k \in 1..n
    <3>1. CASE ~HasMore(found)
      BY <1>3, <1>4, <3>1
    <3>2. CASE HasMore(found)
      <4>1. n < k => Newer(found[n], found[k])
        BY <1>2, <1>4, <3>2 DEF Descending
      <4>2. ~(n < k)
        BY <1>10, <2>1, <3>2, <4>1
      <4>3. k \in 1..Len(found) /\ n \in Nat /\ Len(found) \in Nat
        BY <1>3, <1>4, <2>1
      <4>4. QED  BY ONLY <4>2, <4>3
    <3>3. QED  BY <3>1, <3>2
  <2>3. QED  BY <1>6, <2>1, <2>2
<1>16. PageOK(page, filter, cur)
  BY <1>8, <1>10, <1>13, <1>14, <1>15 DEF PageOK
<1>17. QED  BY <1>8, <1>12, <1>16 DEF page
-----------------------------------------------------------------------------
\* Lists, and pages appended to them.

LEMMA EmptyList ==
  ASSUME NEW status, NEW filter
  PROVE  ListOK(List(status, <<>>, FALSE, 0, filter, {}))
BY DEF ListOK, List, Descending

\* The first page is a list.
LEMMA FirstPage ==
  ASSUME NEW page \in PageType, NEW filter, PageOK(page, filter, Start), NEW n
  PROVE  /\ ListOK(List("data", page.items, page.more, n, filter, page.seen))
         /\ page.more => page.next = Position(Last(page.items))
<1>1. \A row : Behind(row, Start)
  BY DEF Behind
<1>2. QED  BY <1>1 DEF PageOK, ListOK, List

LEMMA PositionFacts ==
  ASSUME NEW row \in RowType, NEW other
  PROVE  /\ Behind(other, Position(row)) <=> Newer(row, other)
         /\ Placed(row)
<1>1. Position(row).at = row.at /\ Position(row).id = row.id /\ Position(row) # Start
  BY DEF Position, Start
<1>2. Newer(Position(row), other) <=> Newer(row, other)
  BY <1>1 DEF Newer
<1>3. QED  BY <1>1, <1>2 DEF Behind, Placed, RowType

Continued(list, page) == [list EXCEPT !.items = @ \o page.items, !.hasMore = page.more]

\* A page that continues at the last row of a list continues the list.
LEMMA NextPage ==
  ASSUME NEW list \in ListType, ListOK(list), list.hasMore,
         NEW page \in PageType, PageOK(page, list.filter, Position(Last(list.items))),
         list.seen \subseteq page.seen
  PROVE  /\ ListOK(Continued(list, page))
         /\ page.more => page.next = Position(Last(Continued(list, page).items))
<1> DEFINE a == list.items
           b == page.items
           c == a \o b
           last == Last(a)
<1>1. a \in Seq(RowType) /\ b \in Seq(RowType) /\ a # <<>>
  BY DEF ListType, PageType, ListOK
<1> HIDE DEF a, b
<1>2. /\ Len(a) \in Nat /\ Len(b) \in Nat /\ Len(a) >= 1
      /\ DOMAIN a = 1..Len(a) /\ DOMAIN b = 1..Len(b)
      /\ \A k \in DOMAIN a : a[k] \in RowType
      /\ \A k \in DOMAIN b : b[k] \in RowType
      /\ Len(a) \in DOMAIN a
  BY <1>1
<1>3. /\ c \in Seq(RowType) /\ Len(c) = Len(a) + Len(b) /\ DOMAIN c = 1..(Len(a) + Len(b))
      /\ \A k \in DOMAIN a : c[k] = a[k]
      /\ \A k \in DOMAIN b : c[Len(a) + k] = b[k]
  BY <1>1
<1>4. \A k \in DOMAIN c : k \in DOMAIN a \/ (k - Len(a) \in DOMAIN b /\ c[k] = b[k - Len(a)])
  <2> SUFFICES ASSUME NEW k \in DOMAIN c, k \notin DOMAIN a
               PROVE  k - Len(a) \in DOMAIN b /\ c[k] = b[k - Len(a)]
    OBVIOUS
  <2>1. k - Len(a) \in DOMAIN b /\ Len(a) + (k - Len(a)) = k
    BY <1>2, <1>3
  <2>2. QED  BY <1>3, <2>1
<1>5. last \in RowType /\ last = a[Len(a)]
  BY <1>2 DEF Last
<1> HIDE DEF c, last
<1>6. /\ Descending(a) /\ \A k \in DOMAIN a : Satisfies(a[k], list.filter)
      /\ \A row \in list.seen : Satisfies(row, list.filter) => Covers(a, TRUE, row)
  BY DEF ListOK, a
<1>7. /\ Descending(b)
      /\ \A k \in DOMAIN b : Satisfies(b[k], list.filter) /\ Newer(last, b[k])
      /\ page.more => b # <<>> /\ page.next = Position(Last(b))
      /\ \A row \in page.seen : Satisfies(row, list.filter) /\ Newer(last, row)
           => Covers(b, page.more, row)
  BY <1>5, PositionFacts DEF PageOK, a, b, last
<1>8. Descending(c)
  <2> SUFFICES ASSUME NEW k \in DOMAIN c, NEW l \in DOMAIN c, k < l
               PROVE  Newer(c[k], c[l])
    BY DEF Descending
  <2>1. k \in Int /\ l \in Int /\ k >= 1 /\ l >= 1
    BY <1>2, <1>3
  <2>2. CASE l \in DOMAIN a
    <3>1. k \in DOMAIN a /\ c[k] = a[k] /\ c[l] = a[l]
      BY <1>2, <1>3, <2>1, <2>2
    <3>2. QED  BY <1>6, <2>2, <3>1 DEF Descending
  <2>3. CASE l \notin DOMAIN a /\ k \in DOMAIN a
    <3>1. c[k] = a[k] /\ l - Len(a) \in DOMAIN b /\ c[l] = b[l - Len(a)]
      BY <1>3, <1>4, <2>3
    <3>2. Newer(last, c[l]) /\ c[l] \in RowType
      BY <1>2, <1>7, <3>1
    <3>3. k = Len(a) \/ k < Len(a)
      BY <1>2, <2>3
    <3>4. CASE k = Len(a)
      BY <1>5, <3>1, <3>2, <3>4
    <3>5. CASE k < Len(a)
      <4>1. Newer(c[k], last) /\ c[k] \in RowType
        BY <1>2, <1>5, <1>6, <2>3, <3>1, <3>5 DEF Descending
      <4>2. Placed(c[k]) /\ Placed(c[l]) /\ Placed(last)
        BY <1>5, <3>2, <4>1, PositionFacts
      <4>3. QED  BY <3>2, <4>1, <4>2, NewerOrder
    <3>6. QED  BY <3>3, <3>4, <3>5
  <2>4. CASE l \notin DOMAIN a /\ k \notin DOMAIN a
    <3>1. /\ k - Len(a) \in DOMAIN b /\ c[k] = b[k - Len(a)]
          /\ l - Len(a) \in DOMAIN b /\ c[l] = b[l - Len(a)]
      BY <1>4, <2>4
    <3>2. k - Len(a) < l - Len(a)
      BY <1>2, <2>1
    <3>3. QED  BY <1>7, <3>1, <3>2 DEF Descending
  <2>5. QED  BY <2>2, <2>3, <2>4
<1>9. \A k \in DOMAIN c : Satisfies(c[k], list.filter)
  BY <1>3, <1>4, <1>6, <1>7
<1>10. page.more => /\ c # <<>> /\ Last(c) = Last(b)
                    /\ page.next = Position(Last(c))
  <2> SUFFICES ASSUME page.more PROVE c # <<>> /\ Last(c) = Last(b)
    BY <1>7
  <2>1. b # <<>>
    BY <1>7
  <2>2. Len(b) \in DOMAIN b /\ Len(c) # 0
    BY <1>1, <1>2, <1>3, <2>1
  <2>3. c # <<>>
    BY <2>2
  <2>4. QED  BY <1>3, <2>2, <2>3 DEF Last
<1>11. ASSUME NEW row \in list.seen, Satisfies(row, list.filter)
       PROVE  Covers(c, page.more, row)
  <2> SUFFICES ASSUME page.more => ~Newer(Last(c), row)
               PROVE  \E k \in DOMAIN c : c[k] = row
    BY DEF Covers
  <2>1. CASE Newer(last, row)
    <3>1. Covers(b, page.more, row)
      BY <1>7, <1>11, <2>1
    <3>2. PICK k \in DOMAIN b : b[k] = row
      BY <1>10, <3>1 DEF Covers
    <3>3. Len(a) + k \in DOMAIN c
      BY <1>2, <1>3
    <3>4. QED  BY <1>3, <3>2, <3>3
  <2>2. CASE ~Newer(last, row)
    <3>1. PICK k \in DOMAIN a : a[k] = row
      BY <1>6, <1>11, <2>2 DEF Covers, last
    <3>2. k \in DOMAIN c
      BY <1>2, <1>3
    <3>3. QED  BY <1>3, <3>1, <3>2
  <2>3. QED  BY <2>1, <2>2
<1> DEFINE next == Continued(list, page)
<1>12. /\ next.items = c /\ next.hasMore = page.more
       /\ next.filter = list.filter /\ next.seen = list.seen
  BY DEF Continued, ListType, a, b, c
<1> HIDE DEF next
<1>13. ListOK(next)
  BY <1>8, <1>9, <1>10, <1>11, <1>12 DEF ListOK
<1>14. QED  BY <1>10, <1>12, <1>13 DEF next
-----------------------------------------------------------------------------
\* The invariant holds in the beginning.

LEMMA InitIInv == Init => IInv
<1> SUFFICES ASSUME Init PROVE IInv
  OBVIOUS
<1> DEFINE all == [warehouse |-> Unfiltered, type |-> Unfiltered]
           none == List("loading", <<>>, FALSE, 0, all, {})
           q == Request("build", all, Start, 1, none)
<1>1. /\ clock = 1 /\ createdAt = [m \in Movements |-> 0] /\ rows = {}
      /\ selected = all /\ cursor = Start /\ view = none /\ build = 1
      /\ requests = <<q>> /\ overtaken = FALSE
  BY DEF Init
<1>2. all \in FilterType /\ none \in ListType /\ none.build = 0
      /\ none.hasMore = FALSE /\ none.status = "loading" /\ none.seen = {}
  <2>1. all \in FilterType
    BY DEF FilterType
  <2>2. <<>> \in Seq(RowType) /\ {} \in SUBSET RowType
    OBVIOUS
  <2> HIDE DEF all
  <2>3. QED  BY <2>1, <2>2 DEF ListType, List
<1>3. /\ NoPage \in PageType
      /\ Start \in CursorType
  BY DEF NoPage, PageType, CursorType
<1>4. q \in RequestType
  <2> HIDE DEF all, none
  <2>1. QED  BY <1>1, <1>2, <1>3 DEF Request, RequestType
<1>5. /\ q.kind = "build" /\ q.build = 1 /\ q.filter = all /\ q.cursor = Start
      /\ q.status = "sent"
  BY DEF Request
<1> HIDE DEF all, none, q
<1>6. /\ DOMAIN requests = {1} /\ Len(requests) = 1 /\ requests[1] = q
      /\ requests \in Seq(RequestType)
  BY <1>1, <1>4
<1>7. Typed
  <2>1. createdAt \in [Movements -> 0..1]
    BY <1>1
  <2>2. Len(requests) <= MaxRequests
    BY <1>6, TransactionHistoryAssumption
  <2>3. view \in ListType /\ view.build \in 0..build
    BY <1>1, <1>2
  <2>4. clock \in Nat \ {0} /\ build \in Nat \ {0} /\ build <= Len(requests)
    BY <1>1, <1>6
  <2>5. QED  BY <1>1, <1>2, <1>3, <1>6, <2>1, <2>2, <2>3, <2>4 DEF Typed
<1>8. Origin
  BY <1>1, FS_EmptySet DEF Origin
<1>9. Answers
  BY <1>1, <1>5, <1>6 DEF Answers
<1>10. Builds
  BY <1>1, <1>2, <1>5, <1>6 DEF Builds, IsBuild
<1>11. Shown
  BY <1>1, <1>2 DEF Shown
<1>12. Undisturbed
  <2>1. ListOK(view)
    BY <1>1, EmptyList DEF none
  <2>2. \A i \in DOMAIN requests : ~Loads(i)
    BY <1>5, <1>6 DEF Loads
  <2>3. QED  BY <1>1, <1>2, <2>1, <2>2 DEF Undisturbed
<1>13. QED  BY <1>7, <1>8, <1>9, <1>10, <1>11, <1>12 DEF IInv
-----------------------------------------------------------------------------
\* Movements.

\* The types that depend on the clock and on the builds only widen.
LEMMA Wider ==
  ASSUME Typed, clock' \in Nat, clock <= clock', build' \in Nat, build <= build'
  PROVE  /\ CursorType \subseteq CursorType' /\ PageType \subseteq PageType'
         /\ RequestType \subseteq RequestType'
<1>1. 1..clock \subseteq 1..clock' /\ 1..build \subseteq 1..build'
  BY DEF Typed
<1>2. CursorType \subseteq CursorType'
  BY <1>1 DEF CursorType
<1>3. PageType \subseteq PageType'
  BY <1>2 DEF PageType
<1>4. RequestType \subseteq RequestType'
  BY <1>1, <1>2, <1>3 DEF RequestType
<1>5. QED  BY <1>2, <1>3, <1>4

LEMMA StartMovementStep ==
  ASSUME IInv, NEW m \in Movements, StartMovement(m)
  PROVE  IInv'
<1>1. /\ clock' \in {clock, clock + 1} /\ createdAt[m] = 0
      /\ createdAt' = [createdAt EXCEPT ![m] = clock']
      /\ UNCHANGED <<rows, selected, cursor, view, build, requests, overtaken>>
  BY DEF StartMovement
<1>2. clock \in Nat \ {0} /\ clock' \in Nat \ {0} /\ clock <= clock' /\ build \in Nat
  BY <1>1 DEF IInv, Typed
<1>3. /\ CursorType \subseteq CursorType' /\ PageType \subseteq PageType'
      /\ RequestType \subseteq RequestType'
  BY <1>1, <1>2, Wider DEF IInv
<1>4. Typed'
  <2>1. createdAt' \in [Movements -> 0..clock']
    BY <1>1, <1>2 DEF IInv, Typed
  <2>2. requests \in Seq(RequestType')
    BY <1>3, SeqMonotonic DEF IInv, Typed
  <2>3. QED  BY <1>1, <1>2, <1>3, <2>1, <2>2 DEF IInv, Typed, ListType, FilterType, RowType
<1>5. Origin'
  <2>1. ASSUME NEW r \in rows
        PROVE  \E n \in Movements : createdAt'[n] > 0 /\ r \in RowsOf(n)'
    <3>1. PICK n \in Movements : createdAt[n] > 0 /\ r \in RowsOf(n)
      BY DEF IInv, Origin
    <3>2. n # m /\ createdAt'[n] = createdAt[n]
      BY <1>1, <3>1 DEF IInv, Typed
    <3>3. RowsOf(n)' = RowsOf(n)
      BY <3>2 DEF RowsOf
    <3>4. QED  BY <3>1, <3>2, <3>3
  <2>2. QED  BY <1>1, <2>1 DEF IInv, Origin
<1>6. Answers'
  BY <1>1 DEF IInv, Answers
<1>7. Builds' /\ Shown'
  BY <1>1 DEF IInv, Builds, Shown, IsBuild
<1>8. ~overtaken' => Undisturbed'
  BY <1>1 DEF IInv, Undisturbed, Loads, IsBuild
<1>9. QED  BY <1>4, <1>5, <1>6, <1>7, <1>8 DEF IInv

LEMMA CommitMovementStep ==
  ASSUME IInv, NEW m \in Movements, CommitMovement(m)
  PROVE  IInv'
<1>1. /\ createdAt[m] > 0 /\ rows' = rows \union RowsOf(m)
      /\ UNCHANGED <<clock, createdAt, selected, cursor, view, build, requests, overtaken>>
  BY DEF CommitMovement
<1>2. Typed'
  BY <1>1 DEF IInv, Typed, ListType, FilterType, RowType, RequestType, CursorType, PageType
<1>3. Origin'
  <2>1. IsFiniteSet(RowsOf(m))
    <3> DEFINE row(e) == [id |-> e.id, at |-> createdAt[m],
                          warehouse |-> e.warehouse, type |-> e.type]
               f == [e \in Entries[m] |-> row(e)]
    <3>1. f \in Surjection(Entries[m], RowsOf(m))
      BY DEF RowsOf, Surjection
    <3>2. IsFiniteSet(Entries[m])
      BY TransactionHistoryAssumption
    <3> HIDE DEF f
    <3>3. QED  BY <3>1, <3>2, FS_Surjection
  <2>2. IsFiniteSet(rows')
    BY <1>1, <2>1, FS_Union DEF IInv, Origin
  <2>3. \A n : RowsOf(n)' = RowsOf(n)
    BY <1>1 DEF RowsOf
  <2>4. QED  BY <1>1, <2>2, <2>3 DEF IInv, Origin
<1>4. rows \subseteq rows'
  BY <1>1
<1>5. Answers'
  BY <1>1, <1>4 DEF IInv, Answers
<1>6. Builds' /\ Shown'
  BY <1>1, <1>4 DEF IInv, Builds, Shown, IsBuild
<1>7. ~overtaken' => Undisturbed'
  BY <1>1 DEF IInv, Undisturbed, Loads, IsBuild
<1>8. QED  BY <1>2, <1>3, <1>5, <1>6, <1>7 DEF IInv
-----------------------------------------------------------------------------
\* Answers, on their way and received: one request changes.

LEMMA RequestFacts ==
  ASSUME Typed, NEW i \in DOMAIN requests
  PROVE  requests[i] \in RequestType /\ i \in Nat
BY DEF Typed

\* Request i becomes q, which says the same of where it belongs, and keeps
\* what it carries while it is not over.
Becomes(i, q) ==
  /\ requests' = [requests EXCEPT ![i] = q]
  /\ q.kind = requests[i].kind /\ q.build = requests[i].build
  /\ q.filter = requests[i].filter
  /\ Open(q) => /\ Open(requests[i]) /\ q.cursor = requests[i].cursor
                /\ q.current = requests[i].current

LEMMA BecomesFacts ==
  ASSUME Typed, NEW i \in DOMAIN requests, NEW q \in RequestType, Becomes(i, q)
  PROVE  /\ requests' \in Seq(RequestType) /\ Len(requests') = Len(requests)
         /\ DOMAIN requests' = DOMAIN requests /\ requests'[i] = q
         /\ \A j \in DOMAIN requests : j # i => requests'[j] = requests[j]
         /\ \A j \in DOMAIN requests :
              /\ requests'[j].kind = requests[j].kind
              /\ requests'[j].build = requests[j].build
              /\ requests'[j].filter = requests[j].filter
              /\ Open(requests'[j]) => /\ Open(requests[j])
                                       /\ requests'[j].cursor = requests[j].cursor
                                       /\ requests'[j].current = requests[j].current
<1>1. requests \in Seq(RequestType) /\ requests' = [requests EXCEPT ![i] = q]
  BY DEF Typed, Becomes
<1>2. /\ requests' \in Seq(RequestType) /\ Len(requests') = Len(requests)
      /\ DOMAIN requests' = DOMAIN requests /\ requests'[i] = q
      /\ \A j \in DOMAIN requests : j # i => requests'[j] = requests[j]
  BY <1>1
<1>3. ASSUME NEW j \in DOMAIN requests
      PROVE  /\ requests'[j].kind = requests[j].kind
             /\ requests'[j].build = requests[j].build
             /\ requests'[j].filter = requests[j].filter
             /\ Open(requests'[j]) => /\ Open(requests[j])
                                      /\ requests'[j].cursor = requests[j].cursor
                                      /\ requests'[j].current = requests[j].current
  <2>1. CASE j = i
    BY <1>2, <2>1 DEF Becomes
  <2>2. CASE j # i
    BY <1>2, <2>2
  <2>3. QED  BY <2>1, <2>2
<1>4. QED  BY <1>2, <1>3

\* What is known of the requests is kept.
LEMMA AnswersKept ==
  ASSUME IInv, NEW i \in DOMAIN requests, NEW q \in RequestType, Becomes(i, q),
         UNCHANGED <<rows, selected, build>>,
         q.kind = "build" => q.cursor = Start,
         q.status = "served" =>
           /\ PageOK(q.page, q.filter, q.cursor)
           /\ q.page.seen \subseteq rows
           /\ q.kind = "more" => q.current.seen \subseteq q.page.seen
  PROVE  Answers'
<1>1. Answers
  BY DEF IInv
<1>2. /\ DOMAIN requests' = DOMAIN requests /\ requests'[i] = q
      /\ \A j \in DOMAIN requests : j # i => requests'[j] = requests[j]
  BY BecomesFacts DEF IInv
<1>3. q.kind = "more" /\ Open(q) =>
        /\ q.current.build = q.build /\ q.current.status = "data"
        /\ ~q.current.loadingMore /\ q.current.seen \subseteq rows
        /\ q.build = build => q.filter = selected /\ q.current.filter = selected
  BY <1>1 DEF Answers, Becomes
<1>4. ASSUME NEW j \in DOMAIN requests
      PROVE  LET r == requests'[j]
             IN  /\ r.kind = "build" => r.cursor = Start
                 /\ r.kind = "more" /\ Open(r) =>
                      /\ r.current.build = r.build /\ r.current.status = "data"
                      /\ ~r.current.loadingMore /\ r.current.seen \subseteq rows
                      /\ r.build = build => r.filter = selected /\ r.current.filter = selected
                 /\ r.status = "served" =>
                      /\ PageOK(r.page, r.filter, r.cursor)
                      /\ r.page.seen \subseteq rows
                      /\ r.kind = "more" => r.current.seen \subseteq r.page.seen
  <2>1. CASE j = i
    BY <1>2, <1>3, <2>1
  <2>2. CASE j # i
    BY <1>1, <1>2, <2>2 DEF Answers
  <2>3. QED  BY <2>1, <2>2
<1>5. QED  BY <1>2, <1>4 DEF Answers

\* So is what is known of the builds, unless the list becomes one of a build
\* that is on its way.
LEMMA BuildsKept ==
  ASSUME IInv, NEW i \in DOMAIN requests, NEW q \in RequestType, Becomes(i, q),
         UNCHANGED <<selected, build>>,
         view'.build = build /\ view.build # build =>
           \A j \in DOMAIN requests : IsBuild(j, build) => ~Open(requests'[j])
  PROVE  Builds'
<1>1. Builds
  BY DEF IInv
<1>2. /\ DOMAIN requests' = DOMAIN requests
      /\ \A j \in DOMAIN requests :
           /\ requests'[j].kind = requests[j].kind
           /\ requests'[j].build = requests[j].build
           /\ requests'[j].filter = requests[j].filter
           /\ Open(requests'[j]) => Open(requests[j])
  BY BecomesFacts DEF IInv
<1>3. \A j \in DOMAIN requests : \A n : IsBuild(j, n)' <=> IsBuild(j, n)
  BY <1>2 DEF IsBuild
<1>4. \A j, k \in DOMAIN requests : \A n \in 1..build :
        IsBuild(j, n)' /\ IsBuild(k, n)' => j = k
  BY <1>1, <1>3 DEF Builds
<1>5. \E j \in DOMAIN requests : IsBuild(j, build)'
  BY <1>1, <1>3 DEF Builds
<1>6. ASSUME NEW j \in DOMAIN requests, IsBuild(j, build)
      PROVE  /\ requests'[j].filter = selected
             /\ Open(requests'[j]) =>
                  /\ view'.build # build
                  /\ \A k \in DOMAIN requests :
                       requests'[k].build = build => requests'[k].kind = "build"
  <2>1. requests[j].filter = selected
    BY <1>1, <1>6 DEF Builds
  <2>2. Open(requests[j]) => /\ view.build # build
                             /\ \A k \in DOMAIN requests :
                                  requests[k].build = build => requests[k].kind = "build"
    BY <1>1, <1>6 DEF Builds
  <2>3. QED  BY <1>2, <1>6, <2>1, <2>2
<1>7. QED  BY <1>2, <1>3, <1>4, <1>5, <1>6 DEF Builds

\* While a page is loaded, nothing changes for the list that it continues.
LEMMA UndisturbedKept ==
  ASSUME IInv, NEW i \in DOMAIN requests, NEW q \in RequestType, Becomes(i, q),
         UNCHANGED <<cursor, view, build>>, Undisturbed,
         IsBuild(i, build) => Open(q)
  PROVE  Undisturbed'
<1>1. /\ DOMAIN requests' = DOMAIN requests /\ requests'[i] = q
      /\ \A j \in DOMAIN requests : j # i => requests'[j] = requests[j]
      /\ \A j \in DOMAIN requests :
           /\ requests'[j].kind = requests[j].kind
           /\ requests'[j].build = requests[j].build
           /\ Open(requests'[j]) => /\ Open(requests[j])
                                    /\ requests'[j].cursor = requests[j].cursor
                                    /\ requests'[j].current = requests[j].current
  BY BecomesFacts DEF IInv
<1>2. ASSUME NEW j \in DOMAIN requests, Loads(j)'
      PROVE  Loads(j) /\ requests'[j].cursor = requests[j].cursor
             /\ requests'[j].current = requests[j].current
  BY <1>1, <1>2 DEF Loads
<1>3. \A j \in DOMAIN requests : IsBuild(j, build)' <=> IsBuild(j, build)
  BY <1>1 DEF IsBuild
<1>4. ASSUME NEW j \in DOMAIN requests, IsBuild(j, build), Open(requests[j])
      PROVE  Open(requests'[j])
  <2>1. CASE j = i
    BY <1>1, <1>4, <2>1
  <2>2. CASE j # i
    BY <1>1, <1>4, <2>2
  <2>3. QED  BY <2>1, <2>2
<1>5. ListOK(view)'
  BY DEF Undisturbed
<1>6. (view.build = build /\ view.hasMore => cursor = Position(Last(view.items)))'
  BY DEF Undisturbed
<1>7. ASSUME NEW j \in DOMAIN requests, Loads(j)'
      PROVE  /\ view'.build = build' /\ view'.hasMore /\ view'.loadingMore
             /\ requests'[j].current = [view' EXCEPT !.loadingMore = FALSE]
             /\ requests'[j].cursor = cursor'
             /\ \A k \in DOMAIN requests : Loads(k)' => j = k
  BY <1>2, <1>7 DEF Undisturbed
<1>8. view'.status = "data" /\ view'.build # build' =>
        \A j \in DOMAIN requests : IsBuild(j, build)' => Open(requests'[j])
  BY <1>3, <1>4 DEF Undisturbed
<1>9. QED  BY <1>1, <1>5, <1>6, <1>7, <1>8 DEF Undisturbed

\* The types of a step that changes one request and what is given of the rest.
LEMMA TypedKept ==
  ASSUME IInv, NEW i \in DOMAIN requests, NEW q \in RequestType, Becomes(i, q),
         UNCHANGED <<clock, createdAt, selected, build>>,
         cursor' \in CursorType, view' \in ListType, view'.build \in 0..build,
         overtaken' \in BOOLEAN
  PROVE  Typed'
<1>1. requests' \in Seq(RequestType) /\ Len(requests') = Len(requests)
  BY BecomesFacts DEF IInv
<1>2. CursorType' = CursorType /\ RequestType' = RequestType /\ ListType' = ListType
  BY DEF CursorType, RequestType, PageType, ListType, FilterType, RowType
<1>3. QED  BY <1>1, <1>2 DEF IInv, Typed, FilterType
-----------------------------------------------------------------------------
\* The service's answer, or none.

LEMMA OriginKept ==
  ASSUME IInv, UNCHANGED <<createdAt, rows>>
  PROVE  Origin'
BY DEF IInv, Origin, RowsOf

LEMMA ServeStep ==
  ASSUME IInv, NEW i \in DOMAIN requests, Serve(i)
  PROVE  IInv'
<1> DEFINE p == Page(requests[i].filter, requests[i].cursor)
           q == [requests[i] EXCEPT !.status = "served", !.page = p]
<1>1. /\ requests[i].status = "sent" /\ requests' = [requests EXCEPT ![i] = q]
      /\ UNCHANGED <<clock, createdAt, rows, selected, cursor, view, build, overtaken>>
  BY DEF Serve
<1>2. requests[i] \in RequestType
  BY RequestFacts DEF IInv
<1>3. /\ p \in PageType /\ PageOK(p, requests[i].filter, requests[i].cursor)
      /\ p.seen = rows
  <2>1. requests[i].filter \in FilterType /\ requests[i].cursor \in CursorType
    BY <1>2 DEF RequestType
  <2>2. QED  BY <2>1, PageFacts DEF IInv
<1> HIDE DEF p
<1>4. /\ q \in RequestType /\ q.status = "served" /\ q.page = p
      /\ q.kind = requests[i].kind /\ q.build = requests[i].build
      /\ q.filter = requests[i].filter /\ q.cursor = requests[i].cursor
      /\ q.current = requests[i].current
  BY <1>2, <1>3 DEF RequestType
<1> HIDE DEF q
<1>5. Becomes(i, q) /\ Open(q) /\ Open(requests[i])
  BY <1>1, <1>4 DEF Becomes, Open
<1>6. Typed'
  BY <1>1, <1>4, <1>5, TypedKept DEF IInv, Typed
<1>7. Answers'
  <2>1. q.kind = "build" => q.cursor = Start
    BY <1>4 DEF IInv, Answers
  <2>2. q.kind = "more" => q.current.seen \subseteq rows
    BY <1>4, <1>5 DEF IInv, Answers
  <2>3. QED  BY <1>1, <1>3, <1>4, <1>5, <2>1, <2>2, AnswersKept
<1>8. Builds'
  BY <1>1, <1>4, <1>5, BuildsKept
<1>9. Shown'
  BY <1>1 DEF IInv, Shown
<1>10. ~overtaken' => Undisturbed'
  BY <1>1, <1>4, <1>5, UndisturbedKept DEF IInv
<1>11. QED  BY <1>1, <1>6, <1>7, <1>8, <1>9, <1>10, OriginKept DEF IInv

LEMMA LoseStep ==
  ASSUME IInv, NEW i \in DOMAIN requests, Lose(i)
  PROVE  IInv'
<1> DEFINE q == [requests[i] EXCEPT !.status = "lost"]
<1>1. /\ requests[i].status \in {"sent", "served"} /\ requests' = [requests EXCEPT ![i] = q]
      /\ UNCHANGED <<clock, createdAt, rows, selected, cursor, view, build, overtaken>>
  BY DEF Lose
<1>2. requests[i] \in RequestType
  BY RequestFacts DEF IInv
<1>3. /\ q \in RequestType /\ q.status = "lost"
      /\ q.kind = requests[i].kind /\ q.build = requests[i].build
      /\ q.filter = requests[i].filter /\ q.cursor = requests[i].cursor
      /\ q.current = requests[i].current
  BY <1>2 DEF RequestType
<1> HIDE DEF q
<1>4. Becomes(i, q) /\ Open(q)
  BY <1>1, <1>3 DEF Becomes, Open
<1>5. Typed'
  BY <1>1, <1>3, <1>4, TypedKept DEF IInv, Typed
<1>6. Answers'
  <2>1. q.kind = "build" => q.cursor = Start
    BY <1>3 DEF IInv, Answers
  <2>2. QED  BY <1>1, <1>3, <1>4, <2>1, AnswersKept
<1>7. Builds'
  BY <1>1, <1>3, <1>4, BuildsKept
<1>8. Shown'
  BY <1>1 DEF IInv, Shown
<1>9. ~overtaken' => Undisturbed'
  BY <1>1, <1>3, <1>4, UndisturbedKept DEF IInv
<1>10. QED  BY <1>1, <1>5, <1>6, <1>7, <1>8, <1>9, OriginKept DEF IInv
-----------------------------------------------------------------------------
\* The client sends a request.

LEMMA Sent ==
  ASSUME Typed, NEW T, RequestType \subseteq T, NEW q \in T, Send(q)
  PROVE  LET n == Len(requests) + 1
         IN  /\ requests' \in Seq(T) /\ Len(requests') = n /\ n <= MaxRequests
             /\ DOMAIN requests' = DOMAIN requests \union {n} /\ n \notin DOMAIN requests
             /\ \A j \in DOMAIN requests : requests'[j] = requests[j]
             /\ requests'[n] = q
<1> DEFINE n == Len(requests) + 1
<1>1. requests \in Seq(RequestType) /\ requests' = Append(requests, q)
      /\ Len(requests) < MaxRequests /\ MaxRequests \in Nat
  BY TransactionHistoryAssumption DEF Typed, Send
<1>2. requests \in Seq(T)
  BY <1>1, SeqMonotonic
<1>3. /\ requests' \in Seq(T) /\ Len(requests') = n
      /\ \A j \in 1..Len(requests) : requests'[j] = requests[j]
      /\ requests'[n] = q
  BY <1>1, <1>2, AppendProperties
<1>4. Len(requests) \in Nat /\ DOMAIN requests = 1..Len(requests)
  BY <1>1
<1>5. DOMAIN requests' = 1..n
  BY <1>3
<1>6. n <= MaxRequests /\ DOMAIN requests' = DOMAIN requests \union {n} /\ n \notin DOMAIN requests
  BY <1>1, <1>4, <1>5
<1>7. QED  BY <1>3, <1>4, <1>6

\* build(), whatever the list looks like that it leaves.
LEMMA BuildStep ==
  ASSUME IInv, NEW filter \in FilterType, Build(filter), selected' = filter,
         UNCHANGED <<clock, createdAt, rows, overtaken>>,
         view' = view \/ view' = [view EXCEPT !.status = "loading"]
  PROVE  IInv'
<1> DEFINE q == Request("build", filter, Start, build + 1, view)
<1>0. PICK n \in Nat : n = Len(requests) + 1
  <2>1. Len(requests) \in Nat
    BY DEF IInv, Typed
  <2>2. QED  BY <2>1
<1>1. build' = build + 1 /\ cursor' = Start /\ Send(q)
  BY DEF Build
<1>2. /\ view' \in ListType /\ view'.build = view.build /\ view'.items = view.items
      /\ view'.hasMore = view.hasMore /\ view'.filter = view.filter
      /\ view'.seen = view.seen
      /\ view'.status = "data" => view.status = "data"
  BY DEF IInv, Typed, ListType
<1>3. /\ clock \in Nat \ {0} /\ build \in Nat \ {0} /\ view \in ListType
      /\ view.build \in 0..build /\ build' \in Nat \ {0} /\ build <= build'
      /\ build <= Len(requests)
  BY <1>1 DEF IInv, Typed
<1>4. /\ CursorType \subseteq CursorType' /\ PageType \subseteq PageType'
      /\ RequestType \subseteq RequestType'
  BY <1>3, Wider DEF IInv
<1>5. NoPage \in PageType /\ Start \in CursorType /\ build + 1 \in 1..build'
  BY <1>1, <1>3 DEF NoPage, PageType, CursorType
<1>6. q \in RequestType'
  BY <1>3, <1>4, <1>5
  DEF Request, RequestType, FilterType, ListType, RowType
<1>7. /\ q.kind = "build" /\ q.build = build' /\ q.filter = filter /\ q.cursor = Start
      /\ q.status = "sent"
  BY <1>1 DEF Request
<1> HIDE DEF q
<1>8. /\ requests' \in Seq(RequestType') /\ Len(requests') = n /\ n <= MaxRequests
      /\ DOMAIN requests' = DOMAIN requests \union {n} /\ n \notin DOMAIN requests
      /\ \A j \in DOMAIN requests : requests'[j] = requests[j]
      /\ requests'[n] = q
  BY <1>0, <1>1, <1>4, <1>6, Sent DEF IInv
<1>9. Len(requests) \in Nat /\ \A j \in DOMAIN requests : requests[j].build \in 1..build
  <2>1. requests \in Seq(RequestType)
    BY DEF IInv, Typed
  <2>2. \A j \in DOMAIN requests : requests[j] \in RequestType
    BY <2>1
  <2>3. QED  BY <2>1, <2>2 DEF RequestType
<1>10. \A j \in DOMAIN requests : /\ requests'[j].build # build'
                                  /\ requests'[j].build \in 1..build
  BY <1>1, <1>3, <1>8, <1>9
<1>11. Typed'
  <2>1. build' <= Len(requests')
    BY <1>0, <1>1, <1>3, <1>8, <1>9
  <2>2. view'.build \in 0..build'
    BY <1>2, <1>3
  <2>3. /\ ListType' = ListType /\ FilterType' = FilterType
    BY DEF ListType, FilterType, RowType
  <2>4. cursor' \in CursorType'
    BY <1>1, <1>4, <1>5
  <2>5. createdAt' \in [Movements -> 0..clock'] /\ overtaken' \in BOOLEAN
    BY DEF IInv, Typed
  <2>6. QED  BY <1>2, <1>3, <1>8, <2>1, <2>2, <2>3, <2>4, <2>5 DEF Typed
<1>12. Answers'
  <2>1. ASSUME NEW j \in DOMAIN requests
        PROVE  LET r == requests'[j]
               IN  /\ r.kind = "build" => r.cursor = Start
                   /\ r.kind = "more" /\ Open(r) =>
                        /\ r.current.build = r.build /\ r.current.status = "data"
                        /\ ~r.current.loadingMore /\ r.current.seen \subseteq rows'
                        /\ r.build = build' => r.filter = selected' /\ r.current.filter = selected'
                   /\ r.status = "served" =>
                        /\ PageOK(r.page, r.filter, r.cursor)
                        /\ r.page.seen \subseteq rows'
                        /\ r.kind = "more" => r.current.seen \subseteq r.page.seen
    BY <1>8, <1>10 DEF IInv, Answers
  <2>2. QED  BY <1>7, <1>8, <2>1 DEF Answers
<1>13. Builds'
  <2>1. \A j \in DOMAIN requests : \A m : IsBuild(j, m)' <=> IsBuild(j, m)
    BY <1>8 DEF IsBuild
  <2>2. \A j \in DOMAIN requests : ~IsBuild(j, build') /\ ~IsBuild(j, build)'
    BY <1>8, <1>10 DEF IsBuild
  <2>3. IsBuild(n, build)' /\ \A m : IsBuild(n, m)' => m = build'
    BY <1>7, <1>8 DEF IsBuild
  <2>4. ASSUME NEW j \in DOMAIN requests', NEW k \in DOMAIN requests', NEW m \in 1..build',
               IsBuild(j, m)', IsBuild(k, m)'
        PROVE  j = k
    <3>1. CASE m = build'
      BY <1>8, <2>2, <2>4, <3>1
    <3>2. CASE m # build'
      <4>1. j \in DOMAIN requests /\ k \in DOMAIN requests /\ m \in 1..build
        <5>1. j # n /\ k # n
          BY <2>3, <2>4, <3>2
        <5>2. m \in 1..build
          BY <1>1, <1>3, <3>2
        <5>3. QED  BY <1>8, <5>1, <5>2
      <4>2. QED  BY <2>1, <2>4, <4>1 DEF IInv, Builds
    <3>3. QED  BY <3>1, <3>2
  <2>5. \A j \in DOMAIN requests' : IsBuild(j, build)' => j = n
    BY <1>8, <2>2
  <2>6. view'.build # build'
    BY <1>1, <1>2, <1>3
  <2>7. \A k \in DOMAIN requests' : requests'[k].build = build' => requests'[k].kind = "build"
    BY <1>7, <1>8, <1>10
  <2>8. QED  BY <1>7, <1>8, <2>3, <2>4, <2>5, <2>6, <2>7 DEF Builds
<1>14. Shown'
  BY <1>1, <1>2, <1>3 DEF IInv, Shown
<1>15. ~overtaken' => Undisturbed'
  <2> SUFFICES ASSUME ~overtaken PROVE Undisturbed'
    OBVIOUS
  <2>1. ListOK(view')
    BY <1>2 DEF IInv, Undisturbed, ListOK
  <2>2. view'.build # build'
    BY <1>1, <1>2, <1>3
  <2>3. \A j \in DOMAIN requests' : ~Loads(j)'
    BY <1>7, <1>8, <1>10 DEF Loads
  <2>4. \A j \in DOMAIN requests' : IsBuild(j, build)' => Open(requests'[j])
    BY <1>7, <1>8, <1>10 DEF IsBuild, Open
  <2>5. QED  BY <2>1, <2>2, <2>3, <2>4 DEF Undisturbed
<1>16. QED  BY <1>11, <1>12, <1>13, <1>14, <1>15, OriginKept DEF IInv

LEMMA SelectStep ==
  ASSUME IInv, NEW filter \in Filters, Select(filter) \/ ApplyFilter(filter)
  PROVE  IInv'
<1>1. filter \in FilterType
  BY TransactionHistoryAssumption
<1>2. QED  BY <1>1, BuildStep DEF Select, ApplyFilter

LEMMA RetryStep ==
  ASSUME IInv, Retry
  PROVE  IInv'
<1>1. selected \in FilterType
  BY DEF IInv, Typed
<1>2. QED  BY <1>1, BuildStep DEF Retry

LEMMA LoadMoreStep ==
  ASSUME IInv, LoadMore
  PROVE  IInv'
<1> DEFINE q == Request("more", selected, cursor, view.build, view)
<1>0. PICK n \in Nat : n = Len(requests) + 1
  <2>1. Len(requests) \in Nat
    BY DEF IInv, Typed
  <2>2. QED  BY <2>1
<1>1. /\ view.status = "data" /\ view.hasMore /\ ~view.loadingMore
      /\ view' = [view EXCEPT !.loadingMore = TRUE] /\ Send(q)
      /\ UNCHANGED <<clock, createdAt, rows, selected, cursor, build, overtaken>>
  BY DEF LoadMore
<1>2. /\ clock \in Nat \ {0} /\ build \in Nat \ {0} /\ view \in ListType
      /\ view.build \in 1..build /\ cursor \in CursorType /\ selected \in FilterType
  BY <1>1 DEF IInv, Typed, Shown
<1>3. /\ view' \in ListType /\ view'.build = view.build /\ view'.items = view.items
      /\ view'.hasMore = view.hasMore /\ view'.filter = view.filter
      /\ view'.seen = view.seen /\ view'.status = view.status /\ view'.loadingMore
      /\ view = [view' EXCEPT !.loadingMore = FALSE]
  BY <1>1, <1>2 DEF ListType
<1>4. NoPage \in PageType
  BY DEF NoPage, PageType, CursorType
<1>5. q \in RequestType
  BY <1>2, <1>4 DEF Request, RequestType
<1>6. /\ q.kind = "more" /\ q.build = view.build /\ q.filter = selected
      /\ q.cursor = cursor /\ q.status = "sent" /\ q.current = view
  BY DEF Request
<1> HIDE DEF q
<1>7. /\ requests' \in Seq(RequestType) /\ Len(requests') = n /\ n <= MaxRequests
      /\ DOMAIN requests' = DOMAIN requests \union {n} /\ n \notin DOMAIN requests
      /\ \A j \in DOMAIN requests : requests'[j] = requests[j]
      /\ requests'[n] = q
  BY <1>0, <1>1, <1>5, Sent DEF IInv
<1>8. Typed'
  <2>1. CursorType' = CursorType /\ RequestType' = RequestType /\ ListType' = ListType
    BY <1>1 DEF CursorType, RequestType, PageType, ListType, FilterType, RowType
  <2>2. Len(requests) \in Nat /\ build <= Len(requests)
    BY DEF IInv, Typed
  <2>3. build' <= Len(requests')
    BY <1>0, <1>1, <1>2, <1>7, <2>2
  <2>4. view'.build \in 0..build'
    BY <1>1, <1>2, <1>3
  <2>5. QED  BY <1>1, <1>3, <1>7, <2>1, <2>3, <2>4 DEF IInv, Typed, FilterType
<1>9. Answers'
  <2>1. /\ q.current.build = q.build /\ q.current.status = "data"
        /\ ~q.current.loadingMore /\ q.current.seen \subseteq rows
        /\ q.build = build => q.filter = selected /\ q.current.filter = selected
    BY <1>1, <1>6 DEF IInv, Shown
  <2>2. QED  BY <1>1, <1>6, <1>7, <2>1 DEF IInv, Answers
<1>10. Builds'
  <2>1. \A j \in DOMAIN requests : \A m : IsBuild(j, m)' <=> IsBuild(j, m)
    BY <1>7 DEF IsBuild
  <2>2. \A m : ~IsBuild(n, m)'
    BY <1>6, <1>7 DEF IsBuild
  <2>3. /\ \A j, k \in DOMAIN requests' : \A m \in 1..build :
             IsBuild(j, m)' /\ IsBuild(k, m)' => j = k
        /\ \E j \in DOMAIN requests' : IsBuild(j, build)'
    <3>1. \A j \in DOMAIN requests' : \A m : IsBuild(j, m)' => j \in DOMAIN requests /\ IsBuild(j, m)
      BY <1>7, <2>1, <2>2
    <3>2. QED  BY <1>1, <1>7, <2>1, <3>1 DEF IInv, Builds
  <2>4. ASSUME NEW j \in DOMAIN requests', IsBuild(j, build)'
        PROVE  /\ requests'[j].filter = selected
               /\ Open(requests'[j]) =>
                    /\ view'.build # build
                    /\ \A k \in DOMAIN requests' :
                         requests'[k].build = build => requests'[k].kind = "build"
    <3>1. j \in DOMAIN requests /\ IsBuild(j, build) /\ requests'[j] = requests[j]
      BY <1>1, <1>7, <2>1, <2>2, <2>4
    <3>2. requests[j].filter = selected
      BY <3>1 DEF IInv, Builds
    <3>3. Open(requests[j]) => /\ view.build # build
                               /\ \A k \in DOMAIN requests :
                                    requests[k].build = build => requests[k].kind = "build"
      BY <3>1 DEF IInv, Builds
    <3>4. QED  BY <1>3, <1>6, <1>7, <3>1, <3>2, <3>3
  <2>5. QED  BY <1>1, <2>3, <2>4 DEF Builds
<1>11. Shown'
  BY <1>1, <1>3 DEF IInv, Shown
<1>12. ~overtaken' => Undisturbed'
  <2> SUFFICES ASSUME Undisturbed PROVE Undisturbed'
    BY <1>1 DEF IInv
  <2>1. ListOK(view')
    BY <1>3 DEF Undisturbed, ListOK
  <2>2. view'.build = build /\ view'.hasMore => cursor = Position(Last(view'.items))
    BY <1>3 DEF Undisturbed
  <2>3. \A j \in DOMAIN requests : ~Loads(j) /\ ~Loads(j)'
    <3>1. \A j \in DOMAIN requests : ~Loads(j)
      BY <1>1 DEF Undisturbed
    <3>2. QED  BY <1>1, <1>7, <3>1 DEF Loads
  <2>4. ASSUME NEW j \in DOMAIN requests', Loads(j)'
        PROVE  /\ view'.build = build' /\ view'.hasMore /\ view'.loadingMore
               /\ requests'[j].current = [view' EXCEPT !.loadingMore = FALSE]
               /\ requests'[j].cursor = cursor'
               /\ \A k \in DOMAIN requests' : Loads(k)' => j = k
    <3>1. j = n /\ requests'[j] = q
      BY <1>7, <2>3, <2>4
    <3>2. view.build = build
      BY <1>1, <1>6, <2>4, <3>1 DEF Loads
    <3>3. \A k \in DOMAIN requests' : Loads(k)' => j = k
      BY <1>7, <2>3, <3>1
    <3>4. QED  BY <1>1, <1>3, <1>6, <3>1, <3>2, <3>3
  <2>5. view'.status = "data" /\ view'.build # build' =>
          \A j \in DOMAIN requests' : IsBuild(j, build)' => Open(requests'[j])
    <3>1. \A j \in DOMAIN requests' : IsBuild(j, build)' =>
            j \in DOMAIN requests /\ IsBuild(j, build) /\ requests'[j] = requests[j]
      BY <1>1, <1>6, <1>7 DEF IsBuild
    <3>2. QED  BY <1>1, <1>3, <3>1 DEF Undisturbed
  <2>6. QED  BY <1>1, <2>1, <2>2, <2>4, <2>5 DEF Undisturbed
<1>13. QED  BY <1>1, <1>8, <1>9, <1>10, <1>11, <1>12, OriginKept DEF IInv
-----------------------------------------------------------------------------
\* The client receives an answer, or learns that there is none.

LEMMA FinishFacts ==
  ASSUME IInv, NEW i \in DOMAIN requests, Finish(i), Open(requests[i])
  PROVE  LET q == Finished(requests[i])
         IN  /\ q \in RequestType /\ Becomes(i, q) /\ q.status = "done" /\ ~Open(q)
             /\ q.cursor = Start
             /\ q.kind = requests[i].kind /\ q.build = requests[i].build
             /\ q.filter = requests[i].filter
<1> DEFINE q == Finished(requests[i])
<1>1. requests[i] \in RequestType
  BY RequestFacts DEF IInv
<1>2. requests[i].current \in ListType /\ requests[i].current.filter \in FilterType
  BY <1>1 DEF RequestType, ListType
<1>3. List("loading", <<>>, FALSE, 0, requests[i].current.filter, {}) \in ListType
  <2>1. <<>> \in Seq(RowType) /\ {} \in SUBSET RowType
    OBVIOUS
  <2>2. QED  BY <1>2, <2>1 DEF List, ListType
<1>4. NoPage \in PageType /\ Start \in CursorType
  BY DEF NoPage, PageType, CursorType
<1>5. /\ q \in RequestType /\ q.status = "done" /\ q.cursor = Start
      /\ q.kind = requests[i].kind /\ q.build = requests[i].build
      /\ q.filter = requests[i].filter
  BY <1>1, <1>3, <1>4 DEF Finished, RequestType
<1>6. requests' = [requests EXCEPT ![i] = q]
  BY DEF Finish, Finished
<1> HIDE DEF q
<1>7. Becomes(i, q) /\ ~Open(q)
  BY <1>5, <1>6 DEF Becomes, Open
<1>8. QED  BY <1>5, <1>7 DEF q

\* While the latest build is on its way, no page of its list is.
LEMMA NothingLoads ==
  ASSUME Builds, NEW i \in DOMAIN requests, IsBuild(i, build), Open(requests[i])
  PROVE  view.build # build /\ \A j \in DOMAIN requests : ~Loads(j)
<1>1. \A j \in DOMAIN requests : requests[j].build = build => requests[j].kind = "build"
  BY DEF Builds
<1>2. QED  BY <1>1 DEF Builds, Loads

\* A request that is over loads nothing, and the others are what they were.
LEMMA StillLoads ==
  ASSUME IInv, NEW i \in DOMAIN requests, NEW q \in RequestType, Becomes(i, q), ~Open(q),
         build' = build
  PROVE  /\ DOMAIN requests' = DOMAIN requests
         /\ \A j \in DOMAIN requests : Loads(j)' => j # i /\ Loads(j)
<1>1. /\ DOMAIN requests' = DOMAIN requests /\ requests'[i] = q
      /\ \A j \in DOMAIN requests : j # i => requests'[j] = requests[j]
  BY BecomesFacts DEF IInv
<1>2. ASSUME NEW j \in DOMAIN requests, Loads(j)'
      PROVE  j # i /\ Loads(j)
  <2>1. j # i
    BY <1>1, <1>2 DEF Loads
  <2>2. QED  BY <1>1, <1>2, <2>1 DEF Loads
<1>3. QED  BY <1>1, <1>2

LEMMA BuildDoneStep ==
  ASSUME IInv, NEW i \in DOMAIN requests, BuildDone(i)
  PROVE  IInv'
<1> DEFINE r == requests[i]
           q == Finished(r)
           new == List("data", r.page.items, r.page.more, build, r.filter, r.page.seen)
<1>1. /\ r.kind = "build" /\ r.status = "served" /\ cursor' = r.page.next
      /\ view' = IF r.build = build THEN new ELSE view
      /\ overtaken' = (r.build # build) /\ Finish(i)
      /\ UNCHANGED <<clock, createdAt, rows, selected, build>>
  BY DEF BuildDone
<1>2. /\ r \in RequestType /\ r.page \in PageType /\ r.filter \in FilterType
      /\ r.page.next \in CursorType
  <2>1. r \in RequestType
    BY RequestFacts DEF IInv
  <2>2. QED  BY <2>1 DEF RequestType, PageType
<1>3. Open(r)
  BY <1>1 DEF Open
<1>4. /\ q \in RequestType /\ Becomes(i, q) /\ q.status = "done" /\ ~Open(q)
      /\ q.cursor = Start
      /\ q.kind = r.kind /\ q.build = r.build /\ q.filter = r.filter
  BY <1>1, <1>3, FinishFacts
<1>5. /\ new \in ListType /\ new.build = build /\ new.status = "data"
      /\ new.seen = r.page.seen /\ new.filter = r.filter
      /\ new.items = r.page.items /\ new.hasMore = r.page.more
  <2>1. build \in Nat
    BY DEF IInv, Typed
  <2>2. QED  BY <1>2, <2>1 DEF List, ListType, PageType
<1>6. /\ PageOK(r.page, r.filter, Start) /\ r.page.seen \subseteq rows
  BY <1>1 DEF IInv, Answers
<1>7. ListOK(new) /\ (new.hasMore => cursor' = Position(Last(new.items)))
  BY <1>1, <1>2, <1>5, <1>6, FirstPage
<1> HIDE DEF new, q, r
<1>8. r.build = build => /\ IsBuild(i, build) /\ r.filter = selected
                         /\ view.build # build /\ \A j \in DOMAIN requests : ~Loads(j)
  <2>1. r.build = build => IsBuild(i, build)
    BY <1>1 DEF IsBuild, r
  <2>2. QED  BY <1>3, <2>1, NothingLoads DEF IInv, Builds, r
<1>9. Typed'
  <2>1. view' \in ListType /\ view'.build \in 0..build
    BY <1>1, <1>5 DEF IInv, Typed
  <2>2. overtaken' \in BOOLEAN
    BY <1>1
  <2>3. QED  BY <1>1, <1>2, <1>4, <2>1, <2>2, TypedKept
<1>10. Answers'
  BY <1>1, <1>4, AnswersKept
<1>11. Builds'
  <2>1. ASSUME view'.build = build, view.build # build, NEW j \in DOMAIN requests,
               IsBuild(j, build)
        PROVE  ~Open(requests'[j])
    <3>1. r.build = build
      BY <1>1, <2>1
    <3>2. j = i
      <4>1. build \in 1..build
        BY DEF IInv, Typed
      <4>2. QED  BY <1>8, <2>1, <3>1, <4>1 DEF IInv, Builds
    <3>3. requests'[i] = q
      BY <1>4, BecomesFacts DEF IInv
    <3>4. QED  BY <1>4, <3>2, <3>3
  <2>2. QED  BY <1>1, <1>4, <2>1, BuildsKept
<1>12. Shown'
  <2>1. CASE r.build = build
    <3>1. view' = new /\ r.filter = selected
      BY <1>1, <1>8, <2>1
    <3>2. build # 0
      BY DEF IInv, Typed
    <3>3. QED  BY <1>1, <1>5, <1>6, <3>1, <3>2 DEF Shown
  <2>2. CASE r.build # build
    <3>1. view' = view
      BY <1>1, <2>2
    <3>2. QED  BY <1>1, <3>1 DEF IInv, Shown
  <2>3. QED  BY <2>1, <2>2
<1>13. ~overtaken' => Undisturbed'
  <2> SUFFICES ASSUME r.build = build PROVE Undisturbed'
    BY <1>1
  <2>1. view' = new
    BY <1>1
  <2>2. \A j \in DOMAIN requests' : ~Loads(j)'
    BY <1>1, <1>4, <1>8, StillLoads
  <2>3. QED  BY <1>1, <1>5, <1>7, <2>1, <2>2 DEF Undisturbed
<1>14. QED  BY <1>1, <1>9, <1>10, <1>11, <1>12, <1>13, OriginKept DEF IInv

LEMMA BuildFailedStep ==
  ASSUME IInv, NEW i \in DOMAIN requests, BuildFailed(i)
  PROVE  IInv'
<1> DEFINE r == requests[i]
           q == Finished(r)
<1>1. /\ r.kind = "build" /\ r.status = "lost"
      /\ view' = IF r.build = build THEN [view EXCEPT !.status = "error"] ELSE view
      /\ Finish(i)
      /\ UNCHANGED <<clock, createdAt, rows, selected, cursor, build, overtaken>>
  BY DEF BuildFailed
<1>2. Open(r)
  BY <1>1 DEF Open
<1>3. /\ q \in RequestType /\ Becomes(i, q) /\ q.status = "done" /\ ~Open(q)
      /\ q.cursor = Start
      /\ q.kind = r.kind /\ q.build = r.build /\ q.filter = r.filter
  BY <1>1, <1>2, FinishFacts
<1>4. /\ view \in ListType /\ view.build \in 0..build /\ cursor \in CursorType
      /\ overtaken \in BOOLEAN
  BY DEF IInv, Typed
<1>5. /\ view' \in ListType /\ view'.build = view.build /\ view'.items = view.items
      /\ view'.hasMore = view.hasMore /\ view'.filter = view.filter
      /\ view'.seen = view.seen
      /\ view'.status = "data" => view.status = "data"
      /\ r.build = build => view'.status = "error"
  BY <1>1, <1>4 DEF ListType
<1> HIDE DEF q, r
<1>6. Typed'
  BY <1>1, <1>3, <1>4, <1>5, TypedKept
<1>7. Answers'
  BY <1>1, <1>3, AnswersKept
<1>8. Builds'
  BY <1>1, <1>3, <1>5, BuildsKept
<1>9. Shown'
  BY <1>1, <1>5 DEF IInv, Shown
<1>10. ~overtaken' => Undisturbed'
  <2> SUFFICES ASSUME Undisturbed PROVE Undisturbed'
    BY <1>1 DEF IInv
  <2>1. CASE r.build = build
    <3>1. view.build # build /\ \A j \in DOMAIN requests : ~Loads(j)
      <4>1. IsBuild(i, build) /\ Open(requests[i])
        BY <1>1, <1>2, <2>1 DEF IsBuild, r
      <4>2. QED  BY <4>1, NothingLoads DEF IInv
    <3>2. \A j \in DOMAIN requests' : ~Loads(j)'
      BY <1>1, <1>3, <3>1, StillLoads
    <3>3. ListOK(view')
      BY <1>5 DEF Undisturbed, ListOK
    <3>4. QED  BY <1>1, <1>5, <2>1, <3>1, <3>2, <3>3 DEF Undisturbed
  <2>2. CASE r.build # build
    <3>1. view' = view /\ ~IsBuild(i, build)
      BY <1>1, <2>2 DEF IsBuild, r
    <3>2. QED  BY <1>1, <1>3, <3>1, UndisturbedKept
  <2>3. QED  BY <2>1, <2>2
<1>11. QED  BY <1>1, <1>6, <1>7, <1>8, <1>9, <1>10, OriginKept DEF IInv
\* What the answer to loadMore belongs to, and what it finds.
LEMMA MoreFacts ==
  ASSUME IInv, NEW i \in DOMAIN requests, requests[i].kind = "more", Open(requests[i])
  PROVE  LET r == requests[i]
         IN  /\ r \in RequestType /\ r.current \in ListType
             /\ r.current.build = r.build /\ r.build \in 1..build
             /\ r.current.status = "data" /\ r.current.seen \subseteq rows
             /\ r.build = build =>
                  /\ r.filter = selected /\ r.current.filter = selected
                  /\ \A j \in DOMAIN requests : IsBuild(j, build) => ~Open(requests[j])
<1> DEFINE r == requests[i]
<1>1. r \in RequestType
  BY RequestFacts DEF IInv
<1>2. r.current \in ListType /\ r.build \in 1..build
  BY <1>1 DEF RequestType
<1>3. /\ r.current.build = r.build
      /\ r.current.status = "data" /\ r.current.seen \subseteq rows
      /\ r.build = build => r.filter = selected /\ r.current.filter = selected
  BY DEF IInv, Answers
<1>4. r.build = build => \A j \in DOMAIN requests : IsBuild(j, build) => ~Open(requests[j])
  BY DEF IInv, Builds
<1>5. QED  BY <1>1, <1>2, <1>3, <1>4

\* While nothing has overtaken the list, the answer is the one it waits for.
LEMMA Awaited ==
  ASSUME IInv, Undisturbed, NEW i \in DOMAIN requests, Loads(i)
  PROVE  LET c == requests[i].current
         IN  /\ ListOK(c) /\ c.hasMore /\ c.build = build
             /\ cursor = Position(Last(c.items)) /\ requests[i].cursor = cursor
             /\ \A j \in DOMAIN requests : Loads(j) => i = j
<1> DEFINE c == requests[i].current
<1>1. /\ view.build = build /\ view.hasMore /\ c = [view EXCEPT !.loadingMore = FALSE]
      /\ requests[i].cursor = cursor /\ \A j \in DOMAIN requests : Loads(j) => i = j
  BY DEF Undisturbed
<1>2. view \in ListType
  BY DEF IInv, Typed
<1> HIDE DEF c
<1>3. /\ c.items = view.items /\ c.hasMore = view.hasMore /\ c.build = view.build
      /\ c.filter = view.filter /\ c.seen = view.seen
  BY <1>1, <1>2 DEF ListType
<1>4. ListOK(c) /\ cursor = Position(Last(c.items))
  BY <1>1, <1>3 DEF Undisturbed, ListOK
<1>5. QED  BY <1>1, <1>3, <1>4 DEF c

\* The answer to loadMore, whether it brings a page or not: what it makes of
\* the list is what the invariant asks for.
LEMMA MoreStep ==
  ASSUME IInv, NEW i \in DOMAIN requests, requests[i].kind = "more", Open(requests[i]),
         Finish(i), UNCHANGED <<clock, createdAt, rows, selected, build>>,
         overtaken' = (overtaken \/ requests[i].build # build),
         cursor' \in CursorType, view' \in ListType,
         view'.build = requests[i].build, view'.status = "data",
         view'.filter = requests[i].current.filter, view'.seen = requests[i].current.seen,
         Loads(i) /\ Undisturbed =>
           ListOK(view') /\ (view'.hasMore => cursor' = Position(Last(view'.items)))
  PROVE  IInv'
<1> DEFINE r == requests[i]
           q == Finished(r)
<1>1. /\ r.build \in 1..build /\ r.current.seen \subseteq rows
      /\ r.build = build =>
           /\ r.filter = selected /\ r.current.filter = selected
           /\ \A j \in DOMAIN requests : IsBuild(j, build) => ~Open(requests[j])
  BY MoreFacts
<1>2. /\ q \in RequestType /\ Becomes(i, q) /\ q.status = "done" /\ ~Open(q)
      /\ q.kind = r.kind /\ q.build = r.build /\ q.filter = r.filter
  BY FinishFacts
<1> HIDE DEF q
<1>3. overtaken' \in BOOLEAN /\ build \in Nat \ {0}
  BY DEF IInv, Typed
<1>4. Typed'
  BY <1>1, <1>2, <1>3, TypedKept
<1>5. Answers'
  BY <1>2, AnswersKept
<1>6. Builds'
  <2>1. \A j \in DOMAIN requests : Open(requests'[j]) => Open(requests[j])
    BY <1>2, BecomesFacts DEF IInv
  <2>2. QED  BY <1>1, <1>2, <2>1, BuildsKept
<1>7. Shown'
  BY <1>1, <1>3 DEF Shown
<1>8. ~overtaken' => Undisturbed'
  <2> SUFFICES ASSUME Undisturbed, r.build = build PROVE Undisturbed'
    BY DEF IInv
  <2>1. Loads(i)
    BY DEF Loads
  <2>2. \A j \in DOMAIN requests' : ~Loads(j)'
    BY <1>2, <2>1, Awaited, StillLoads
  <2>3. QED  BY <2>1, <2>2 DEF Undisturbed
<1>9. QED  BY <1>4, <1>5, <1>6, <1>7, <1>8, OriginKept DEF IInv

LEMMA MoreDoneStep ==
  ASSUME IInv, NEW i \in DOMAIN requests, MoreDone(i)
  PROVE  IInv'
<1> DEFINE r == requests[i]
           c == r.current
           new == [c EXCEPT !.items = @ \o r.page.items, !.hasMore = r.page.more]
<1>1. /\ r.kind = "more" /\ r.status = "served" /\ cursor' = r.page.next
      /\ view' = new /\ overtaken' = (overtaken \/ r.build # build) /\ Finish(i)
      /\ UNCHANGED <<clock, createdAt, rows, selected, build>>
  BY DEF MoreDone
<1>2. Open(r)
  BY <1>1 DEF Open
<1>3. /\ r \in RequestType /\ c \in ListType /\ c.build = r.build /\ c.status = "data"
      /\ r.build = build => r.filter = selected /\ c.filter = selected
  BY <1>1, <1>2, MoreFacts
<1>4. r.page \in PageType /\ r.page.next \in CursorType
  BY <1>3 DEF RequestType, PageType
<1>5. /\ new \in ListType /\ new.build = c.build /\ new.status = c.status
      /\ new.filter = c.filter /\ new.seen = c.seen /\ new.hasMore = r.page.more
  <2>1. /\ c.items \in Seq(RowType) /\ r.page.items \in Seq(RowType)
        /\ r.page.more \in BOOLEAN
    BY <1>3, <1>4 DEF ListType, PageType
  <2>2. c.items \o r.page.items \in Seq(RowType)
    BY <2>1
  <2>3. QED  BY <1>3, <2>1, <2>2 DEF ListType
<1>6. /\ PageOK(r.page, r.filter, r.cursor) /\ c.seen \subseteq r.page.seen
  BY <1>1 DEF IInv, Answers
<1>7. ASSUME Loads(i), Undisturbed
      PROVE  ListOK(new) /\ (new.hasMore => cursor' = Position(Last(new.items)))
  <2>1. /\ ListOK(c) /\ c.hasMore /\ r.cursor = Position(Last(c.items))
        /\ r.filter = c.filter
    BY <1>3, <1>7, Awaited DEF Loads
  <2>2. PageOK(r.page, c.filter, Position(Last(c.items)))
    BY <1>6, <2>1
  <2> HIDE DEF c, r
  <2>3. /\ ListOK(Continued(c, r.page))
        /\ r.page.more => r.page.next = Position(Last(Continued(c, r.page).items))
    BY <1>3, <1>4, <1>6, <2>1, <2>2, NextPage
  <2>4. new = Continued(c, r.page)
    BY DEF Continued
  <2> HIDE DEF new
  <2>5. QED  BY <1>1, <1>5, <2>3, <2>4
<1> HIDE DEF new
<1>8. QED  BY <1>1, <1>2, <1>3, <1>4, <1>5, <1>7, MoreStep

LEMMA MoreFailedStep ==
  ASSUME IInv, NEW i \in DOMAIN requests, MoreFailed(i)
  PROVE  IInv'
<1> DEFINE r == requests[i]
<1>1. /\ r.kind = "more" /\ r.status = "lost" /\ view' = r.current
      /\ overtaken' = (overtaken \/ r.build # build) /\ Finish(i)
      /\ UNCHANGED <<clock, createdAt, rows, selected, cursor, build>>
  BY DEF MoreFailed
<1>2. Open(r) /\ cursor \in CursorType
  BY <1>1 DEF Open, IInv, Typed
<1>3. /\ r.current \in ListType /\ r.current.build = r.build /\ r.current.status = "data"
  BY <1>1, <1>2, MoreFacts
<1>4. Loads(i) /\ Undisturbed =>
        ListOK(r.current) /\ cursor = Position(Last(r.current.items))
  BY Awaited
<1>5. QED  BY <1>1, <1>2, <1>3, <1>4, MoreStep
-----------------------------------------------------------------------------
\* Every step keeps the invariant.

LEMMA NextIInv == IInv /\ [Next]_vars => IInv'
<1> SUFFICES ASSUME IInv, [Next]_vars PROVE IInv'
  OBVIOUS
<1>1. ASSUME NEW m \in Movements, StartMovement(m) PROVE IInv'
  BY <1>1, StartMovementStep
<1>2. ASSUME NEW m \in Movements, CommitMovement(m) PROVE IInv'
  BY <1>2, CommitMovementStep
<1>3. ASSUME NEW filter \in Filters, Select(filter) \/ ApplyFilter(filter) PROVE IInv'
  BY <1>3, SelectStep
<1>4. CASE Retry
  BY <1>4, RetryStep
<1>5. CASE LoadMore
  BY <1>5, LoadMoreStep
<1>6. ASSUME NEW i \in DOMAIN requests, Serve(i) PROVE IInv'
  BY <1>6, ServeStep
<1>7. ASSUME NEW i \in DOMAIN requests, Lose(i) PROVE IInv'
  BY <1>7, LoseStep
<1>8. ASSUME NEW i \in DOMAIN requests, Receive(i) PROVE IInv'
  <2>1. CASE BuildDone(i)
    BY <2>1, BuildDoneStep
  <2>2. CASE BuildFailed(i)
    BY <2>2, BuildFailedStep
  <2>3. CASE MoreDone(i)
    BY <2>3, MoreDoneStep
  <2>4. CASE MoreFailed(i)
    BY <2>4, MoreFailedStep
  <2>5. QED  BY <1>8, <2>1, <2>2, <2>3, <2>4 DEF Receive
<1>9. CASE UNCHANGED vars
  <2>1. Typed'
    BY <1>9 DEF vars, IInv, Typed, CursorType, RequestType, PageType, ListType, FilterType,
                RowType
  <2>2. Origin'
    BY <1>9, OriginKept DEF vars
  <2>3. Answers'
    BY <1>9 DEF vars, IInv, Answers
  <2>4. Builds' /\ Shown'
    BY <1>9 DEF vars, IInv, Builds, Shown, IsBuild
  <2>5. ~overtaken' => Undisturbed'
    BY <1>9 DEF vars, IInv, Undisturbed, Loads, IsBuild
  <2>6. QED  BY <2>1, <2>2, <2>3, <2>4, <2>5 DEF IInv
<1>10. QED
  BY <1>1, <1>2, <1>3, <1>4, <1>5, <1>6, <1>7, <1>8, <1>9 DEF Next, Rest

\* What is known of the rows, the answers on their way and the list stays
\* true, whatever the service, the client and the network do.
THEOREM Invariance == Spec => []IInv
<1>1. Init => IInv
  BY InitIInv
<1>2. IInv /\ [Next]_vars => IInv'
  BY NextIInv
<1>3. QED  BY <1>1, <1>2, PTL DEF Spec

\* Type correctness: lists hold ledger rows, a cursor is a position, and every
\* request belongs to a build that there was.
THEOREM TypeIsOK == Spec => []TypeOK
<1>1. IInv => TypeOK
  <2> SUFFICES ASSUME IInv PROVE TypeOK
    OBVIOUS
  <2>1. \A r \in rows : r \in RowType
    BY RowFacts DEF IInv
  <2>2. /\ view.status \in {"loading", "data", "error"} /\ view.filter \in FilterType
        /\ \A k \in DOMAIN view.items : view.items[k] \in RowType
    BY DEF IInv, Typed, ListType
  <2>3. \A i \in DOMAIN requests :
          /\ requests[i].kind \in {"build", "more"}
          /\ requests[i].status \in {"sent", "served", "lost", "done"}
          /\ requests[i].build \in 1..build
    BY RequestFacts DEF IInv, RequestType
  <2>4. build \in 1..MaxRequests
    <3>1. Len(requests) \in Nat /\ MaxRequests \in Nat
      BY TransactionHistoryAssumption DEF IInv, Typed
    <3>2. QED  BY <3>1 DEF IInv, Typed
  <2>5. QED  BY <2>1, <2>2, <2>3, <2>4 DEF TypeOK, IInv, Typed, CursorType
<1>2. QED  BY <1>1, Invariance, PTL

\* However the pages are interleaved with commits, selections, retries and
\* losses, the list shows no row twice and none out of order, until an answer
\* of an earlier list arrives.
THEOREM Descends == Spec => []ListIsDescending
<1>1. IInv => ListIsDescending
  BY DEF IInv, Undisturbed, ListOK, ListIsDescending
<1>2. QED  BY <1>1, Invariance, PTL

\* It skips no row either: one that was committed before its first page was
\* read is in it, down to where it has got.
THEOREM Complete == Spec => []SkipsNothing
<1>1. IInv => SkipsNothing
  BY DEF IInv, Undisturbed, ListOK, Covers, SkipsNothing, Skips, Reached
<1>2. QED  BY <1>1, Invariance, PTL

\* What is shown as loaded is what is selected, unless an answer of an earlier
\* list has arrived.
THEOREM Faithful == Spec => []ShowsSelectedUnlessOvertaken
<1>1. IInv => ShowsSelectedUnlessOvertaken
  <2> SUFFICES ASSUME IInv, ~overtaken, Settled, NEW k \in DOMAIN view.items
               PROVE  Satisfies(view.items[k], selected)
    BY DEF ShowsSelectedUnlessOvertaken, ShowsSelected
  <2>1. PICK i \in DOMAIN requests : IsBuild(i, build)
    BY DEF IInv, Builds
  <2>2. ~Open(requests[i])
    BY <2>1 DEF Settled, IsBuild, Open
  <2>3. view.build = build
    BY <2>1, <2>2 DEF IInv, Undisturbed, Settled
  <2>4. view.filter = selected
    BY <2>3 DEF IInv, Shown
  <2>5. QED  BY <2>4 DEF IInv, Undisturbed, ListOK
<1>2. QED  BY <1>1, Invariance, PTL
=============================================================================
