------------------------- MODULE TransactionHistory -------------------------
(***************************************************************************)
(* The transaction history: the service's list of ledger rows by cursor,   *)
(* newest first, while movements commit; and the client's                  *)
(* TransactionHistoryNotifier, which loads it page by page while the user  *)
(* selects warehouses and filters and answers arrive late, out of order or *)
(* not at all.  A definition marked "(variant)" is the one below it with a *)
(* plausible mistake.                                                      *)
(***************************************************************************)
EXTENDS Naturals, Sequences, SequencesExt

CONSTANTS
  Warehouses,    \* ids of warehouses
  MovementTypes, \* the values of movement_type
  Movements,     \* movements that may commit while the history is read
  Entries,       \* [Movements -> set of ledger rows, without their created_at]
  Filters,       \* filters the user may choose
  PageSize,      \* limit
  MaxRequests    \* bound on the client's requests

Unfiltered == "any"      \* a parameter that is not given

FilterType == [warehouse : Warehouses \union {Unfiltered},
               type : MovementTypes \union {Unfiltered}]

RowType == [id : Nat, at : Nat \ {0}, warehouse : Warehouses, type : MovementTypes]

\* The id of a row is the primary key of its table, a movement enters finitely
\* many rows.
ASSUME TransactionHistoryAssumption ==
  /\ PageSize \in Nat \ {0} /\ MaxRequests \in Nat \ {0}
  /\ \A m \in Movements :
       /\ IsFiniteSet(Entries[m])
       /\ Entries[m] \subseteq [id : Nat, warehouse : Warehouses, type : MovementTypes]
  /\ \A m, n \in Movements : \A d \in Entries[m], e \in Entries[n] :
       d.id = e.id => m = n /\ d = e
  /\ Filters \subseteq FilterType

VARIABLES
  clock,      \* the database's clock
  createdAt,  \* when each movement's transaction started, 0 if it has not
  rows,       \* the committed ledger rows
  selected,   \* the filter the user selected: warehouse, and movement type
  cursor,     \* _cursor
  view,       \* the notifier's state
  build,      \* the number of the latest build()
  requests,   \* the client's requests, in the order they were sent
  overtaken   \* whether an answer that belongs to an earlier list has arrived
              \* since the list that is shown was begun

vars == <<clock, createdAt, rows, selected, cursor, view, build, requests, overtaken>>

Start == <<>>     \* no cursor

\* (variant) Rows are compared by created_at alone.
NewerByTime(a, b) == a.at > b.at

\* The order of the list: by created_at, then id.
Newer(a, b) == a.at > b.at \/ (a.at = b.at /\ a.id > b.id)

\* ORDER BY.
Sorted(set) == CHOOSE s \in SetToSeqs(set) :
                 \A k, l \in DOMAIN s : k < l => ~Newer(s[l], s[k])

Satisfies(row, filter) ==
  /\ filter.warehouse \in {Unfiltered, row.warehouse}
  /\ filter.type \in {Unfiltered, row.type}

\* The WHERE of a page that continues at a cursor.
Behind(row, cur) == cur = Start \/ Newer(cur, row)

HasMore(found) == Len(found) > PageSize

\* (variant) The cursor is the row itself.
NextCursorWhole(found) == IF HasMore(found) THEN found[PageSize] ELSE Start

\* encode_cursor: the position of the last row of the page, if there is more.
NextCursor(found) ==
  IF HasMore(found) THEN [at |-> found[PageSize].at, id |-> found[PageSize].id] ELSE Start

\* What list_page answers. "seen" is not part of the answer: the rows that
\* were committed when it was given.
Page(filter, cur) ==
  LET found == Sorted({r \in rows : Satisfies(r, filter) /\ Behind(r, cur)})
  IN  [items |-> SubSeq(found, 1, IF HasMore(found) THEN PageSize ELSE Len(found)),
       next  |-> NextCursor(found),
       more  |-> HasMore(found),
       seen  |-> rows]

NoPage == [items |-> <<>>, next |-> Start, more |-> FALSE, seen |-> {}]

\* A list as the notifier keeps it, with the build it comes from, that build's
\* filter, and the rows committed when its first page was read.
List(status, items, more, from, filter, seen) ==
  [status |-> status, items |-> items, hasMore |-> more, loadingMore |-> FALSE,
   build |-> from, filter |-> filter, seen |-> seen]

Request(kind, filter, cur, number, current) ==
  [kind |-> kind, filter |-> filter, cursor |-> cur, build |-> number,
   current |-> current, status |-> "sent", page |-> NoPage]

Init ==
  LET all  == [warehouse |-> Unfiltered, type |-> Unfiltered]
      none == List("loading", <<>>, FALSE, 0, all, {})
  IN  /\ clock = 1
      /\ createdAt = [m \in Movements |-> 0]
      /\ rows = {}
      /\ selected = all
      /\ cursor = Start
      /\ view = none
      /\ build = 1
      /\ requests = <<Request("build", all, Start, 1, none)>>
      /\ overtaken = FALSE
-----------------------------------------------------------------------------
\* The service: created_at is the time the transaction starts, and rows become
\* visible when it commits.
StartMovement(m) ==
  /\ createdAt[m] = 0
  /\ clock' \in {clock, clock + 1}
  /\ createdAt' = [createdAt EXCEPT ![m] = clock']
  /\ UNCHANGED <<rows, selected, cursor, view, build, requests, overtaken>>

RowsOf(m) ==
  {[id |-> e.id, at |-> createdAt[m], warehouse |-> e.warehouse, type |-> e.type]
     : e \in Entries[m]}

CommitMovement(m) ==
  /\ createdAt[m] > 0
  /\ ~ RowsOf(m) \subseteq rows
  /\ rows' = rows \union RowsOf(m)
  /\ UNCHANGED <<clock, createdAt, selected, cursor, view, build, requests, overtaken>>

Serve(i) ==
  /\ requests[i].status = "sent"
  /\ requests' = [requests EXCEPT ![i].status = "served",
                    ![i].page = Page(requests[i].filter, requests[i].cursor)]
  /\ UNCHANGED <<clock, createdAt, rows, selected, cursor, view, build, overtaken>>

\* The request or its answer is lost: the client's timeout reports an error.
Lose(i) ==
  /\ requests[i].status \in {"sent", "served"}
  /\ requests' = [requests EXCEPT ![i].status = "lost"]
  /\ UNCHANGED <<clock, createdAt, rows, selected, cursor, view, build, overtaken>>
-----------------------------------------------------------------------------
\* The client.
Send(q) == /\ Len(requests) < MaxRequests
           /\ requests' = Append(requests, q)

\* build(): any build still in flight no longer counts.
Build(filter) ==
  /\ build' = build + 1
  /\ cursor' = Start
  /\ Send(Request("build", filter, Start, build + 1, view))

\* (variant) The warehouse is read, not watched: nothing is loaded again.
SelectUnwatched(filter) ==
  /\ filter # selected /\ filter.type = selected.type
  /\ selected' = filter
  /\ UNCHANGED <<clock, createdAt, rows, cursor, view, build, requests, overtaken>>

\* CurrentWarehouseId.select: the notifier watches it and builds again.
Select(filter) ==
  /\ filter # selected /\ filter.type = selected.type
  /\ selected' = filter
  /\ view' = [view EXCEPT !.status = "loading"]
  /\ Build(filter)
  /\ UNCHANGED <<clock, createdAt, rows, overtaken>>

\* applyFilter: the old list stays until the new one is there.
ApplyFilter(filter) ==
  /\ filter.warehouse = selected.warehouse
  /\ selected' = filter
  /\ Build(filter)
  /\ UNCHANGED <<clock, createdAt, rows, view, overtaken>>

\* The screen's retry button, or Riverpod's own retry.
Retry ==
  /\ view.status = "error"
  /\ Build(selected)
  /\ UNCHANGED <<clock, createdAt, rows, selected, view, overtaken>>

LoadMore ==
  /\ view.status = "data" /\ view.hasMore /\ ~view.loadingMore
  /\ view' = [view EXCEPT !.loadingMore = TRUE]
  /\ Send(Request("more", selected, cursor, view.build, view))
  /\ UNCHANGED <<clock, createdAt, rows, selected, cursor, build, overtaken>>

\* The request is over, and what it carried is forgotten.
Finished(q) ==
  [q EXCEPT !.status = "done", !.page = NoPage, !.cursor = Start,
            !.current = List("loading", <<>>, FALSE, 0, q.current.filter, {})]

Finish(i) == requests' = [requests EXCEPT ![i] = Finished(@)]

\* (variant) build() leaves _cursor as it is.
BuildDoneKeepsCursor(i) ==
  LET q == requests[i]
  IN  /\ q.kind = "build" /\ q.status = "served"
      /\ view' = IF q.build = build
                 THEN List("data", q.page.items, q.page.more, build, q.filter, q.page.seen)
                 ELSE view
      /\ overtaken' = (q.build # build)
      /\ Finish(i)
      /\ UNCHANGED <<clock, createdAt, rows, selected, cursor, build>>

\* build() ends: _cursor is set in any case, the state only by the latest one.
BuildDone(i) ==
  LET q == requests[i]
  IN  /\ q.kind = "build" /\ q.status = "served"
      /\ cursor' = q.page.next
      /\ view' = IF q.build = build
                 THEN List("data", q.page.items, q.page.more, build, q.filter, q.page.seen)
                 ELSE view
      /\ overtaken' = (q.build # build)
      /\ Finish(i)
      /\ UNCHANGED <<clock, createdAt, rows, selected, build>>

BuildFailed(i) ==
  LET q == requests[i]
  IN  /\ q.kind = "build" /\ q.status = "lost"
      /\ view' = IF q.build = build THEN [view EXCEPT !.status = "error"] ELSE view
      /\ Finish(i)
      /\ UNCHANGED <<clock, createdAt, rows, selected, cursor, build, overtaken>>

\* loadMore's answer: appended to the list that it was requested for, which
\* becomes the state again.
MoreDone(i) ==
  LET q == requests[i]
  IN  /\ q.kind = "more" /\ q.status = "served"
      /\ cursor' = q.page.next
      /\ view' = [q.current EXCEPT !.items = @ \o q.page.items, !.hasMore = q.page.more]
      /\ overtaken' = (overtaken \/ q.build # build)
      /\ Finish(i)
      /\ UNCHANGED <<clock, createdAt, rows, selected, build>>

\* (variant) Nothing is done about a page that could not be loaded.
MoreFailedIgnored(i) ==
  /\ requests[i].kind = "more" /\ requests[i].status = "lost"
  /\ Finish(i)
  /\ UNCHANGED <<clock, createdAt, rows, selected, cursor, view, build, overtaken>>

MoreFailed(i) ==
  LET q == requests[i]
  IN  /\ q.kind = "more" /\ q.status = "lost"
      /\ view' = q.current
      /\ overtaken' = (overtaken \/ q.build # build)
      /\ Finish(i)
      /\ UNCHANGED <<clock, createdAt, rows, selected, cursor, build>>

Receive(i) == BuildDone(i) \/ BuildFailed(i) \/ MoreDone(i) \/ MoreFailed(i)

Rest == (\A i \in DOMAIN requests : requests[i].status = "done") /\ UNCHANGED vars

Next ==
  \/ \E m \in Movements : StartMovement(m) \/ CommitMovement(m)
  \/ \E filter \in Filters : Select(filter) \/ ApplyFilter(filter)
  \/ Retry \/ LoadMore
  \/ \E i \in DOMAIN requests : Serve(i) \/ Lose(i) \/ Receive(i)
  \/ Rest

Spec == Init /\ [][Next]_vars

\* The client's connect and receive timeouts end every request, and its event
\* loop runs what awaits the answer.
Answered(i) == i \in DOMAIN requests /\ (Serve(i) \/ Lose(i))
Resumed(i)  == i \in DOMAIN requests /\ Receive(i)

FairSpec == Spec /\ \A i \in 1..MaxRequests : WF_vars(Answered(i)) /\ WF_vars(Resumed(i))
-----------------------------------------------------------------------------
\* Properties

TypeOK ==
  /\ clock \in Nat \ {0}
  /\ createdAt \in [Movements -> 0..clock]
  /\ \A r \in rows : r \in RowType
  /\ selected \in FilterType
  /\ cursor = Start \/ cursor \in [at : 1..clock, id : Nat]
  /\ view.status \in {"loading", "data", "error"}
  /\ \A k \in DOMAIN view.items : view.items[k] \in RowType
  /\ view.filter \in FilterType
  /\ build \in 1..MaxRequests
  /\ Len(requests) <= MaxRequests
  /\ \A i \in DOMAIN requests :
       /\ requests[i].kind \in {"build", "more"}
       /\ requests[i].status \in {"sent", "served", "lost", "done"}
       /\ requests[i].build \in 1..build
  /\ overtaken \in BOOLEAN

\* The list is strictly descending: no row is shown twice, and none out of
\* order, however its pages interleave with commits.
Descending(items) ==
  \A k, l \in DOMAIN items : k < l => Newer(items[k], items[l])

ListIsDescending == ~overtaken => Descending(view.items)

\* The list skips nothing: a row that was committed before its first page was
\* read and that satisfies its filter is in it, down to its last row, and to
\* the end once there is no more. A movement that starts early and commits
\* late does not push other rows off the pages.
Reached(row) == view.hasMore => ~Newer(Last(view.items), row)

Skips(row) == /\ Satisfies(row, view.filter) /\ Reached(row)
              /\ \A k \in DOMAIN view.items : view.items[k] # row

SkipsNothing == ~overtaken => \A row \in view.seen : ~Skips(row)

\* What is shown as loaded is what is selected, once the latest build is over.
Settled == view.status = "data" /\ ~\E i \in DOMAIN requests :
             requests[i].build = build /\ requests[i].kind = "build"
             /\ requests[i].status # "done"

ShowsSelected ==
  Settled => \A k \in DOMAIN view.items : Satisfies(view.items[k], selected)

\* The same, while no answer of an earlier list has arrived.
ShowsSelectedUnlessOvertaken == overtaken \/ ShowsSelected

\* Whatever is being loaded stops being loaded.
Loading == view.status = "loading" \/ view.loadingMore

LoadingEnds == Loading ~> ~Loading
=============================================================================
