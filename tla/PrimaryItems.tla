---------------------------- MODULE PrimaryItems ----------------------------
(***************************************************************************)
(* The primary barcode of a product variant and the primary image of a     *)
(* product.  A handler that adds a primary item reads the owner's items,   *)
(* demotes the primary ones it saw and inserts its own, in one transaction *)
(* at READ COMMITTED: the demotions and the insert are one flush, which    *)
(* updates rows in the order of their keys, each under its row lock, and   *)
(* inserts last.                                                           *)
(***************************************************************************)
EXTENDS Integers, FiniteSets, Sequences

CONSTANTS
  Requests,   \* requests; the item a request inserts has the request's name
  Given,      \* items there before
  GivenItems, \* what they are: [owner, code, primary] for each of them
  KeyOrder,   \* the primary keys of all items, in their order
  Owners,     \* variants and products that exist
  Calls,      \* calls of add_barcode and add_image
  NoCode      \* the code of an image

Items == Given \union Requests

Codes == {c.code : c \in Calls} \union {GivenItems[x].code : x \in Given} \union {NoCode}
ItemType == [owner : Owners \union {"absent"}, code : Codes, primary : BOOLEAN]

ASSUME ItemsAssumption ==
  /\ Requests \intersect Given = {}
  /\ "absent" \notin Owners
  /\ Calls # {} /\ \A c \in Calls : c.primary \in BOOLEAN
  /\ GivenItems \in [Given -> [owner : Owners, code : Codes, primary : BOOLEAN]]
  /\ KeyOrder \in Seq(Items)
  /\ \A x \in Items : \E i \in DOMAIN KeyOrder : KeyOrder[i] = x
  /\ \A i, j \in DOMAIN KeyOrder : KeyOrder[i] = KeyOrder[j] => i = j

VARIABLES
  item,      \* the committed items: "absent", or what the item is
  phase,     \* where a request is
  call,      \* what it was asked to do
  saw,       \* the primary items it listed and has not yet demoted
  holds,     \* the items it has demoted, and locks
  before     \* the requests that had committed when it listed the items

vars == <<item, phase, call, saw, holds, before>>

Absent == [owner |-> "absent", code |-> NoCode, primary |-> FALSE]
Committed == {x \in Items : item[x] # Absent}

Init ==
  /\ item = [x \in Items |-> IF x \in Given THEN GivenItems[x] ELSE Absent]
  /\ phase = [r \in Requests |-> "idle"]
  /\ call = [r \in Requests |-> CHOOSE c \in Calls : TRUE]
  /\ saw = [r \in Requests |-> {}]
  /\ holds = [r \in Requests |-> {}]
  /\ before = [r \in Requests |-> {}]

Added == {r \in Requests : phase[r] = "committed"}

\* Only a primary item has others to demote.
FirstWrite(c) == IF c.primary THEN "list" ELSE "insert"

Goto(r, p) == phase' = [phase EXCEPT ![r] = p]

-----------------------------------------------------------------------------
\* The owner is looked up first: without one the request is a 404.
FetchOwner(r, c) ==
  /\ phase[r] = "idle"
  /\ call' = [call EXCEPT ![r] = c]
  /\ Goto(r, IF c.owner \notin Owners THEN "refused"
             ELSE IF c.code # NoCode THEN "look_up" ELSE FirstWrite(c))
  /\ UNCHANGED <<item, saw, holds, before>>

\* add_barcode only: a barcode the company has is a validation error.
LookUpCode(r) ==
  /\ phase[r] = "look_up"
  /\ Goto(r, IF \E x \in Committed : item[x].code = call[r].code THEN "refused"
             ELSE FirstWrite(call[r]))
  /\ UNCHANGED <<item, call, saw, holds, before>>

PrimaryOf(o) == {x \in Committed : item[x].owner = o /\ item[x].primary}

\* (variant) The loop stops at the first primary item.
FirstPrimaryOf(o) ==
  {x \in Committed : item[x].owner = o /\ item[x].primary
                       /\ \A y \in Committed : item[y].owner = o /\ item[y].primary
                            => \E i, j \in DOMAIN KeyOrder :
                                 KeyOrder[i] = x /\ KeyOrder[j] = y /\ i <= j}

\* (variant) The filter on the owner is left out of the query.
PrimaryOfAny(o) == {x \in Committed : item[x].primary}

\* The primary items of the owner that the list shows.
ToDemote(o) == PrimaryOf(o)

ListItems(r) ==
  /\ phase[r] = "list"
  /\ saw' = [saw EXCEPT ![r] = ToDemote(call[r].owner)]
  /\ before' = [before EXCEPT ![r] = Added]
  /\ Goto(r, "demote")
  /\ UNCHANGED <<item, call, holds>>

Before(x, y) == \E i, j \in DOMAIN KeyOrder : KeyOrder[i] = x /\ KeyOrder[j] = y /\ i < j

\* (variant) The rows are updated in the order in which they were listed.
InAnyOrder(r, x) == x \in saw[r]

\* The flush sorts the rows it updates by their keys.
NextToDemote(r, x) == x \in saw[r] /\ \A y \in saw[r] \ {x} : Before(x, y)

Demote(r) ==
  /\ phase[r] = "demote"
  /\ \E x \in saw[r] :
       /\ NextToDemote(r, x)
       /\ \A s \in Requests \ {r} : x \notin holds[s]
       /\ holds' = [holds EXCEPT ![r] = @ \union {x}]
       /\ saw' = [saw EXCEPT ![r] = @ \ {x}]
  /\ UNCHANGED <<item, phase, call, before>>

Code(r) == call[r].code

\* The unique key waits for a transaction that has inserted the same code, and
\* fails on one that is committed: the transaction is rolled back.
Insert(r) ==
  /\ phase[r] = "insert" \/ (phase[r] = "demote" /\ saw[r] = {})
  /\ \A s \in Requests \ {r} : phase[s] = "inserted" /\ Code(r) # NoCode => Code(s) # Code(r)
  /\ IF Code(r) # NoCode /\ \E x \in Committed : item[x].code = Code(r)
     THEN Goto(r, "refused") /\ holds' = [holds EXCEPT ![r] = {}]
     ELSE Goto(r, "inserted") /\ UNCHANGED holds
  /\ UNCHANGED <<item, call, saw, before>>

New(r) == [owner |-> call[r].owner, code |-> Code(r), primary |-> call[r].primary]

\* What the transaction of a request makes of the items.
Outcome(r) ==
  [x \in Items |-> IF x = r THEN New(r)
                   ELSE IF x \in holds[r] THEN [item[x] EXCEPT !.primary = FALSE]
                   ELSE item[x]]

Commit(r) ==
  /\ phase[r] = "inserted"
  /\ item' = Outcome(r)
  /\ Goto(r, "committed")
  /\ holds' = [holds EXCEPT ![r] = {}]
  /\ UNCHANGED <<call, saw, before>>

\* The connection is lost, or the request cancelled: nothing is kept.
Lose(r) ==
  /\ phase[r] \in {"look_up", "list", "demote", "insert", "inserted"}
  /\ Goto(r, "refused")
  /\ holds' = [holds EXCEPT ![r] = {}]
  /\ saw' = [saw EXCEPT ![r] = {}]
  /\ UNCHANGED <<item, call, before>>

\* Every request has ended.
Rest ==
  /\ \A r \in Requests : phase[r] \in {"committed", "refused"}
  /\ UNCHANGED vars

Next ==
  \/ Rest
  \/ \E r \in Requests :
       \/ \E c \in Calls : FetchOwner(r, c)
       \/ LookUpCode(r) \/ ListItems(r) \/ Demote(r) \/ Insert(r) \/ Commit(r) \/ Lose(r)

Spec == Init /\ [][Next]_vars

-----------------------------------------------------------------------------
(* Properties.                                                             *)

\* Locks are on committed items, of requests that have not ended, and no item
\* is locked twice.
TypeOK ==
  /\ item \in [Items -> ItemType]
  /\ phase \in [Requests -> {"idle", "look_up", "list", "demote", "insert", "inserted",
                            "committed", "refused"}]
  /\ call \in [Requests -> Calls]
  /\ before \in [Requests -> SUBSET Requests]
  /\ saw \in [Requests -> SUBSET Items] /\ holds \in [Requests -> SUBSET Items]
  /\ \A r \in Requests :
       /\ saw[r] \union holds[r] \subseteq Committed
       /\ saw[r] # {} => phase[r] = "demote"
       /\ holds[r] # {} => phase[r] \in {"demote", "inserted"}
       /\ \A s \in Requests \ {r} : holds[r] \intersect holds[s] = {}

\* An item stops being primary only as another of the same owner becomes
\* primary, in one step: an owner that has a primary item is never seen
\* without one, and no other owner loses its own.
PrimaryIsReplaced ==
  [][\A x \in Items : item[x].primary /\ ~ item'[x].primary =>
       \E r \in Requests : /\ item[r] = Absent
                          /\ item'[r].primary /\ item'[r].owner = item[x].owner]_vars

\* Two primary items of one owner come of requests that overlapped: the later
\* one had listed the items before the earlier one committed.  Whoever adds a
\* primary item after that demotes them both.
TwoPrimariesOverlapped ==
  \A r \in Requests, x \in Items :
    /\ x # r /\ item[x].primary /\ item[r].primary
    /\ item[x].owner = item[r].owner
    => x \notin Given \union before[r]

\* What a request waits for: the lock of the row it demotes next, or the end
\* of a transaction that inserted its code.
WaitsFor(r, s) ==
  /\ r # s
  /\ \/ /\ phase[r] = "demote" /\ saw[r] # {}
        /\ {x \in saw[r] : NextToDemote(r, x)} \subseteq holds[s]
     \/ /\ phase[r] = "insert" \/ (phase[r] = "demote" /\ saw[r] = {})
        /\ phase[s] = "inserted" /\ Code(r) # NoCode /\ Code(s) = Code(r)

\* Requests never wait for each other in a circle.
NoLockCycle ==
  \A S \in SUBSET Requests : S # {} => \E r \in S : \A s \in S : ~ WaitsFor(r, s)
=============================================================================
