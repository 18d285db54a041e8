----------------------------- MODULE UniqueRows -----------------------------
(***************************************************************************)
(* Requests that create rows after looking whether they may: a category, a *)
(* product with its variants, a barcode, a branch, a user, a company with  *)
(* all that belongs to it, or a file of products.  Each runs in one READ   *)
(* COMMITTED transaction, one SQL statement at a time, and shares nothing  *)
(* with the others but the tables.                                         *)
(*                                                                         *)
(* A call is a sequence of groups.  A plain request has one group.  An     *)
(* import has one for each product of the file: it skips a group whose SKU *)
(* exists, and runs each other one under a SAVEPOINT.  A group is a        *)
(* sequence of steps (CatalogueCalls derives them from the handlers):      *)
(*   absent   a row of this key is refused as taken,                       *)
(*   present  the lack of a row of this key is refused,                    *)
(*   demand   the same, by an exception the application does not define,   *)
(*   resolve  a row of this key is used as it is: skips the insert after,  *)
(*   insert   INSERT of a row of this key,                                 *)
(*   refuse, break   a check of the request's data that fails, with an     *)
(*            AppException or with any other exception.                    *)
(* A definition marked "(variant)" is the one below it with a plausible    *)
(* mistake.                                                                *)
(***************************************************************************)
EXTENDS Naturals, Sequences, FiniteSets

CONSTANTS
  Requests,   \* requests; a request makes one call
  Calls,      \* [kind : {"request", "import"}, groups : Seq([sku, steps])]
  Keys,       \* [table, name] of the rows that calls look up or create
  Seeded      \* the rows from the beginning, by "seed", with a number as group

Actions == {"absent", "present", "demand", "resolve", "insert", "refuse", "break"}

\* (variant) Variants have no UniqueConstraint.
ConstrainedButVariants == {"categories", "brands", "units", "products", "barcodes", "users"}

\* The tables with a UniqueConstraint.
Constrained == {"categories", "brands", "units", "products", "variants", "barcodes", "users"}

ASSUME UniqueRowsAssumption ==
  /\ "seed" \notin Requests
  /\ Seeded \in SUBSET [key : Keys, by : {"seed"}, group : Nat]
  /\ \A x, y \in Seeded : x.key = y.key /\ x.key.table \in Constrained => x = y
  /\ \A c \in Calls :
       /\ c.kind \in {"request", "import"}
       /\ Len(c.groups) \in Nat /\ DOMAIN c.groups = 1..Len(c.groups)
       /\ \A g \in DOMAIN c.groups :
            LET steps == c.groups[g].steps
            IN  /\ c.groups[g].sku \in Keys
                /\ Len(steps) \in Nat \ {0} /\ DOMAIN steps = 1..Len(steps)
                /\ \A i \in DOMAIN steps :
                     /\ steps[i].do \in Actions /\ steps[i].key \in Keys
                     /\ steps[i].do = "resolve" => /\ i < Len(steps)
                                                   /\ steps[i + 1].do = "insert"
                                                   /\ steps[i + 1].key = steps[i].key

VARIABLES
  rows,     \* the committed rows: their key, the request and group they are from
  call,     \* the call each request carries
  phase,    \* what the request does next, or how it ended
  group,    \* the group it is at
  at,       \* the step of the group
  own,      \* the rows of its open transaction
  report,   \* what became of the groups so far
  error     \* why it failed

vars == <<rows, call, phase, group, at, own, report, error>>

RowType == [key : Keys, by : Requests \union {"seed"}, group : Nat]

Ended == {"committed", "failed"}

Current(r) == call[r].groups[group[r]]

Step(r) == Current(r).steps[at[r]]

\* (variant) The isolation level is READ UNCOMMITTED.
FoundUncommitted(r, key) == {x \in rows \union UNION {own[s] : s \in Requests} : x.key = key}

\* What a SELECT of the request finds.
Found(r, key) == {x \in rows \union own[r] : x.key = key}

\* The requests that hold the key the request is about to insert.
Holders(r) ==
  {s \in Requests \ {r} :
     /\ phase[r] = "step" /\ Step(r).do = "insert"
     /\ Step(r).key.table \in Constrained
     /\ \E x \in own[s] : x.key = Step(r).key}

Goto(r, p) == phase' = [phase EXCEPT ![r] = p]

\* The group is over, and the next one, if any, begins.
NextGroup(r, status) ==
  /\ report' = [report EXCEPT ![r] = Append(@, status)]
  /\ group' = [group EXCEPT ![r] = @ + 1]
  /\ at' = [at EXCEPT ![r] = 1]
  /\ Goto(r, "group")

Proceed(r, steps) ==
  IF at[r] + steps > Len(Current(r).steps)
  THEN NextGroup(r, "created")
  ELSE /\ at' = [at EXCEPT ![r] = @ + steps]
       /\ UNCHANGED <<phase, group, report>>

Fail(r, e) ==
  /\ Goto(r, "failing")
  /\ error' = [error EXCEPT ![r] = e]
  /\ UNCHANGED <<group, at, report>>

\* An AppException ends the request, or the group of an import.
RaiseApp(r, e) ==
  IF call[r].kind = "import"
  THEN Goto(r, "undo") /\ UNCHANGED <<group, at, report, error>>
  ELSE Fail(r, e)

Init ==
  /\ rows = Seeded
  /\ call \in [Requests -> Calls]
  /\ phase = [r \in Requests |-> "group"]
  /\ group = [r \in Requests |-> 1]
  /\ at = [r \in Requests |-> 1]
  /\ own = [r \in Requests |-> {}]
  /\ report = [r \in Requests |-> <<>>]
  /\ error = [r \in Requests |-> "none"]
-----------------------------------------------------------------------------
\* An import looks for the SKU of the next group; otherwise, or if it is not
\* there, the group's steps begin.
Begin(r) ==
  /\ phase[r] = "group" /\ group[r] <= Len(call[r].groups)
  /\ IF call[r].kind = "import" /\ Found(r, Current(r).sku) # {}
     THEN NextGroup(r, "skipped")
     ELSE Goto(r, "step") /\ UNCHANGED <<group, at, report>>
  /\ UNCHANGED <<rows, call, own, error>>

\* scalar_one_or_none raises if there is more than one row.
Absent(r) ==
  /\ phase[r] = "step" /\ Step(r).do = "absent"
  /\ LET found == Cardinality(Found(r, Step(r).key))
     IN  \/ found = 0 /\ Proceed(r, 1) /\ UNCHANGED error
         \/ found = 1 /\ RaiseApp(r, "taken")
         \/ found > 1 /\ Fail(r, "several")
  /\ UNCHANGED <<rows, call, own>>

Present(r) ==
  /\ phase[r] = "step" /\ Step(r).do \in {"present", "demand"}
  /\ IF Found(r, Step(r).key) # {} THEN Proceed(r, 1) /\ UNCHANGED error
     ELSE IF Step(r).do = "present" THEN RaiseApp(r, "missing")
     ELSE Fail(r, "broken")
  /\ UNCHANGED <<rows, call, own>>

Resolve(r) ==
  /\ phase[r] = "step" /\ Step(r).do = "resolve"
  /\ Proceed(r, IF Found(r, Step(r).key) # {} THEN 2 ELSE 1)
  /\ UNCHANGED <<rows, call, own, error>>

Reject(r) ==
  /\ phase[r] = "step"
  /\ \/ Step(r).do = "refuse" /\ RaiseApp(r, "invalid")
     \/ Step(r).do = "break" /\ Fail(r, "broken")
  /\ UNCHANGED <<rows, call, own>>

\* INSERT: waits for a transaction that inserted the same key to end, and
\* fails if a row of the key is committed, or already in this transaction.
Insert(r) ==
  /\ phase[r] = "step" /\ Step(r).do = "insert" /\ Holders(r) = {}
  /\ LET key == Step(r).key
     IN  \/ /\ key.table \notin Constrained \/ Found(r, key) = {}
            /\ own' = [own EXCEPT ![r] = @ \union {[key |-> key, by |-> r, group |-> group[r]]}]
            /\ Proceed(r, 1) /\ UNCHANGED error
         \/ /\ key.table \in Constrained /\ Found(r, key) # {}
            /\ Fail(r, "duplicate") /\ UNCHANGED own
  /\ UNCHANGED <<rows, call>>

\* The transactions of S wait for each other in a cycle.
WaitCycle(S) == \A s \in S : /\ Holders(s) \intersect S # {}
                             /\ \E q \in S : s \in Holders(q)

\* (variant) A deadlock is not detected.
DeadlockUnnoticed(r) ==
  /\ r \in {} /\ WaitCycle({r})
  /\ Fail(r, "deadlock")
  /\ UNCHANGED <<rows, call, own>>

\* PostgreSQL ends one of the transactions that wait for each other in a cycle.
Deadlock(r) ==
  /\ \E S \in SUBSET Requests : r \in S /\ WaitCycle(S)
  /\ Fail(r, "deadlock")
  /\ UNCHANGED <<rows, call, own>>

\* (variant) The group's rows are kept.
UndoNothing(r) ==
  /\ phase[r] = "undo"
  /\ NextGroup(r, "error")
  /\ UNCHANGED <<rows, call, own, error>>

\* ROLLBACK TO SAVEPOINT, and the group is reported as an error.
Undo(r) ==
  /\ phase[r] = "undo"
  /\ own' = [own EXCEPT ![r] = {x \in @ : x.group # group[r]}]
  /\ NextGroup(r, "error")
  /\ UNCHANGED <<rows, call, error>>

Commit(r) ==
  /\ phase[r] = "group" /\ group[r] > Len(call[r].groups)
  /\ rows' = rows \union own[r]
  /\ own' = [own EXCEPT ![r] = {}]
  /\ Goto(r, "committed")
  /\ UNCHANGED <<call, group, at, report, error>>

Rollback(r) ==
  /\ phase[r] = "failing"
  /\ own' = [own EXCEPT ![r] = {}]
  /\ Goto(r, "failed")
  /\ UNCHANGED <<rows, call, group, at, report, error>>

\* The connection is lost before the commit.
Disconnect(r) ==
  /\ phase[r] \in {"group", "step", "undo"}
  /\ own' = [own EXCEPT ![r] = {}]
  /\ Goto(r, "failed")
  /\ error' = [error EXCEPT ![r] = "connection"]
  /\ UNCHANGED <<rows, call, group, at, report>>

Advance(r) ==
  \/ Begin(r) \/ Absent(r) \/ Present(r) \/ Resolve(r) \/ Reject(r) \/ Insert(r)
  \/ Undo(r) \/ Commit(r) \/ Rollback(r)

Rest == (\A r \in Requests : phase[r] \in Ended) /\ UNCHANGED vars

Next ==
  \/ \E r \in Requests : Advance(r) \/ Deadlock(r) \/ Disconnect(r)
  \/ Rest

Spec == Init /\ [][Next]_vars

\* The event loop resumes a request whose statement has returned, PostgreSQL
\* wakes up a transaction whose wait is over, and looks for deadlocks.
FairSpec == Spec /\ \A r \in Requests : WF_vars(Advance(r)) /\ WF_vars(Deadlock(r))
-----------------------------------------------------------------------------
\* Properties

TypeOK ==
  /\ rows \in SUBSET RowType
  /\ call \in [Requests -> Calls]
  /\ phase \in [Requests -> {"group", "step", "undo", "failing"} \union Ended]
  /\ group \in [Requests -> Nat \ {0}]
  /\ at \in [Requests -> Nat \ {0}]
  /\ own \in [Requests -> SUBSET RowType]
  /\ report \in [Requests -> Seq({"created", "skipped", "error"})]
  /\ error \in [Requests -> {"none", "taken", "missing", "invalid", "several", "broken",
                            "duplicate", "deadlock", "connection"}]
  /\ \A r \in Requests :
       /\ Len(report[r]) = group[r] - 1
       /\ group[r] <= Len(call[r].groups) + 1
       /\ phase[r] = "group" => at[r] = 1
       /\ phase[r] \in {"step", "undo"} => /\ group[r] \in DOMAIN call[r].groups
                                          /\ at[r] \in DOMAIN Current(r).steps

\* No two committed rows share a name, SKU, barcode or e-mail address that
\* stands for one thing, although it may have been taken between the time it
\* was looked up and the INSERT.
Identified == {"categories", "brands", "units", "products", "variants", "barcodes", "users"}

OneRowPerKey ==
  \A x, y \in rows : x.key = y.key /\ x.key.table \in Identified => x = y

\* The step has been taken: what it needs is there, and what it inserts.
Provided(r, g, i) ==
  LET steps == call[r].groups[g].steps
  IN  /\ steps[i].do \notin {"refuse", "break"}
      /\ steps[i].do \in {"present", "demand", "resolve"} =>
           \E x \in rows : x.key = steps[i].key
      /\ steps[i].do = "insert" =>
           \/ i > 1 /\ steps[i - 1].do = "resolve"
           \/ [key |-> steps[i].key, by |-> r, group |-> g] \in rows

\* Nothing is created in part, or without what it refers to: a product has all
\* of its variants, its category, brand and unit; a user has its branches and
\* roles; a company has its branch, the branch's default warehouse, its owner
\* with the owner's role, and the owner's session and entry in the audit log.
GroupsAreWhole ==
  \A x \in rows : x.by # "seed" =>
    \A i \in DOMAIN call[x.by].groups[x.group].steps : Provided(x.by, x.group, i)

\* The answer to an import is true: of a group reported as created all rows
\* are there, of one that was skipped or has an error there is none, and one
\* that was skipped exists.
RowsOf(r, g) == {x \in rows : x.by = r /\ x.group = g}

AnswerIsTrue(r) ==
  \A g \in DOMAIN report[r] :
    /\ report[r][g] = "created" => \A i \in DOMAIN call[r].groups[g].steps : Provided(r, g, i)
    /\ report[r][g] # "created" => RowsOf(r, g) = {}
    /\ report[r][g] = "skipped" => \E x \in rows : x.key = call[r].groups[g].sku

ReportIsTrue == \A r \in Requests : phase[r] = "committed" => AnswerIsTrue(r)

\* A request that failed has created nothing.
FailedLeavesNothing ==
  \A x \in rows : x.by # "seed" => phase[x.by] = "committed"

\* No two branches of the company have the same code.
BranchCodesDiffer ==
  \A x, y \in rows : x.key = y.key /\ x.key.table = "branches" => x = y

\* A product of a file costs the other ones nothing: an import fails only with
\* its connection.
BadRowIsIsolated ==
  \A r \in Requests :
    call[r].kind = "import" /\ phase[r] = "failed" => error[r] = "connection"

\* Every request ends, whoever waits for whom.
EveryRequestEnds == <>(\A r \in Requests : phase[r] \in Ended)
-----------------------------------------------------------------------------
\* The inductive invariant

\* An open transaction's rows: its own, and none of a group not yet begun.
OwnRows(r) ==
  \A x \in own[r] : /\ x.by = r
                    /\ x.group \in 1..group[r]
                    /\ phase[r] = "group" => x.group < group[r]

\* Whoever has inserted a constrained key is alone with it.
Exclusive ==
  \A r \in Requests : \A x \in own[r] : x.key.table \in Constrained =>
    /\ \A y \in rows : y.key # x.key
    /\ \A s \in Requests : \A y \in own[s] : y.key = x.key => y = x

\* What the transaction finds without the rows of later groups.
Had(r, g, key) == \/ \E x \in rows : x.key = key
                  \/ \E x \in own[r] : x.key = key /\ x.group <= g

\* The step has been taken, as the transaction sees it.
Done(r, g, i) ==
  LET steps == call[r].groups[g].steps
  IN  /\ steps[i].do \notin {"refuse", "break"}
      /\ steps[i].do \in {"present", "demand", "resolve"} => Had(r, g, steps[i].key)
      /\ steps[i].do = "insert" =>
           \/ i > 1 /\ steps[i - 1].do = "resolve"
           \/ [key |-> steps[i].key, by |-> r, group |-> g] \in own[r]

\* The steps behind a request are done; a resolve that found nothing is done
\* once the insert after it is.
Behind(r) ==
  phase[r] = "step" =>
    \A i \in 1..(at[r] - 1) :
      (Current(r).steps[i].do = "resolve" => i + 1 < at[r]) => Done(r, group[r], i)

\* The report is true of what the transaction will commit.
Answers(r) ==
  phase[r] \in {"group", "step", "undo"} =>
    \A g \in 1..(group[r] - 1) :
      /\ report[r][g] = "created" => \A i \in DOMAIN call[r].groups[g].steps : Done(r, g, i)
      /\ report[r][g] # "created" => \A x \in own[r] : x.group # g
      /\ report[r][g] = "skipped" => Had(r, g, call[r].groups[g].sku)

\* Committed rows belong to a group that its request reports as created.
Committed ==
  \A x \in rows : x.by # "seed" => /\ phase[x.by] = "committed"
                                   /\ x.group \in DOMAIN report[x.by]
                                   /\ report[x.by][x.group] = "created"

IInv ==
  /\ TypeOK
  /\ OneRowPerKey
  /\ Exclusive
  /\ Committed
  /\ ReportIsTrue
  /\ \A r \in Requests : OwnRows(r) /\ Behind(r) /\ Answers(r)
=============================================================================
