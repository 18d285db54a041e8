---------------------------- MODULE VersionedRow ----------------------------
(***************************************************************************)
(* A database row with a version column, edited by concurrent requests in  *)
(* READ COMMITTED transactions: a product, a variant, a category, a brand, *)
(* a company, a branch or a user.                                          *)
(*                                                                         *)
(* "update" is the edit that a client prepares on a copy of the row it     *)
(* loaded, carried out by UPDATE .. WHERE version = expected.  The two     *)
(* other kinds change the row without a version from the client: the       *)
(* request loads the row, changes it in memory and lets the ORM write the  *)
(* columns that changed, version + 1 among them, WHERE id = .. alone.      *)
(*   add_variant   sets has_variants on the product, unless it is set;     *)
(*   account       disables a user, or sets the password.                  *)
(* A definition marked "(variant)" is the one below it with a plausible    *)
(* mistake.                                                                *)
(***************************************************************************)
EXTENDS Integers, Sequences

CONSTANTS
  Requests,       \* requests, each with the client that prepares it
  Columns,        \* the columns that requests change
  NameColumns,    \* size and color, of which variant_name is composed
  Values,
  Calls,          \* the calls clients may make
  InitialFields   \* [Columns -> Values]

Changes == UNION {[D -> Values] : D \in SUBSET Columns}

Kinds == {"update", "add_variant", "account"}

ASSUME VersionedRowAssumption ==
  /\ NameColumns \subseteq Columns
  /\ InitialFields \in [Columns -> Values]
  /\ \A c \in Calls : c.kind \in Kinds /\ c.change \in Changes

VARIABLES
  row,       \* the committed row
  log,       \* the writes of the row in commit order
  call,      \* the call each request carries
  phase,     \* what the request does next, or how it ended
  error,     \* why it failed
  known,     \* the row as the client, or the handler of a plain write, loaded it
  existing,  \* the columns a variant's update reads to compose variant_name
  draft,     \* the uncommitted row of a request that holds the row's lock
  wrote      \* whether the open transaction has written, and so locked, the row

vars == <<row, log, call, phase, error, known, existing, draft, wrote>>

\* The columns after a partial change of them: what is not sent is kept.
Merged(change, old) ==
  [c \in DOMAIN old |-> IF c \in DOMAIN change THEN change[c] ELSE old[c]]

\* The columns variant_name is composed of, as "fields" has them.
NameOf(fields) == [c \in NameColumns |-> fields[c]]

NewRow(version, fields, name) == [version |-> version, fields |-> fields, name |-> name]

RowType == [version : Nat \ {0}, fields : [Columns -> Values], name : [NameColumns -> Values]]

Open  == {"lookup", "apply", "flush", "commit"}
Ended == {"unchanged", "committed", "failed"}

ChangesName(r) == DOMAIN call[r].change \cap NameColumns # {}

\* No other transaction holds the lock of the row.
Free(r) == \A s \in Requests \ {r} : ~wrote[s]

Goto(r, p) == phase' = [phase EXCEPT ![r] = p]

Fail(r, e) == /\ Goto(r, "failing")
              /\ error' = [error EXCEPT ![r] = e]

Write(r, new) == /\ draft' = [draft EXCEPT ![r] = new]
                 /\ wrote' = [wrote EXCEPT ![r] = TRUE]
                 /\ Goto(r, "commit")

Init ==
  /\ row = NewRow(1, InitialFields, NameOf(InitialFields))
  /\ log = << >>
  /\ call \in [Requests -> Calls]
  /\ phase = [r \in Requests |-> "new"]
  /\ error = [r \in Requests |-> "none"]
  /\ known = [r \in Requests |-> row]
  /\ existing = [r \in Requests |-> InitialFields]
  /\ draft = [r \in Requests |-> row]
  /\ wrote = [r \in Requests |-> FALSE]
-----------------------------------------------------------------------------
\* The client loads the row, and later sends its changes with the version it
\* loaded. An update without changes is answered with the row as it is.
Load(r) ==
  /\ phase[r] = "new" /\ call[r].kind = "update"
  /\ known' = [known EXCEPT ![r] = row]
  /\ \/ DOMAIN call[r].change = {} /\ Goto(r, "unchanged")
     \/ ChangesName(r) /\ Goto(r, "lookup")
     \/ DOMAIN call[r].change # {} /\ ~ChangesName(r) /\ Goto(r, "apply")
  /\ UNCHANGED <<row, log, call, error, existing, draft, wrote>>

\* ProductVariantService.update reads what the change leaves out of the name.
Lookup(r) ==
  /\ phase[r] = "lookup"
  /\ existing' = [existing EXCEPT ![r] = row.fields]
  /\ Goto(r, "apply")
  /\ UNCHANGED <<row, log, call, error, known, draft, wrote>>

\* (variant) variant_name is composed only when both columns are sent.
ComposedWhenComplete(r) ==
  IF NameColumns \subseteq DOMAIN call[r].change
  THEN NameOf(Merged(call[r].change, existing[r])) ELSE row.name

\* variant_name after the update.
Composed(r) ==
  IF ChangesName(r) THEN NameOf(Merged(call[r].change, existing[r])) ELSE row.name

\* (variant) The WHERE leaves the version out.
MatchesById(r) == TRUE

\* The WHERE of the UPDATE.
Matches(r) == row.version = known[r].version

\* (variant) A row that is locked is taken for one that was modified.
ApplyNoWait(r) ==
  /\ phase[r] = "apply"
  /\ \/ /\ Matches(r) /\ Free(r)
        /\ Write(r, NewRow(row.version + 1, Merged(call[r].change, row.fields), Composed(r)))
        /\ UNCHANGED error
     \/ ~(Matches(r) /\ Free(r)) /\ Fail(r, "conflict") /\ UNCHANGED <<draft, wrote>>
  /\ UNCHANGED <<row, log, call, known, existing>>

\* UPDATE .. SET version = version + 1 WHERE version = expected: waits for the
\* row's lock while the committed version matches, and looks at it again then.
Apply(r) ==
  /\ phase[r] = "apply"
  /\ \/ /\ Matches(r) /\ Free(r)
        /\ Write(r, NewRow(row.version + 1, Merged(call[r].change, row.fields), Composed(r)))
        /\ UNCHANGED error
     \/ ~Matches(r) /\ Fail(r, "conflict") /\ UNCHANGED <<draft, wrote>>
  /\ UNCHANGED <<row, log, call, known, existing>>

\* A plain write: the handler loads the row.
Fetch(r) ==
  /\ phase[r] = "new" /\ call[r].kind # "update"
  /\ known' = [known EXCEPT ![r] = row]
  /\ IF call[r].kind = "add_variant" /\ Merged(call[r].change, row.fields) = row.fields
     THEN Goto(r, "commit")
     ELSE Goto(r, "flush")
  /\ UNCHANGED <<row, log, call, error, existing, draft, wrote>>

\* A duplicate SKU, or a wrong current password.
Refuse(r) ==
  /\ phase[r] = "flush"
  /\ Fail(r, "invalid")
  /\ UNCHANGED <<row, log, call, known, existing, draft, wrote>>

\* What the request's UPDATE sets: for a plain write, the columns whose value
\* differs from the one that was loaded.
Written(r) ==
  LET change == call[r].change
  IN  IF call[r].kind = "update" THEN change
      ELSE [c \in {d \in DOMAIN change : change[d] # known[r].fields[d]} |-> change[c]]

\* (variant) Every column is written, those the request leaves alone as loaded.
FlushWhole(r) ==
  /\ phase[r] = "flush"
  /\ Free(r)
  /\ Write(r, NewRow(known[r].version + 1, Merged(Written(r), known[r].fields), row.name))
  /\ UNCHANGED <<row, log, call, error, known, existing>>

\* The ORM's UPDATE .. SET version = <loaded + 1> WHERE id = ..
Flush(r) ==
  /\ phase[r] = "flush"
  /\ Free(r)
  /\ Write(r, NewRow(known[r].version + 1, Merged(Written(r), row.fields), row.name))
  /\ UNCHANGED <<row, log, call, error, known, existing>>

Commit(r) ==
  /\ phase[r] = "commit"
  /\ IF wrote[r]
     THEN /\ row' = draft[r]
          /\ log' = Append(log, [by |-> r, written |-> Written(r)])
     ELSE UNCHANGED <<row, log>>
  /\ Goto(r, "committed")
  /\ wrote' = [wrote EXCEPT ![r] = FALSE]
  /\ UNCHANGED <<call, error, known, existing, draft>>

Rollback(r) ==
  /\ phase[r] = "failing"
  /\ Goto(r, "failed")
  /\ wrote' = [wrote EXCEPT ![r] = FALSE]
  /\ UNCHANGED <<row, log, call, error, known, existing, draft>>

\* The connection is lost before the commit.
Disconnect(r) ==
  /\ phase[r] \in Open
  /\ Goto(r, "failed")
  /\ error' = [error EXCEPT ![r] = "connection"]
  /\ wrote' = [wrote EXCEPT ![r] = FALSE]
  /\ UNCHANGED <<row, log, call, known, existing, draft>>

Rest == (\A r \in Requests : phase[r] \in Ended) /\ UNCHANGED vars

Next ==
  \/ \E r \in Requests :
       \/ Load(r) \/ Lookup(r) \/ Apply(r)
       \/ Fetch(r) \/ Refuse(r) \/ Flush(r)
       \/ Commit(r) \/ Rollback(r) \/ Disconnect(r)
  \/ Rest

Spec == Init /\ [][Next]_vars
-----------------------------------------------------------------------------
\* Properties

TypeOK ==
  /\ row \in RowType
  /\ log \in Seq([by : Requests, written : Changes])
  /\ call \in [Requests -> Calls]
  /\ phase \in [Requests -> {"new", "failing"} \union Open \union Ended]
  /\ error \in [Requests -> {"none", "conflict", "invalid", "connection"}]
  /\ known \in [Requests -> RowType]
  /\ existing \in [Requests -> [Columns -> Values]]
  /\ draft \in [Requests -> RowType]
  /\ wrote \in [Requests -> BOOLEAN]

\* An update is accepted only when the row is still as its client loaded it:
\* whoever edits a stale copy is refused, so no edit overwrites one that its
\* author has not seen.
StaleIsRefused ==
  \A r \in Requests :
    phase[r] = "commit" /\ call[r].kind = "update" => known[r] = row

\* Beside plain writes a stale edit may pass, as their versions may repeat one
\* the row had: only behind a plain write whose handler had loaded the row
\* before the client loaded what it edits.
StaleOnlyBehindPlainWrite ==
  \A r \in Requests :
    phase[r] = "commit" /\ call[r].kind = "update" /\ known[r] # row =>
      \E i \in DOMAIN log : /\ call[log[i].by].kind # "update"
                            /\ known[log[i].by].version < known[r].version

\* The version counts the committed writes of the row, so that no two states
\* of the row have the same version.
VersionCountsWrites == row.version = 1 + Len(log)

\* A refusal as "modified by someone else" is true: some other request has
\* committed a write of the row since the client loaded it.
ConflictIsReal ==
  \A r \in Requests : error[r] = "conflict" =>
    \E i \in DOMAIN log : /\ log[i].by # r
                          /\ i >= known[r].version

\* variant_name is composed of the size and color that the row has, although
\* it is composed before the row is locked.
NameAgrees == row.name = NameOf(row.fields)

\* Every column has the value that the last committed request to set it gave
\* it: no write, plain or versioned, loses a column that another one set.
LastWrite(c) == {i \in DOMAIN log : /\ c \in DOMAIN log[i].written
                                    /\ \A j \in DOMAIN log :
                                         j > i => c \notin DOMAIN log[j].written}

EveryColumnLands ==
  \A c \in Columns :
    /\ LastWrite(c) = {} => row.fields[c] = InitialFields[c]
    /\ \A i \in LastWrite(c) : row.fields[c] = log[i].written[c]

\* The clients whose calls all carry a version.
VersionedOnly == \A c \in Calls : c.kind = "update"

\* Seen through its versioned updates, the row is the one of OptimisticEdits.
Edits == INSTANCE OptimisticEdits
  WITH fields <- row.fields,
       edits <- row.version - 1,
       basis <- [r \in Requests |-> IF phase[r] = "new" THEN -1
                                    ELSE known[r].version - 1],
       accepted <- {r \in Requests : phase[r] = "committed"}

EditsSpec == Edits!Spec
=============================================================================
