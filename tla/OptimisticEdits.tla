--------------------------- MODULE OptimisticEdits ---------------------------
(***************************************************************************)
(* What an endpoint with an expected_version promises: editors take a copy *)
(* of a row and send their changes later, and a change is accepted only if *)
(* none was accepted since its editor took the copy.  Refused and lost     *)
(* edits leave no trace.                                                   *)
(***************************************************************************)
EXTENDS Integers

CONSTANTS Requests, Changes, InitialFields

VARIABLES
  fields,    \* the columns of the row
  edits,     \* how many changes were accepted
  basis,     \* per request, "edits" when its editor copied the row, or Unread
  accepted   \* requests whose change was accepted

vars == <<fields, edits, basis, accepted>>

Unread == -1

\* The columns after a partial change of them.
Merged(change, old) ==
  [c \in DOMAIN old |-> IF c \in DOMAIN change THEN change[c] ELSE old[c]]

Init ==
  /\ fields = InitialFields
  /\ edits = 0
  /\ basis = [r \in Requests |-> Unread]
  /\ accepted = {}

Load(r) ==
  /\ basis[r] = Unread
  /\ basis' = [basis EXCEPT ![r] = edits]
  /\ UNCHANGED <<fields, edits, accepted>>

Accept(r, change) ==
  /\ r \notin accepted
  /\ basis[r] = edits
  /\ fields' = Merged(change, fields)
  /\ edits' = edits + 1
  /\ accepted' = accepted \union {r}
  /\ UNCHANGED basis

Next == \E r \in Requests : Load(r) \/ \E change \in Changes : Accept(r, change)

Spec == Init /\ [][Next]_vars
=============================================================================
