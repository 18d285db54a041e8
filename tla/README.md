# RetailOS in TLA+

RetailOS is a multi-tenant retail back office: a FastAPI / SQLAlchemy /
PostgreSQL service (`src/backend`) and a Flutter client (`src/frontend`).
This directory holds TLA+ models of the parts whose correctness depends on what
several requests do at the same time, the TLC configurations that check them,
and theorems about them that TLAPS proves.

Paths below are relative to `src/backend/app/` unless they start with `src/`.

## 1. The system

A request is one call of an HTTP route. `core/db.py` gives it one SQLAlchemy
session and one PostgreSQL transaction at READ COMMITTED; the transaction is
committed after the handler returns and rolled back when it raises. The service
keeps no state of its own between requests: whatever two requests share is a
database row. Requests interleave at every `await` of a statement, in one
process or in several.

| Component | State | Operations | What makes it correct |
|---|---|---|---|
| Inventory movements (`modules/inventory`) | `stock_levels` (one row per company, variant, warehouse), `stock_transactions` (append-only ledger), `stock_transfers` | stock in, stock out, adjust, transfer | the ledger explains every balance; a request leaves all of its rows or none; no unpermitted negative balance; transfers do not deadlock |
| Inventory queries | none | transaction history by cursor, stock levels, low stock | each row is shown once, in an order that means something; a total never shows half of a transfer |
| Request-scoped session (`core/db.py`) | the open transaction | begin, commit, roll back | everything or nothing; the locks are given up |
| Product catalogue (`modules/products_catalog`) | products, variants, barcodes, images, categories, brands, units, attributes | create, versioned update, archive, add barcode / image / variant | no update is lost; SKU and barcode unique; at most one primary barcode and image; a product has a variant |
| CSV import and export (`modules/products_catalog/csv_io.py`, `service.py`) | the same tables | one SAVEPOINT per product of the file | a bad product costs only its own rows |
| Authentication (`modules/auth`) | refresh tokens (device sessions), reset tokens, failed-attempt counter and lock of the user | log in, refresh with rotation, log out, reset and change of password, revoke a session | a rotated token stays dead; an attempt is counted; a reset token works once; what must survive a 401 is committed before it |
| Users, roles, permissions (`modules/users_roles_permissions`) | users, roles, grants | create, versioned update, disable, assign | no update is lost; a company keeps its owner |
| Company, branches, warehouses (`modules/company`) | companies, branches, warehouses | signup, versioned update, create | signup is all or nothing; a branch has a default warehouse |
| Audit (`modules/audit`) | append-only log, written by authentication, stock movements and signup | log, in the caller's transaction | a record of a movement or of a signup's login is there iff the movement or the signup is; of the authentication routes, what `LogAgrees` and `RefusalIsRecorded` say |
| Dashboard (`modules/dashboard`) | none | a placeholder response | - |
| Core and common (`core`, `common`) | settings, tenant context per request | token coding, hashing, envelopes, exceptions | - |
| Migrations, seeds (`migrations`) | the schema, its revision, seeded roles, permissions and units | upgrade, downgrade between any two revisions, in use | the revision tells the schema; the head is what the models declare; nobody loses a role |
| Client: network, session (`src/frontend/lib/core`, `features/auth`) | stored tokens, session state | attach token, log in, log out, restore | who has signed out is out |
| Client: inventory | history pages, cursor, filters | refresh, filter, load more | the pages shown belong to the filter shown |
| Client: catalogue | lists, edit forms with the version they opened | load, save | an edit is refused when the row has changed |
| Client: setup, branch choice, dashboard, local database | forms; an empty Drift database | single requests | - |

How they interact: every module's service takes the request's session, so a
call from one module to another (inventory to the catalogue for the product's
policy and to the company module for the warehouse, company signup to users and
auth, inventory and auth to audit) is inside the same transaction. The client talks to
the service by HTTP only and may lose any answer.

Hard behaviour: row locks and the order they are taken in; values read before a
lock is waited for and used after it; statements that fail after earlier ones of
the same request have succeeded; lost connections; counters and flags that are
read, changed in memory and written back; lists read page by page while rows are
committed; client state captured before an `await` and written after it. The
complete list, each at its line, is under `hazards` in `PROJECT.json`.

## 2. What is modelled

### The modules

| Module | What it is |
|---|---|
| `Movements` | Calls, their legs in the order the service applies them, ledger rows, the service's validation. Shared by the two below. |
| `StockBook` | Abstract specification of the inventory: every request takes effect at most once and in one step; a balance changes only together with its ledger row. |
| `StockLedger` | The same at the grain of SQL statements: locks, drafts, policy check, commit, rollback, lost connections. Its properties and its inductive invariant. |
| `StockTotals` | The total-stock query over `StockLedger` and the property that transfers conserve stock. |
| `MCStockLedger` | Instances for TLC. |
| `FiniteFacts` | Facts about finite sets, proved: the greatest and the least element of a set of naturals, induction over naturals and over the subsets of a finite set, sums over finite sets. |
| `StockLedgerProofs` | The invariants of `StockLedger`, that it never deadlocks on row locks, and that it implements `StockBook` and so conserves stock, proved. |
| `OptimisticEdits` | Abstract specification of a row that is edited with an expected version: an edit is accepted only if none was since its editor copied the row. |
| `VersionedRow` | A row with a version column at the grain of SQL statements: versioned updates, and the plain writes of the ORM beside them. |
| `MCVersionedRow` | Instances for TLC: a variant, a user, a product. |
| `VersionedRowProofs` | Its invariants, with and without plain writes, and its refinement of `OptimisticEdits`, proved. |
| `TransactionHistory` | The service's list of ledger rows by cursor while movements commit, composed with the client's `TransactionHistoryNotifier` that loads it. |
| `MCTransactionHistory` | Instances for TLC. |
| `TransactionHistoryProofs` | Its invariants, proved. |
| `UniqueRows` | Requests that look rows up and then insert rows, and the product import with its SAVEPOINT per product. Generic in the steps of a call. |
| `CatalogueCalls` | Which steps each creating handler takes, and what products a file of lines stands for. |
| `MCUniqueRows` | Instances for TLC. |
| `UniqueRowsProofs` | The invariants of `UniqueRows`, proved. |
| `SessionRegister` | Abstract specification of a user's sessions: opened once, ended for good, replaced by a new one. |
| `Sessions` | The authentication service at the grain of SQL statements: sign-in, refresh, sign-out, reset links, passwords, disabling and enabling a user, the audit log. |
| `MCSessions` | An instance for TLC. |
| `SessionsProofs` | The invariants of `Sessions` and its refinement of `SessionRegister`, proved. |
| `PrimaryItems` | The primary barcode of a variant and the primary image of a product, added by several requests. |
| `MCPrimaryItems` | An instance for TLC. |
| `PrimaryItemsProofs` | Its invariants, proved. |
| `Migrations` | The seven migration scripts, statement by statement, run up and down while the application works. |
| `MCMigrations` | An instance for TLC. |
| `MigrationsProofs` | What scripts make and take away, the invariants of `Migrations`, and that no role is lost, proved. |

### StockLedger and the code

| Model | Code |
|---|---|
| `present`, `quantity` | `stock_levels` (`modules/inventory/models.py:47`), as committed |
| `ledger[k]`, `transfers` | `stock_transactions` of a key in commit order, `stock_transfers` |
| `audit[k]` | `audit_logs` whose `entity_id` is a row of the key's ledger, as the rows they tell of |
| `policy` | `track_inventory`, `allow_negative_stock` of the product |
| `held`, `work`, `rows`, `entries`, `header` | the row locks of an open transaction and what it has written: quantities, ledger rows, audit rows, the transfer header |
| `call`, `phase`, `at`, `seen`, `before`, `error` | the handler: its arguments, where it is, the current leg, the policy read by `_get_variant_and_product`, `previous_quantity`, the exception |
| `Reject`, `Open` | validation and look-ups (`service.py:62-73`, `239-304`), header insert of a transfer |
| `Upsert` | `INSERT .. ON CONFLICT DO UPDATE SET quantity = quantity + delta RETURNING` (`repository.py:79-125`) |
| `Check` | `_check_policy`, then the ledger row and its audit row (`service.py:75-163`) |
| `EnsureRow`, `LockRow`, `SetCounted` | the three statements of `set_absolute` (`repository.py:127-192`) and the adjustment's ledger and audit row |
| `Commit`, `Rollback` | `get_db_session` (`core/db.py:48-54`) |
| `Disconnect` | external: the connection or the process is lost, PostgreSQL rolls back |
| `UpdatePolicy` | `PUT /products/{id}` as the inventory sees it |

A statement is one step because PostgreSQL evaluates it atomically against the
rows it locks: an `UPDATE` or an `ON CONFLICT DO UPDATE` that waited for a lock
is evaluated on the row version committed last. The look-ups before the first
write are one step with the policy read: warehouses and variants are never
deleted, so the policy is the only thing read there that can change. The check
of the policy and the inserts of the ledger row and of its audit row are one
step, since nothing is shared between them; a connection lost between the two
inserts leaves what one lost before the commit leaves. The opening balances are
movements that were booked before, and so have their rows in both. Integers are
bounded by `MinInt` and `MaxInt`; a statement whose parameter or result lies
outside fails, as PostgreSQL's INTEGER does.
Texts, unit costs, notes, user ids, and the tenant (one company) are left out.

Two statements in the repository's documents deserve care when reading the
code: `models.py:50` and `src/DATABASE.md:185` say that stock levels are
mutated by an atomic upsert and never by a plain UPDATE, while the adjustment
(`repository.py:183`) is a plain UPDATE under a `FOR UPDATE` lock, which
`src/DATABASE.md:195` describes. The model follows the code.

When a product allowed a negative balance and the policy was then switched off,
the code refuses a stock-in, too, while its result is still negative, with the
words "this movement would take the balance negative" (`service.py:82`). The
model does the same, and no property is stated about it.

### VersionedRow and the code

| Model | Code |
|---|---|
| `row` | the committed row: `version`, the columns that requests change, and `variant_name` as the columns it is composed of |
| `log` | the committed writes: who wrote which columns |
| `known` | the row as the client has it (its `version` is `expected_version`), or as the ORM loaded it for a plain write |
| `existing` | what `ProductVariantService.update` reads to compose `variant_name` (`products_catalog/service.py:391`) |
| `draft`, `wrote` | the uncommitted row and the row lock that comes with it |
| `Load`, `Lookup`, `Apply` | the client's GET, and `update`: `UPDATE .. SET version = version + 1 WHERE id = .. AND version = expected`, a 409 when it matches nothing |
| `Fetch`, `Refuse`, `Flush` | `add_variant`, `disable`, the password changes: load the row, check, assign, and the ORM's UPDATE of the changed columns `WHERE id = ..` |
| `Commit`, `Rollback`, `Disconnect` | as in `StockLedger` |

One row is enough, since the version of one row says nothing of another. The
plain writes are those of a user (disabled, new password) and of a product:
`add_variant` sets `has_variants` and a version it worked out from the one it
read.

### TransactionHistory and the code

| Model | Code |
|---|---|
| `rows`, `createdAt`, `clock` | `stock_transactions` and their `created_at`, which is the time the transaction *starts*, so that rows become visible out of its order |
| `Page`, `Newer`, `NextCursor` | `list_page` and `encode_cursor` (`inventory/repository.py:214-258`): `ORDER BY created_at DESC, id DESC LIMIT n + 1` behind the cursor |
| `selected`, `cursor`, `view` | the selected warehouse and filter, `_cursor`, and the state of the notifier (`inventory_providers.dart:140-212`) |
| `build`, `requests` | builds and requests in flight; a request keeps the `current` list that `loadMore` holds in a local variable |
| `overtaken` | not in the code: an answer that belongs to an earlier list has arrived since the shown one was begun |
| `Select`, `ApplyFilter`, `Retry`, `LoadMore` | the selection the notifier watches, `applyFilter` (which no screen calls yet), the retry button, `loadMore` |
| `Serve`, `Lose` | the service answers; the request or the answer is lost |
| `BuildDone`, `BuildFailed`, `MoreDone`, `MoreFailed` | the code after the `await` |

Riverpod is modelled by what it documents: the result of a superseded `build()`
is discarded but its code runs to the end, setting `state` does not cancel a
pending build, a change of a watched provider shows `AsyncLoading`, and
invalidation keeps the old data until the new is there.

### UniqueRows and the code

| Model | Code |
|---|---|
| `rows`, `own` | committed rows of all tables concerned, and those of an open transaction; a row is its key with the request and group it is from |
| `call`, `group`, `at`, `phase` | the handler: the products of a file (or one group), the step of the group |
| `report`, `error` | the import's result rows, the exception |
| `Absent`, `Present`, `Resolve` | `get_by_..` and what the handler makes of the answer |
| `Insert`, `Holders`, `Deadlock` | `flush` of a new row. PostgreSQL (external): the insert of a key that another open transaction inserted waits for it to end; a cycle of such waits is broken by failing one |
| `Begin`, `Undo` | the loop of `import_company_products` (`products_catalog/service.py:556-574`) and its `begin_nested` |
| `Fail`, `RaiseApp`, `Rollback` | any exception rolls the request back; an `AppException` inside an import only its group |

`CatalogueCalls` has one operator per handler: categories, brands, units,
products with variants, further variants, barcodes, branches, warehouses,
users, company signup and the import. The rows that assign branches and roles to
a user are rows like others, and so are the audit row and the session of the
owner's first login; the UPDATE that gives a new branch its default warehouse is
a row of its own. Which tables have a unique constraint is
`Constrained`; branches and warehouses have none. Cells of a file are fields
that say whether they parse, are in range, or name something unknown.

Whether the commit precedes the sending of the response depends on FastAPI's
version, which `pyproject.toml` leaves open (`>=0.115`); no model depends on it.

### Sessions and the code

| Model | Code |
|---|---|
| `account` | the columns of `users` that authentication reads and writes: failed attempts, lock, password, active |
| `session`, `link`, `audit` | `refresh_tokens`, `password_reset_tokens` (`modules/auth/models.py`), `audit_logs` |
| `heir` | `replaced_by_token_id`: the session that a refresh opened in place of this one |
| `call`, `phase` | the route and its arguments, the next statement of the handler |
| `saw`, `stamp`, `found`, `listed` | what the handler has read: the user and when, the token's row, the open sessions |
| `holds` | the row locks of its UPDATEs |
| `before` | not in the code: the requests that had committed when this one began |
| `RefuseToken`, `Decodes` | `decode_token` (`core/security.py:132`), with which a refresh begins: a token that has expired, or was never issued, is refused before its session is looked up |
| `FetchSession`, `FetchLink`, `FetchUser`, `FetchOwner` | the SELECTs by token hash, by e-mail or id, and of the token's user, each with the early returns that follow it |
| `UnknownUser` | a sign-in or a forgotten password with an address that nobody has; an update of nobody |
| `BeginUpdate`, `Conflict` | `PUT /users/{id}` with `is_active` ("activate", "deactivate"), whose first statement is its UPDATE; another version than the client's is a 409. Any version may be sent |
| `LockAccount`, `LockLink`, `LockSession`, `ListOpen` | the UPDATEs as far as they wait for a row, and the SELECT of the open sessions |
| `Commit` | the transaction's effect: `record_failed_login`, `record_successful_login`, `create`, `revoke`, `mark_used`, `AuditService.log`; and the two places that commit before they raise |
| `Lose`, `Tick` | the connection is lost; time passes |

Nobody sees what an open transaction has written, and no handler reads a row
again after writing it, so the effects of the UPDATEs appear at the commit, with
the values that the handler worked out from what it had *read*; until then a
request has its locks. A flush updates the rows of one table in the order of
their primary keys, which are random (`KeyOrder`), and here the reset link
before its user; which of the two comes first is SQLAlchemy's choice, and no
property depends on it. `disable` writes `is_active` only where it has read TRUE,
since the ORM leaves out a column that has not changed. Passwords and tokens are
compared as values; access tokens, which are not stored, are left out.

### PrimaryItems and the code

| Model | Code |
|---|---|
| `item` | committed rows of `product_barcodes` and `product_images`: owner, code, `is_primary` |
| `saw`, `holds` | the primary rows the handler has listed and has to demote, and those it has demoted in its transaction |
| `FetchOwner`, `LookUpCode`, `ListItems` | the look-ups of `add_barcode` and `add_image` (`products_catalog/service.py:426-481`) |
| `Demote`, `Insert` | the flush: its UPDATEs in key order, then the INSERT, which waits for an uncommitted equal barcode and fails on a committed one |
| `Commit`, `Lose` | as above |

### Migrations and the code

| Model | Code |
|---|---|
| `Revisions` | the seven files of `migrations/versions`, their `upgrade` and `downgrade` as sequences of statements |
| `Models` | what the SQLAlchemy models declare, which alembic compares with the database |
| `db`, `work` | the committed database and what the transaction of a run sees: tables, foreign keys, unique keys, seeded rows and those that refer to them |
| `run`, `at` | `alembic upgrade` or `downgrade` to a revision, and the next statement |
| `Begin`, `Execute`, `NextRevision`, `Commit` | `do_run_migrations` (`migrations/env.py`): one transaction around all scripts |
| `Raise`, `Crash` | a statement fails, the connection is lost: everything is rolled back |
| `Restamp` | external: an operator sets the recorded revision back over the last seed, which looks for each of its rows by a SELECT before it inserts it and so can be run again |
| `SignUp`, `AddUser`, `AddProduct` | the requests whose rows refer to seeded ones; they wait for tables and rows a run has changed |

Columns, types and indexes are left out; the permissions of one seed file are
one row. One run is in progress at a time, and a request is one step, since what
concerns migrations is only what it commits.

## 3. What the runs check

| Run | Question | Instance |
|---|---|---|
| `movements` | Is any interleaving of movements wrong? | 3 requests, each any of 6 calls, 2 warehouses, 1 variant, 3 policies |
| `edge` | Do the edges of the input implement the stock book, and is everybody answered? | 2 requests, each any of 14 calls |
| `versioned` | Is an edit of a stale copy ever accepted, or a fresh one refused? | 3 requests on a variant, each any of 5 updates |
| `plain` | Do the ORM's plain writes lose a column that another request set, and what do they make of versions? | 4 requests on a user (updates, disabling, password) or on a product (updates, added variants) |
| `history` | Does the list show each row once and in order, whatever commits and gets lost in between? | a transfer and a stock-in, pages of 1, 3 client requests, 2 warehouses, 2 types |
| `late` | Is the list that is shown the selected warehouse's? (no) | the same |
| `creates` | Can two requests create the same thing, or half of one? | 2 requests, each any of 26 calls or files |
| `sessions` | Do sign-in, refresh, sign-out and resets of one user get in each other's way? | 3 requests, each any of 16 calls, 1 user with an ended and two open sessions and a link, 2 attempts to a lock, time 0 .. 1 |
| `primaries` | Does a variant or a product keep its primary item, and one of them? | 3 requests, each any of 8 calls, a variant that has two primary barcodes, a product with an image |
| `schema` | Does the database follow the revision, and survive its use? | all runs between 8 revisions, 2 users, 1 product, 1 lost run |
| `branches` | Do branches of a company differ in their codes? (no) | 2 requests |
| `badrow` | Does a bad product of a file leave the others alone? (no) | 2 requests |

Properties, each with the mistake that would break it (`mutants` in
`PROJECT.json`; the definitions marked "(variant)" in the modules):

- `LedgerExplainsBalance`: the ledger of a key is an unbroken chain of balances
  that ends in the stock level. Broken by computing the sum in the service
  instead of in the upsert, or by reversing an adjustment's subtraction.
- `AllOrNothing`: a request has one ledger row per leg and its header, or
  nothing, and the audit log tells of the rows of the ledger and of no others.
  Broken by committing in a `finally`.
- `NegativeOnlyByPolicy`: concurrent stock-outs cannot together take a balance
  below zero that none was allowed to. Broken by checking the first leg only.
- `InsufficientIsCurrent`: a refusal is about the balance committed now. Broken
  by `<=` for `<`.
- `NoLockCycle`: nobody waits in a circle. Broken by taking a transfer's rows in
  the order of the request.
- `StockConserved`: a reader's total over all warehouses never sees half of a
  transfer.
- `BookSpec`: seen through its commits the service is the abstract stock book.
- `EveryRequestEnds`: under fairness every request is answered. Broken by a
  rollback that keeps its locks; in `creates` by a deadlock nobody notices.
- `StaleIsRefused`, `EditsSpec`: an update is accepted
  only on the row as its client loaded it. Broken by an UPDATE without the
  version, or by comparing it in the service before the lock is granted.
- `ConflictIsReal`: a 409 means that somebody else has committed a change.
  Broken by taking a locked row for a modified one.
- `NameAgrees`: `variant_name` is that of the row's size and color although it
  is composed before the row is locked. Broken by composing it only when both
  are sent.
- `EveryColumnLands`: plain writes, which overwrite a version they have not
  checked, still lose no column. Broken by an ORM that writes all columns.
- `StaleOnlyBehindPlainWrite`: an edit of a copy that is not the current row is
  accepted only where a plain write gave a second state the number of the first
  (`add_variant`, which counts on from a version it read before). Broken by an
  UPDATE without the version.
- `ListIsDescending`, `SkipsNothing`: pages continue one another and leave no
  row out. Broken by ordering on `created_at` alone (the two rows of a transfer
  have one), or by a `build` that does not reset the cursor.
- `ShowsSelectedUnlessOvertaken`, `LoadingEnds`: the list is the selected one's,
  and a spinner stops. Broken by reading the selection without watching it, by
  not handling a failed page.
- `OneRowPerKey`: two requests that both found a name free do not both keep it.
  Broken by leaving the constraint off one table.
- `GroupsAreWhole`: a product has its variants, its
  category, brand and unit; a user its branches and roles; a company its branch
  with its default warehouse, its owner with the owner's role, session and audit
  row. Broken by reading what is not committed.
- `ReportIsTrue`: an import reports as created, skipped or in error what was
  created, there before, or left out. Broken by a SAVEPOINT that is not undone.
- `CounterHasCauses`: attempts may be lost to the counter, which is read and
  written back, but none is made up, and a lock has its failures in the log.
  Broken by counting one attempt twice.
- `LogAgrees`: the log has a sign-in, a reset, a sign-out exactly when the
  tables have it. Broken by logging a reset as the change of password it makes.
  (The sign-in that signup makes is in `GroupsAreWhole`.)
- `RefusalIsRecorded`: what must survive the 401 does. Broken by raising before
  the commit. An unknown address and a locked account are refused without a
  record that lasts: the code logs them and then raises without a commit, which
  rolls the record back (`modules/auth/service.py:119-136`).
- `HeirsAreSound`: exchanged sessions form chains of one user. Broken by an
  exchange that leaves the old session open.
- `EarlierSessionsEnd`: a reset, or the reuse of a token that has not expired,
  ends all sessions that were there when it began, whatever is opened and ended
  meanwhile. A token that was exchanged and has since expired is refused like any
  expired one and ends nothing (`RefuseToken`): the code decodes it first. Broken
  by ending only the session whose token was reused.
- `OnceInTurn`: of two requests that do not overlap only one uses a link or
  exchanges a session; and a request that began after the user was disabled, or
  set inactive by an update, opens a session only if an update has set the user
  active since (`EnabledSince`). (Two that overlap may: both find the token good,
  and one session then has two successors.) Broken by an exchange that does not
  ask whether the user is active.
- `NoLockCycle` in `sessions` and `primaries`: broken by updating rows in the
  order in which they were listed.
- `RegisterSpec`: seen through its commits the service is the abstract
  register. Broken by opening the new session under the old one's row.
- `TwoPrimariesOverlapped`: two primary items of one owner come of requests that
  overlapped, and the next primary one demotes them both. Broken by demoting
  only the first that is found.
- `PrimaryIsReplaced`: an item stops being primary only as another one of its
  owner becomes it. Broken by leaving the owner out of the query.
- `HeadIsModels`: at the head the database is what the models declare. Broken
  by a reference that is left out of the circle of back references.
- `RevisionTellsSchema`: whatever runs were made, failed or lost, the recorded
  revision tells tables, keys and seeded rows. Broken by a downgrade that leaves
  its permissions.
- `RunsFailOnlyInUse`: no run fails but a downgrade over a role or a unit that
  is in use. Broken by a last seed that does not look for its rows.
- `OwnerMayDoAll`: the role of an owner has every permission there is. Broken by
  a seed that forgets the role.
- `RolesAreKept`: no run takes a role from a user. Broken by a downgrade that
  deletes assignments before roles.
- `TypeOK` in `history`: broken by a cursor that is a whole row. In `schema` it
  says that references and rows are in tables that exist, and that no table is
  without a model. Broken by a migration with a table too many. Both are proved
  as well, as are the type invariants of the other modules (section 4).

The bounds. Two rows are what a transfer needs, and two transfers in opposite
directions make the smallest possible lock cycle; a third request (a count, a
stock-out) is what can come between them and what a lost update or a joint
oversell needs beyond the pair. One variant is enough since keys of different
variants share nothing. Integers of -4 .. 4 with an opening balance of 2 let a
balance become negative, be exhausted, and overflow in a parameter, in a sum and
in an adjustment's difference.
An edit is disturbed by another one, and a
third can come between the two; plain writes read, wait and write, so four of
them are allowed to overlap. Pages of one row and three rows give first, middle
and last pages, a page boundary inside a transfer, and a row that commits behind
the cursor; three client requests are a first page, one more, and a new list, in
any order of arrival. Two creating requests suffice for every race between a
look-up and an insert and for a cycle of waits; the files have one to three
lines, so that products of one variant and of two occur in both orders. The two
branches that have one code from the beginning are the result of the race that
`branches` shows, and let `scalar_one_or_none` meet more than one row. No theorem
needs any of these bounds.
For sessions, two overlapping requests and a third that comes before, between or
after them are what every one of its races needs; a clock of two values, a
life of 1 for sessions and of 0 for links let each of them be fresh or expired,
and a lock hold or be over (a session opened at time 1 outlives the clock, one
from the beginning expires at 1); two attempts are the least that tell a count
from a flag. To disable a user, to enable him and to sign in takes three
requests; to exchange a token and to use it again takes two, on either side of
the tick. One user is enough, as no row that a request touches belongs to two. A variant that starts with two primary
barcodes has the smallest possible cycle of demotions. Migrations are run on
the real chain; two users are an owner and someone the owner makes, and one lost
run can hit any statement.
Requests are interchangeable (`RequestSymmetry`), used only in runs without
temporal properties. The system rests when every request is answered (`Rest`),
so TLC's deadlock check is on: a state in which some request can never go on is
reported.

Fairness. `FairSpec` asks weak fairness of each request's own steps: the event
loop resumes a coroutine whose statement has returned and PostgreSQL grants a
free lock. Nothing is asked of lost connections or of policy changes. Weak
fairness is enough for a lock waiter because there are finitely many requests:
an endless supply of new ones could overtake a waiter forever, and PostgreSQL's
lock queue, which would prevent that, is not assumed.

For the client, every request is answered or lost, since dio has a connect and a
receive timeout (`src/frontend/lib/core/network/dio_client.dart:17-18`), and the
event loop runs what awaits the answer; nothing is asked of the user. For
`creates`, PostgreSQL besides wakes a transaction whose wait is over and looks
for deadlocks.

Three runs are expected to fail, each a disagreement between the code and what
the repository says of it (`findings` in `PROJECT.json` quotes both):

- `late`: the answer of `loadMore` restores the list it was started from, under
  whatever warehouse is selected by then.
- `branches`: two requests create branches with the same code, after which every
  further request with that code fails in `scalar_one_or_none`.
- `badrow`: a value that the schema refuses raises pydantic's `ValidationError`,
  which the loop does not catch, and fails the whole import.

Three more observations, which are in the models and which no run is devoted to.
`add_variant` can give two states of a product one version, so that
`expected_version` protects a product only in so far as
`StaleOnlyBehindPlainWrite` says. A superseded `build()` of the history still
sets `_cursor`, and the next page repeats rows; `ListIsDescending` says what
remains. A product of one line in a file gets a variant with the product's SKU,
and the line's variant SKU is dropped (`LinesOf`).

## 4. What is proved

For every set of requests and calls, and, in the inventory, every set of
variants and opening balances, every finite set of warehouses and every integer
range; in the history, for all movements with finitely many rows each, all
filters, every page size and every number of client requests; in the migrations,
for all users and products, any number of crashes and any sequence of runs of the
seven scripts as they are:

| Theorem | Module |
|---|---|
| `Invariance`: `Spec => []IInv` | `StockLedgerProofs` |
| `TypeCorrect`, `NoLostUpdate`, `Atomicity`, `NoOversell`, `RefusalIsCurrent`: types, `LedgerExplainsBalance`, `AllOrNothing`, `NegativeOnlyByPolicy`, `InsufficientIsCurrent` | `StockLedgerProofs` |
| `DeadlockFree`: `Spec => []NoLockCycle` | `StockLedgerProofs` |
| `Refinement`: `Spec => BookSpec` | `StockLedgerProofs` |
| `StockIsConserved`: `Spec => []StockConserved` | `StockLedgerProofs` |
| `RowTypeCorrect`: `Spec => []TypeOK` | `VersionedRowProofs` |
| `RowInvariance`, `NoStaleEdit`, `VersionIsCount`, `NameIsComposed`, `RefusalIsTrue`: the invariants of `versioned` and that the version counts the writes, when all calls carry a version (`VersionedOnly`) | `VersionedRowProofs` |
| `ImplementsOptimisticEdits`: `Spec => EditsSpec`, when all calls carry a version | `VersionedRowProofs` |
| `PlainInvariance`, `ColumnsLand`, `StaleBehindPlain`: the inductive invariant of a row with plain writes, `EveryColumnLands` and `StaleOnlyBehindPlainWrite`, for every mix of calls | `VersionedRowProofs` |
| `CreateInvariance`: `Spec => []IInv` | `UniqueRowsProofs` |
| `CreateTypeCorrect`, `OneRowForEachKey`, `NothingInPart`, `AnswersAreTrue`, `NothingFromFailed`: types, the invariants of `creates`, and that a failed request leaves no row | `UniqueRowsProofs` |
| `SessionsInvariant`: `Spec => []SessionsInv` | `SessionsProofs` |
| `TypeCorrect`, `CounterCorrect`, `LogCorrect`, `RefusalCorrect`, `HeirsCorrect`, `EarlierSessionsCorrect`, `OnceInTurnCorrect`, `DeadlockFree`: types and the invariants of `sessions` | `SessionsProofs` |
| `ImplementsRegister`: `Spec => RegisterSpec` | `SessionsProofs` |
| `ItemsInvariant`, `TypeCorrect`, `OverlapOnly`, `ReplacedOnly`, `DeadlockFree`: the inductive invariant of `PrimaryItems`, types, `TwoPrimariesOverlapped`, `PrimaryIsReplaced` and `NoLockCycle` | `PrimaryItemsProofs` |
| `Invariance`: `Spec => []IInv` | `TransactionHistoryProofs` |
| `TypeIsOK`, `Descends`, `Complete`, `Faithful`: `TypeOK`, `ListIsDescending`, `SkipsNothing`, `ShowsSelectedUnlessOvertaken` | `TransactionHistoryProofs` |
| `Invariance`: `Spec => []IInv` | `MigrationsProofs` |
| `TypeIsOK`, `RevisionTells`, `HeadMatchesModels`, `OwnersMayDoAll`, `RolesStay`: `TypeOK`, `RevisionTellsSchema`, `HeadIsModels`, `OwnerMayDoAll`, `RolesAreKept` | `MigrationsProofs` |
| `FailsOnlyInUse`: `RunsFailOnlyInUse`, on top of `RowsPointToRows` (no row breaks a foreign key) | `MigrationsProofs` |

Assumptions: `MovementsAssumption` (warehouse ids are naturals, standing for the
order of `str(id)`; calls are well-typed; opening balances are natural) and
`StockLedgerAssumption` (finitely many warehouses; every variant has a product;
there is a policy; opening balances fit the integer range). `VersionedRowAssumption` types
columns and calls; `VersionedOnly` is a hypothesis of the theorems that name it,
and `plain` shows what is left without it. `UniqueRowsAssumption` types calls,
asks that no key with a constraint is there twice in the beginning, and that a
`resolve` is followed by the insert of its key. `SessionsAssumption` types calls
and what is there in the beginning, and asks that requests are finitely many
numbers, that sessions have different keys, and that a lock takes an attempt;
`ItemsAssumption` types calls and items and asks that each item has one place
in the order of keys. `TransactionHistoryAssumption` types filters and the rows
that a movement enters, and asks that these are finitely many and that no id is
given twice: it is the primary key of the table. `BoundsAssumption` of
`Migrations` says that the number of crashes is bounded by a natural. TLC
evaluates all of them.

`LedgerExplainsBalance` and `AllOrNothing` are about committed rows and say
nothing about a draft, so neither survives `Commit` by itself. That the audit log
follows the ledger is an invariant of its own (`Audited`: so do the rows of an
open transaction). `IInv` adds what
an open transaction knows: `Exclusive` (a row is locked by at most one
transaction), `Locks` (which rows, at each point of the handler), `Drafts` (a
balance computed and not committed was computed from the balance committed
*now*) and `Shape` (which calls can be where). The heart of the induction is
that a commit of one transaction cannot disturb the draft of another, because
`Exclusive` keeps the rows apart. For `NegativeOnlyByPolicy` the draft carries
the policy under which its row was checked.

`DeadlockFree`: a request waits for the row of its current leg, and every row
it holds belongs to an earlier leg, which has a smaller warehouse id (`Legs`).
Among a set of requests that all wait for one of the set, one waits for a row
of the largest warehouse; whoever holds that row waits for a still larger one.
This is where the finiteness of `Warehouses` is used.

`Refinement`: the mapping keeps the committed variables and reads `posted` off
`phase`. `Commit` is the only step that is not a stutter, and `IInv` supplies
that what it makes visible is exactly `Post` of its call.

`StockIsConserved` follows from the refinement's lemmas. A commit appends, to the
keys of its legs, rows that say by how much their balances change (`CommitPosts`),
so the total of a variant and the sum of its rows other than transfers change by
the same number, and a transfer's two deltas cancel (`EntryConserves`,
`TransferConserves`). The sums are over finite sets of warehouses and over the
positions of a ledger, each of which grows by one: `FiniteFacts` proves that a sum
exists, and what one more or one changed element does to it, by induction over
the subsets of a finite set.

`RowInv`: an accepted, uncommitted update knows the row as it is committed
(`Accepted`), because there is one writer at a time; so its commit makes exactly
the next version, and each version was known to be one state of the row. The
refinement reads `basis` off `known`; `Commit` is the one step that is an
`Accept`.

`PlainInv` is the invariant of a row that plain writes change too. There a
request may commit on top of a version it has not read, so that `Accepted` is
lost. What is left is `Writes`: whoever holds the row holds in its draft the
committed columns with its own written over them, because an UPDATE waits for
the row's lock and then sets only the columns it names; and `Loaded`: a copy
is the row, or older than the row, or there was a plain write of an older copy,
which set the version back.

`IInv` of `UniqueRows`: `OneRowPerKey` says nothing of an open transaction, and
what a request looked up may be gone when it inserts. `Exclusive` adds that an
inserted key with a constraint is in no committed row and in no other
transaction, so that a commit adds no second row; `Behind` and `Answers` add
that each step behind a request is done as its own transaction sees it (`Done`,
`Had`), that a skipped or undone group has left no row, and that what a group
relied on was there without the rows of later groups, which an `Undo` may take
away. The rest is monotone: committed rows are never removed.

`SessionsInv`: the properties of `Sessions` relate a commit to what others have
committed since the request *read*, so the invariant says what a request's
reading still means. `Course`: what its phase tells of its call and of the rows
it has read. `Reads`: those rows are still there, with the same user. `Issued`
and `Effects`: the tables and the log have of a request what it has done when it
has ended, and nothing before. `Counted`: the counter that a sign-in has read is
accounted for by the log as it is now. `Listing`: between the list of open
sessions and the commit no session older than the request is missing in the
list. `Once`: a request that has found a link fresh, a session open or a user
active has none before it that used, exchanged or disabled it, unless somebody
has enabled the user since. The argument rests on one lemma: only `Commit` changes
tables, and what it does to them as others see it is to *grow* (`Grow`): tokens
stay, what has ended stays ended, and a session is opened by its own request
only. An account does not grow that way, since it may be enabled again: of it,
`StaysOut` is what lasts. Whom a request has disabled is either inactive still or
was enabled by a request that had not committed when the first one began, and
only the commit of such a request makes an inactive user active
(`StaysOutKept`).

`ItemsInv`: `Covered` says that a request that adds a primary item has, from its
list until its commit, every older primary item of its owner either still to
demote or demoted; the locks keep two requests from demoting one item.

`DeadlockFree` of `SessionsProofs` and `PrimaryItemsProofs`: one more invariant
each says that what a request holds comes before what it has yet to lock
(`LocksInOrder`: the reset link, then the user, then the sessions by key;
`DemotedInOrder`: the items by key). A request that waits for a waiting one
therefore needs an earlier row than that one, and of the finitely many rows that
a set of requests needs one is the last. A request that waits for another's
code in `PrimaryItems` ends a chain: the other has inserted and waits for nobody.

`IInv` of `TransactionHistory`: what the list shows depends on answers that are on
their way, so the invariant says what they are worth. `Origin`: committed rows are
those of movements that have started, so that the order tells any two apart and a
page can be sorted at all (`SortedRows`). `Answers`: a page is sorted and holds
every row then committed that its request's filter asks for behind its cursor,
down to its end (`PageOK`); the list a `loadMore` will put back belongs to the
request's build. `Builds`: each build sent one request, and while the latest is on
its way nothing else belongs to it. `Undisturbed`, while no answer of an earlier
list has arrived: the list is sorted and complete, `_cursor` is the position of its
last row, and the only page on its way for it continues there. The heart is
`NextPage`: a page that continues a complete list at its last row makes a complete
list, since a row that is missing in the list is older than its last row, hence
behind the cursor, and was committed when the page was read. A row that commits
late, in front of the cursor, was not committed when the list was begun.
`overtaken` cannot be left out of the theorems: `late` shows what happens without it.

`IInv` of `Migrations`: `RevisionTellsSchema` is about the committed database and
says nothing of a run between its statements, and one statement says nothing of
the script it belongs to. A database is seen as its content, a set of tagged
pairs (a table, a reference, a key, a seeded row), and a script as what its
statements make or take away of it. `Progress` tells what the transaction of a run
has: on its way up from revision v, before statement n, what the first v scripts
make and what the first n - 1 statements of the next have made; on its way down,
what they make but for what the statements behind it take away. `DownUndoes` is the
heart: what a downgrade script takes away is what its upgrade makes, and nothing
that an earlier upgrade has made, because scripts create tables of their own and
seed permissions of their own (`Bound`). `Extra` is what is there besides after
the revision was set back. `Sound` adds that every reference is between tables that
exist, every row in a table that does, and that nobody holds a role that is not
there, without which a downgrade of the roles could take roles away. What the
application writes meanwhile is in no seeded table (`WriteKeeps`), and it waits for
the tables the run has changed.

`HeadMatchesModels` compares what all scripts make with what the models declare,
table by table (`FoundationDeclared`, `CatalogueDeclared`, `InventoryDeclared`): a
reference that the first script adds after both its tables exist is one that the
model declares at once (`AddedLater`).

`FailsOnlyInUse` goes through every statement at its place in its script
(`StatementsSucceed`). `IInv` says what the transaction has there; what is left is
that this suffices for the statement. A `create` finds the tables it refers to
because the 22 tables are in one order, in which each refers to earlier ones only
(`CreatesNth`, `TableScriptSucceeds`), and a `drop` finds no reference left because
the downgrade takes the same order back (`NothingRefersToIt`,
`DropScriptSucceeds`). A seed finds its tables and inserts no row twice
(`RolesSeedSucceeds`, `LaterSeedSucceeds`), with the last one, which may find its
rows there, looking first. Only a `delete` of a row that another one points to
fails; the grants that point to seeded rows are deleted before them, so that the
only such row is a role with a user or a unit with a product (`RolesUnseedSucceeds`,
`UnitsUnseedSucceeds`). An added foreign key must hold of the rows that are there,
which is `NoDangling`, the second half of the invariant (`RowsPointToRows`): a
run's statement keeps it or fails, and the application writes only rows whose
targets it has.

Only model-checked: liveness (`EveryRequestEnds`, `LoadingEnds`), which is beyond
this prover.

## 5. What is not modelled

Listed with its reason in `PROJECT.json`, in short:

- The client's token storage and its session (`features/auth`). The client never
  refreshes, it presents its refresh token only to sign out, and its screens
  offer one authentication request at a time.
- The client's catalogue, setup, branch choice and dashboard: forms over single
  requests. The version with which an edit form was opened is in `VersionedRow`
  (`known`). The local database has no tables.
- The category tree. `update` refuses only a category that is to be its own
  parent (`products_catalog/service.py:100`), so that two legal moves close a
  circle; there is no promise in the code that a property could state.
- Stock list and low stock: single statements without a cursor. Other lists and
  the export: single reads.
- Dashboard (a fixed answer), configuration, hashing, token encoding (but for
  the refusal of an expired refresh token), envelopes, middleware: no state.
- Of the audit log: addresses, devices and other columns that describe the
  client; what an audit row of a movement repeats of it is its ledger row.
- Updates of a user's name, phone, photo and default branch: they are among the
  versioned updates (`VersionedRow`); a sign-in copies the default branch into its
  tokens and reads none of the others.
- Between the models: one tenant, one database; what PostgreSQL does beyond row
  locks, unique keys, foreign keys and deadlock detection.
