----------------------------- MODULE Migrations -----------------------------
(***************************************************************************)
(* The chain of Alembic migrations of the backend, run against a database  *)
(* that is in use.  A migration script is a sequence of statements; a run  *)
(* of `alembic upgrade` or `alembic downgrade` executes the scripts between *)
(* two revisions in one transaction, which a failing statement or a lost   *)
(* connection rolls back.  Meanwhile companies sign up, users get roles    *)
(* and products get units, as far as the locks of the run let them.        *)
(*                                                                         *)
(* Of a table the model keeps its name, the tables it references and its   *)
(* unique keys; of the rows those that migrations seed, delete or could    *)
(* leave dangling.  The codes of one seed file stand for one permission.   *)
(* One run is in progress at a time.                                       *)
(***************************************************************************)
EXTENDS Integers, Sequences, FiniteSets, SequencesExt

CONSTANTS
  Users,       \* users that may be created, an owner or not
  Products,    \* products that may be created
  MaxCrashes   \* bound: runs that lose their connection

ASSUME BoundsAssumption == MaxCrashes \in Nat

SuperAdmin == "Super Admin"
AllRoles == {SuperAdmin, "Admin", "Manager", "Cashier"}

-----------------------------------------------------------------------------
(* Statements of a script.                                                 *)

Create(t, refs, keys) == [do |-> "create", table |-> t, refs |-> refs, keys |-> keys]
AddReference(t, ref) == [do |-> "addReference", table |-> t, ref |-> ref]
DropReference(t, ref) == [do |-> "dropReference", table |-> t, ref |-> ref]
Drop(t) == [do |-> "drop", table |-> t]
Insert(t, rows) == [do |-> "insert", table |-> t, rows |-> rows]
InsertMissing(t, rows) == [do |-> "insertMissing", table |-> t, rows |-> rows]
Delete(t, rows) == [do |-> "delete", table |-> t, rows |-> rows]
LookUp(t, rows) == [do |-> "lookUp", table |-> t, rows |-> rows]

DropAll(tables) == [i \in DOMAIN tables |-> Drop(tables[i])]

-----------------------------------------------------------------------------
(* The scripts.                                                            *)

OrganizationTables ==
  << Create("companies", {}, {}),
     Create("permissions", {}, {"code"}),
     Create("branches", {"companies"}, {}) >>

UserTables ==
  << Create("roles", {"companies"}, {"company_id, name"}),
     Create("users", {"companies"}, {"email"}),
     Create("audit_logs", {"companies", "users"}, {}),
     Create("password_reset_tokens", {"users"}, {"token_hash"}) >>

LinkTables ==
  << Create("refresh_tokens", {"users"}, {"token_hash"}),
     Create("role_permissions", {"permissions", "roles"}, {"role_id, permission_id"}),
     Create("user_branches", {"branches", "users"}, {"user_id, branch_id"}),
     Create("user_roles", {"roles", "users"}, {"user_id, role_id"}),
     Create("warehouses", {"branches", "companies"}, {}) >>

\* (variant) The self reference is left to CREATE TABLE, which omits it.
BackReferencesBetweenTables ==
  << AddReference("branches", "warehouses"),
     AddReference("branches", "users"),
     AddReference("users", "branches") >>

BackReferences ==
  << AddReference("branches", "warehouses"),
     AddReference("branches", "users"),
     AddReference("users", "branches"),
     AddReference("refresh_tokens", "refresh_tokens") >>

DropBackReferences ==
  << DropReference("refresh_tokens", "refresh_tokens"),
     DropReference("users", "branches"),
     DropReference("branches", "users"),
     DropReference("branches", "warehouses") >>

\* The tables whose creation order is circular need their back references
\* dropped before any of them goes.
FoundationDrops ==
  DropBackReferences \o
  DropAll(<< "warehouses", "user_roles", "user_branches", "role_permissions",
             "refresh_tokens", "password_reset_tokens", "audit_logs", "users",
             "roles", "branches", "permissions", "companies" >>)

\* The permissions of users_roles_permissions/seed.py and who gets one.
DefaultGrants == {SuperAdmin, "Admin", "Manager", "Cashier"} \X {"identity"}

\* (variant) A bundle without the owner's role.
CatalogueGrantsOfStaff == {"Admin", "Manager", "Cashier"} \X {"catalogue"}

CatalogueGrants == {SuperAdmin, "Admin", "Manager", "Cashier"} \X {"catalogue"}
InventoryGrants == {SuperAdmin, "Admin", "Manager"} \X {"inventory"}

RolesSeed ==
  << Insert("permissions", {"identity"}),
     Insert("roles", AllRoles),
     Insert("role_permissions", DefaultGrants) >>

\* (variant) The users lose the roles that go.
RolesUnseedFromUsers ==
  << Delete("role_permissions", AllRoles \X {"identity", "catalogue", "inventory"}),
     Delete("user_roles", Users \X AllRoles),
     Delete("roles", AllRoles),
     Delete("permissions", {"identity"}) >>

RolesUnseed ==
  << Delete("role_permissions", AllRoles \X {"identity", "catalogue", "inventory"}),
     Delete("roles", AllRoles),
     Delete("permissions", {"identity"}) >>

CatalogueTables ==
  << Create("brands", {"companies"}, {"company_id, name"}),
     Create("categories", {"companies", "categories"}, {"company_id, name"}),
     Create("units", {"companies"}, {"company_id, abbreviation"}),
     Create("products", {"units", "brands", "categories", "companies"}, {"company_id, sku"}),
     Create("product_images", {"companies", "products"}, {}),
     Create("product_variants", {"companies", "products"}, {"company_id, sku"}),
     Create("product_barcodes", {"companies", "product_variants"}, {"company_id, barcode"}) >>

CatalogueDrops ==
  DropAll(<< "product_barcodes", "product_variants", "product_images", "products",
             "units", "categories", "brands" >>)

UnitsSeed == << Insert("units", {"default"}) >>
UnitsUnseed == << Delete("units", {"default"}) >>

CatalogueSeed ==
  << Insert("permissions", {"catalogue"}),
     LookUp("roles", AllRoles),
     Insert("role_permissions", CatalogueGrants) >>

\* (variant) The grants go with their permissions, which stay.
CatalogueUnseedOfGrants == << Delete("role_permissions", AllRoles \X {"catalogue"}) >>

CatalogueUnseed ==
  << Delete("role_permissions", AllRoles \X {"catalogue"}),
     Delete("permissions", {"catalogue"}) >>

\* (variant) The batches that were left out of this sprint get their table.
InventoryTablesAndBatches ==
  << Create("stock_levels", {"companies", "product_variants", "warehouses"},
            {"company_id, warehouse_id, product_variant_id"}),
     Create("product_batches", {"product_variants"}, {}),
     Create("stock_transfers", {"companies", "warehouses", "product_variants"}, {}),
     Create("stock_transactions",
            {"branches", "companies", "product_variants", "stock_transfers", "warehouses"}, {}) >>

InventoryTables ==
  << Create("stock_levels", {"companies", "product_variants", "warehouses"},
            {"company_id, warehouse_id, product_variant_id"}),
     Create("stock_transfers", {"companies", "warehouses", "product_variants"}, {}),
     Create("stock_transactions",
            {"branches", "companies", "product_variants", "stock_transfers", "warehouses"}, {}) >>

InventoryDrops == DropAll(<< "stock_transactions", "stock_transfers", "stock_levels" >>)

\* (variant) The inserts take a fresh table for granted, as the earlier seeds do.
InventorySeedUnguarded ==
  << Insert("permissions", {"inventory"}),
     LookUp("roles", {SuperAdmin, "Admin", "Manager"}),
     Insert("role_permissions", InventoryGrants) >>

InventorySeed ==
  << InsertMissing("permissions", {"inventory"}),
     LookUp("roles", {SuperAdmin, "Admin", "Manager"}),
     InsertMissing("role_permissions", InventoryGrants) >>

InventoryUnseed ==
  << Delete("role_permissions", AllRoles \X {"inventory"}),
     Delete("permissions", {"inventory"}) >>

\* The chain: revision v follows revision v - 1, 0 is the empty database.
Revisions ==
  << [id |-> "a2cce9c09038", up |-> OrganizationTables \o UserTables \o LinkTables \o BackReferences,
      down |-> FoundationDrops],
     [id |-> "0abf28a92bd6", up |-> RolesSeed, down |-> RolesUnseed],
     [id |-> "5e3f8755c736", up |-> CatalogueTables, down |-> CatalogueDrops],
     [id |-> "554ff24b3859", up |-> UnitsSeed, down |-> UnitsUnseed],
     [id |-> "0a79316d69b0", up |-> CatalogueSeed, down |-> CatalogueUnseed],
     [id |-> "2990ee6aa213", up |-> InventoryTables, down |-> InventoryDrops],
     [id |-> "7cfdb65bb2f2", up |-> InventorySeed, down |-> InventoryUnseed] >>

Latest == Len(Revisions)

-----------------------------------------------------------------------------
(* What the models of the application declare, file by file.               *)

Declared(t, refs, keys) == [table |-> t, refs |-> refs, keys |-> keys]

CompanyModels ==
  { Declared("companies", {}, {}),
    Declared("branches", {"companies", "warehouses", "users"}, {}),
    Declared("warehouses", {"companies", "branches"}, {}) }

IdentityModels ==
  { Declared("users", {"companies", "branches"}, {"email"}),
    Declared("roles", {"companies"}, {"company_id, name"}),
    Declared("permissions", {}, {"code"}),
    Declared("role_permissions", {"roles", "permissions"}, {"role_id, permission_id"}),
    Declared("user_roles", {"users", "roles"}, {"user_id, role_id"}),
    Declared("user_branches", {"users", "branches"}, {"user_id, branch_id"}) }

AuthModels ==
  { Declared("refresh_tokens", {"users", "refresh_tokens"}, {"token_hash"}),
    Declared("password_reset_tokens", {"users"}, {"token_hash"}) }

AuditModels == { Declared("audit_logs", {"companies", "users"}, {}) }

CatalogueModels ==
  { Declared("categories", {"companies", "categories"}, {"company_id, name"}),
    Declared("brands", {"companies"}, {"company_id, name"}),
    Declared("units", {"companies"}, {"company_id, abbreviation"}),
    Declared("products", {"companies", "categories", "brands", "units"}, {"company_id, sku"}),
    Declared("product_variants", {"companies", "products"}, {"company_id, sku"}),
    Declared("product_barcodes", {"companies", "product_variants"}, {"company_id, barcode"}),
    Declared("product_images", {"companies", "products"}, {}) }

InventoryModels ==
  { Declared("stock_levels", {"companies", "warehouses", "product_variants"},
             {"company_id, warehouse_id, product_variant_id"}),
    Declared("stock_transfers", {"companies", "warehouses", "product_variants"}, {}),
    Declared("stock_transactions",
             {"companies", "branches", "warehouses", "product_variants", "stock_transfers"}, {}) }

Models == CompanyModels \union IdentityModels \union AuthModels \union AuditModels
            \union CatalogueModels \union InventoryModels

-----------------------------------------------------------------------------
(* The database, and what PostgreSQL makes of one statement.               *)

RowTables == {"permissions", "roles", "role_permissions", "users", "user_roles",
              "units", "products"}

EmptyDatabase ==
  [version |-> 0, tables |-> {}, references |-> {}, keys |-> {},
   rows |-> [t \in RowTables |-> {}]]

\* The rows a row points to.  A user or a product stands for its own row.
PointsTo(t, row) ==
  CASE t = "role_permissions" -> { <<"roles", row[1]>>, <<"permissions", row[2]>> }
    [] t = "user_roles"       -> { <<"users", row[1]>>, <<"roles", row[2]>> }
    [] t = "products"         -> { <<"units", row[2]>> }
    [] OTHER                  -> {}

\* A row whose column has a foreign key and no row to point to.
Dangling(d) ==
  \E t \in RowTables : \E row \in d.rows[t] : \E p \in PointsTo(t, row) :
    <<t, p[1]>> \in d.references /\ p[2] \notin d.rows[p[1]]

\* System roles and units have no company: their key, which holds a NULL,
\* does not forbid a second one.
Duplicates(d, s) ==
  /\ s.do = "insert"
  /\ s.rows \intersect d.rows[s.table] # {}
  /\ \E k \in {"code", "role_id, permission_id"} : <<s.table, k>> \in d.keys

After(d, s) ==
  CASE s.do = "create" ->
         [d EXCEPT !.tables = @ \union {s.table},
                   !.references = @ \union ({s.table} \X s.refs),
                   !.keys = @ \union ({s.table} \X s.keys)]
    [] s.do = "drop" ->
         [d EXCEPT !.tables = @ \ {s.table},
                   !.references = {f \in @ : f[1] # s.table},
                   !.keys = {k \in @ : k[1] # s.table},
                   !.rows = [t \in RowTables |-> IF t = s.table THEN {} ELSE d.rows[t]]]
    [] s.do = "addReference"  -> [d EXCEPT !.references = @ \union {<<s.table, s.ref>>}]
    [] s.do = "dropReference" -> [d EXCEPT !.references = @ \ {<<s.table, s.ref>>}]
    [] s.do \in {"insert", "insertMissing"} ->
         [d EXCEPT !.rows[s.table] = @ \union s.rows]
    [] s.do = "delete"        -> [d EXCEPT !.rows[s.table] = @ \ s.rows]
    [] s.do = "lookUp"        -> d

Fails(d, s) ==
  \/ s.do = "create" /\ (s.table \in d.tables \/ ~ s.refs \subseteq d.tables \union {s.table})
  \/ s.do = "addReference" /\ (<<s.table, s.ref>> \in d.references \/ ~ {s.table, s.ref} \subseteq d.tables)
  \/ s.do = "dropReference" /\ <<s.table, s.ref>> \notin d.references
  \/ s.do = "drop" /\ \/ s.table \notin d.tables
                      \/ \E f \in d.references : f[2] = s.table /\ f[1] # s.table
  \/ s.do \in {"insert", "insertMissing", "delete", "lookUp"} /\ s.table \notin d.tables
  \/ s.do = "lookUp" /\ ~ s.rows \subseteq d.rows[s.table]
  \/ Duplicates(d, s)
  \/ Dangling(After(d, s))

-----------------------------------------------------------------------------
VARIABLES
  db,        \* the committed database
  run,       \* the run in progress: its direction and target revision
  work,      \* the database as the transaction of the run sees it
  at,        \* the next statement of the run's current script
  restamped, \* the version was set back and not yet brought forward again
  crashes

vars == <<db, run, work, at, restamped, crashes>>

Idle == [dir |-> "none", target |-> 0]

Init ==
  /\ db = EmptyDatabase /\ work = EmptyDatabase
  /\ run = Idle /\ at = 1
  /\ restamped = FALSE /\ crashes = 0

Script ==
  IF run.dir = "up" THEN Revisions[work.version + 1].up ELSE Revisions[work.version].down

\* `alembic upgrade <revision>` and `alembic downgrade <revision>`.
Begin(dir, v) ==
  /\ run = Idle
  /\ IF dir = "up" THEN v > db.version ELSE v < db.version
  /\ run' = [dir |-> dir, target |-> v]
  /\ work' = db /\ at' = 1
  /\ UNCHANGED <<db, restamped, crashes>>

Running == run # Idle /\ work.version # run.target
InScript == Running /\ at <= Len(Script)

Execute ==
  /\ InScript /\ ~ Fails(work, Script[at])
  /\ work' = After(work, Script[at])
  /\ at' = at + 1
  /\ UNCHANGED <<db, run, restamped, crashes>>

\* Alembic writes the version after the statements of each script.
NextRevision ==
  /\ Running /\ at > Len(Script)
  /\ work' = [work EXCEPT !.version = IF run.dir = "up" THEN @ + 1 ELSE @ - 1]
  /\ at' = 1
  /\ UNCHANGED <<db, run, restamped, crashes>>

RollBack ==
  /\ run' = Idle /\ work' = db /\ at' = 1
  /\ UNCHANGED <<db, restamped>>

\* A statement that fails raises through `begin_transaction`.
Raise == InScript /\ Fails(work, Script[at]) /\ RollBack /\ UNCHANGED crashes

Crash ==
  /\ run # Idle /\ crashes < MaxCrashes
  /\ RollBack
  /\ crashes' = crashes + 1

Commit ==
  /\ run # Idle /\ work.version = run.target
  /\ db' = work
  /\ run' = Idle /\ at' = 1
  /\ restamped' = (restamped /\ run.target \notin {0, Latest})
  /\ UNCHANGED <<work, crashes>>

\* An operator sets the recorded revision back over the last script, whose
\* rows stay: that script may then run again.
Restamp ==
  /\ run = Idle /\ db.version = Latest
  /\ db' = [db EXCEPT !.version = Latest - 1]
  /\ work' = db'
  /\ restamped' = TRUE
  /\ UNCHANGED <<run, at, crashes>>

-----------------------------------------------------------------------------
(* The application.  A request waits for the tables and rows a run has     *)
(* changed; what it writes to the others the run sees, once committed.     *)

Changed ==
  (db.tables \ work.tables) \union (work.tables \ db.tables)
    \union (UNION { {f[1], f[2]} :
                    f \in (db.references \ work.references) \union (work.references \ db.references) })
    \union {t \in RowTables : db.rows[t] # work.rows[t]}

Free(tables) == tables \subseteq db.tables /\ tables \intersect Changed = {}

Write(rows) ==
  /\ db' = [db EXCEPT !.rows = [t \in RowTables |-> db.rows[t] \union rows[t]]]
  /\ work' = [work EXCEPT !.rows = [t \in RowTables |-> work.rows[t] \union rows[t]]]
  /\ UNCHANGED <<run, at, restamped, crashes>>

NoRows == [t \in RowTables |-> {}]

OwnedTables == {"companies", "branches", "warehouses", "users", "user_branches", "user_roles",
                "roles", "refresh_tokens"}

\* A new company: its owner gets the system role, or the request fails.
SignUp(u) ==
  /\ u \notin db.rows.users
  /\ Free(OwnedTables)
  /\ SuperAdmin \in db.rows.roles
  /\ Write([NoRows EXCEPT !.users = {u}, !.user_roles = {<<u, SuperAdmin>>}])

\* Someone who signed up makes a user, with roles the client names.
AddUser(u, roles) ==
  /\ u \notin db.rows.users /\ db.rows.users # {}
  /\ Free({"companies", "branches", "users", "user_branches", "user_roles", "roles"})
  /\ roles \subseteq db.rows.roles
  /\ Write([NoRows EXCEPT !.users = {u}, !.user_roles = {<<u, r>> : r \in roles}])

\* A product measured in a default unit.
AddProduct(p) ==
  /\ <<p, "default">> \notin db.rows.products /\ db.rows.users # {}
  /\ Free({"companies", "units", "products", "product_variants"})
  /\ "default" \in db.rows.units
  /\ Write([NoRows EXCEPT !.products = {<<p, "default">>}])

Migrate ==
  \/ \E v \in 0..Latest : \E dir \in {"up", "down"} : Begin(dir, v)
  \/ Execute \/ NextRevision \/ Raise \/ Crash \/ Commit \/ Restamp

Use ==
  \/ \E u \in Users : SignUp(u) \/ \E roles \in SUBSET AllRoles : AddUser(u, roles)
  \/ \E p \in Products : AddProduct(p)

Next == Migrate \/ Use

Spec == Init /\ [][Next]_vars

-----------------------------------------------------------------------------
(* Properties.                                                             *)

DatabaseType(d) ==
  /\ d.version \in 0..Latest
  /\ d.tables \subseteq {m.table : m \in Models}
  /\ d.references \subseteq d.tables \X d.tables
  /\ \A k \in d.keys : k[1] \in d.tables
  /\ \A t \in RowTables : d.rows[t] # {} => t \in d.tables

\* The committed database and the one the run works on are databases: every
\* reference is between tables that exist, and every row is in a table that
\* does.
TypeOK ==
  /\ DatabaseType(db) /\ DatabaseType(work)
  /\ run \in [dir : {"none", "up", "down"}, target : 0..Latest]
  /\ at \in 1..(Len(FoundationDrops) + 1)
  /\ restamped \in BOOLEAN /\ crashes \in 0..MaxCrashes

\* `alembic check`: at the head revision the database has the tables, the
\* references and the unique keys the models declare, and no others.
HeadIsModels ==
  db.version = Latest =>
    /\ db.tables = {m.table : m \in Models}
    /\ db.references = UNION { {m.table} \X m.refs : m \in Models }
    /\ db.keys = UNION { {m.table} \X m.keys : m \in Models }

SeededTables == {"permissions", "roles", "role_permissions", "units"}

\* What a database has of what scripts make: pairs of a table and something of
\* it, each with a tag that says what it is.
Tagged(tag, pairs) == {<<tag, f[1], f[2]>> : f \in pairs}

Content(d) ==
  Tagged("table", {<<t, t>> : t \in d.tables})
    \union Tagged("reference", d.references) \union Tagged("key", d.keys)
    \union Tagged("row", UNION { {t} \X d.rows[t] : t \in SeededTables })

\* What a statement of an upgrade script makes; none takes anything away.
Makes(s) ==
  CASE s.do = "create" -> Tagged("table", {<<s.table, s.table>>})
                            \union Tagged("reference", {s.table} \X s.refs)
                            \union Tagged("key", {s.table} \X s.keys)
    [] s.do = "addReference" -> Tagged("reference", {<<s.table, s.ref>>})
    [] s.do \in {"insert", "insertMissing"} -> Tagged("row", {s.table} \X s.rows)
    [] OTHER -> {}

MadeBy(script) == UNION {Makes(script[i]) : i \in DOMAIN script}

Made == [v \in 0..Latest |-> UNION {MadeBy(Revisions[u].up) : u \in 1..v}]

\* The recorded revision tells what the database holds, however it was
\* reached: upgrades and downgrades in any order, failed and lost runs, with
\* companies signing up meanwhile.  So every downgrade undoes its upgrade.
RevisionTellsSchema == ~ restamped => Content(db) = Made[db.version]

\* Nothing makes a run fail but a downgrade over a seed that is in use: a
\* system role that a user holds, or a default unit of a product.  Running
\* the last script where its rows, or some of them, already are is no failure.
RunsFailOnlyInUse ==
  InScript /\ Fails(work, Script[at]) =>
    /\ run.dir = "down"
    /\ \/ work.version = 2 /\ work.rows.user_roles # {}
       \/ work.version = 4 /\ work.rows.products # {}

\* Whoever signed a company up is granted, by the role a sign-up gives, every
\* permission there is, whichever seeds have come, gone and come again since.
OwnerMayDoAll ==
  ~ restamped =>
    \A u \in Users : <<u, SuperAdmin>> \in db.rows.user_roles =>
      {SuperAdmin} \X db.rows.permissions \subseteq db.rows.role_permissions

\* No run takes a role away from a user who holds it: a downgrade that would
\* is rolled back.
RolesAreKept == [][db.rows.user_roles \subseteq db'.rows.user_roles]_vars
=============================================================================
