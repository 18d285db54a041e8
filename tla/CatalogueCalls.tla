--------------------------- MODULE CatalogueCalls ---------------------------
(***************************************************************************)
(* The calls of UniqueRows: which steps the handlers that create rows      *)
(* take, in their order, and what products a file of lines stands for.     *)
(* Data of a request that fails a check is a field that says so.           *)
(***************************************************************************)
EXTENDS Naturals, Sequences, SequencesExt

Key(table, name) == [table |-> table, name |-> name]

\* No category, brand or parent is given.
None == "none"

Do(action, table, name) == <<[do |-> action, key |-> Key(table, name)]>>

Given(action, table, name) == IF name = None THEN <<>> ELSE Do(action, table, name)

\* create of a category, brand or unit.
NewNamed(table, name) == Do("absent", table, name) \o Do("insert", table, name)

NewCategory(name, parent) ==
  Do("absent", "categories", name) \o Given("present", "categories", parent)
    \o Do("insert", "categories", name)

NewVariant(sku) == Do("absent", "variants", sku) \o Do("insert", "variants", sku)

\* ProductService.create. "variants" has the SKUs of a product with variants,
\* and is not looked at for one without.
NewProduct(p) ==
  Do("absent", "products", p.sku)
    \o Given("present", "categories", p.category)
    \o Given("present", "brands", p.brand)
    \o Do("present", "units", p.unit)
    \o (IF p.hasVariants /\ p.variants = <<>> THEN Do("refuse", "products", p.sku) ELSE <<>>)
    \o Do("insert", "products", p.sku)
    \o (IF p.hasVariants
        THEN FlattenSeq([i \in DOMAIN p.variants |-> NewVariant(p.variants[i])])
        ELSE NewVariant(p.sku))

AddVariant(product, sku) == Do("present", "products", product) \o NewVariant(sku)

AddBarcode(variant, barcode) ==
  Do("present", "variants", variant) \o NewNamed("barcodes", barcode)

NewBranch(code) == Do("absent", "branches", code) \o Do("insert", "branches", code)

NewWarehouse(code, branch) ==
  Do("demand", "branches", branch) \o Do("insert", "warehouses", code)

\* A row that assigns something to a user: its foreign key is checked.
Assigned(email, table, name, assignments) ==
  Given("demand", table, name)
    \o IF name = None THEN <<>> ELSE Do("insert", assignments, email)

\* The user, then its branches and roles.
NewUser(email, branch, role) ==
  Do("absent", "users", email) \o Do("insert", "users", email)
    \o Assigned(email, "branches", branch, "user_branches")
    \o Assigned(email, "roles", role, "user_roles")

\* Branch and warehouse, and the branch's default_warehouse_id, written by an
\* UPDATE and here a row of its own.
DefaultBranch(company) ==
  Do("insert", "branches", company) \o Do("insert", "warehouses", company)
    \o Do("insert", "default_warehouse_ids", company)

NewOwner(email, branch) == Do("demand", "roles", "Super Admin") \o NewUser(email, branch, "Super Admin")

\* The login of a new owner: what the audit log says of it, and its session.
InitialTokens(company) ==
  Do("insert", "audit_logs", company) \o Do("insert", "refresh_tokens", company)

\* Company, branch, warehouse; then UserCreate checks the owner's data, and the
\* owner is created and logged in.
Signup(s) ==
  Do("insert", "companies", s.company)
    \o DefaultBranch(s.company)
    \o (IF s.valid THEN <<>> ELSE Do("break", "users", s.email))
    \o NewOwner(s.email, s.company)
    \o InitialTokens(s.company)
-----------------------------------------------------------------------------
\* The file: lines with the same SKU are one product, in the order in which
\* the SKUs first appear. The first line says what the product is.
Resolved(table, name) ==
  Given("resolve", table, name) \o Given("insert", table, name)

LinesOf(lines, sku) == SelectSeq(lines, LAMBDA line : line.sku = sku)

First(lines, i) == \A j \in 1..(i - 1) : lines[j].sku # lines[i].sku

\* _import_one_group: a product of one line is one without variants.
ImportGroup(lines) ==
  LET first == lines[1]
      many  == Len(lines) > 1
  IN  [sku   |-> Key("products", first.sku),
       lines |-> lines,
       steps |-> Resolved("categories", first.category)
                   \o Resolved("brands", first.brand)
                   \o Do("present", "units", first.unit)
                   \o (IF first.gender = "unknown"
                       THEN Do("refuse", "products", first.sku) ELSE <<>>)
                   \o (IF \A i \in DOMAIN lines : lines[i].inRange
                       THEN <<>> ELSE Do("break", "products", first.sku))
                   \o NewProduct([sku |-> first.sku, category |-> first.category,
                        brand |-> first.brand, unit |-> first.unit, hasVariants |-> many,
                        variants |-> [i \in DOMAIN lines |-> lines[i].variant]])]

\* A file with a line that cannot be parsed is refused before anything is read.
Import(lines) ==
  LET firsts == SelectSeq([i \in DOMAIN lines |-> i], LAMBDA i : First(lines, i))
  IN  IF \E i \in DOMAIN lines : ~lines[i].parses
      THEN [kind   |-> "request",
            groups |-> <<[sku |-> Key("products", lines[1].sku), lines |-> <<>>,
                          steps |-> Do("refuse", "products", lines[1].sku)]>>]
      ELSE [kind   |-> "import",
            groups |-> [k \in DOMAIN firsts |-> ImportGroup(LinesOf(lines, lines[firsts[k]].sku))]]

\* A request that is not an import.
Post(steps) ==
  [kind |-> "request", groups |-> <<[sku |-> steps[1].key, lines |-> <<>>, steps |-> steps]>>]
=============================================================================
