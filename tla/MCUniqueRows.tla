---------------------------- MODULE MCUniqueRows ----------------------------
(***************************************************************************)
(* Instances of UniqueRows for TLC.                                        *)
(***************************************************************************)
EXTENDS UniqueRows, CatalogueCalls

CONSTANTS r1, r2

TwoRequests == {r1, r2}

SeededRow(table, name, number) == [key |-> Key(table, name), by |-> "seed", group |-> number]

\* Two branches have the same code, as two simultaneous requests may leave them.
SeededRows ==
  {SeededRow("units", "pcs", 1), SeededRow("roles", "Super Admin", 1),
   SeededRow("variants", "V0", 1), SeededRow("branches", "HO", 1),
   SeededRow("branches", "B2", 1), SeededRow("branches", "B2", 2)}

\* Before there were any such branches.
CleanRows == {x \in SeededRows : x.key.name # "B2"}

Line(sku, variant, category, unit, inRange) ==
  [sku |-> sku, variant |-> variant, category |-> category, brand |-> None,
   unit |-> unit, gender |-> None, inRange |-> inRange, parses |-> TRUE]

Product(sku, variants) ==
  [sku |-> sku, category |-> None, brand |-> None, unit |-> "pcs",
   hasVariants |-> Len(variants) > 1, variants |-> variants]

OneLine  == Line("P1", "P1", "toys", "pcs", TRUE)
TwoLines == <<Line("P2", "V1", "toys", "pcs", TRUE), Line("P2", "V2", None, "pcs", TRUE)>>

\* Two files of the same products in opposite orders; one with an unknown unit
\* after a category, one with a value out of range, one with a known SKU among
\* its variants, one that cannot be parsed.
Files == {<<OneLine>> \o TwoLines,
          TwoLines \o <<OneLine>>,
          <<Line("P3", "P3", "toys", "unknown", TRUE), OneLine>>,
          <<OneLine, Line("P3", "P3", None, "pcs", FALSE)>>,
          <<Line("P3", "V3", None, "pcs", TRUE), Line("P3", "V0", None, "pcs", TRUE), OneLine>>,
          <<[OneLine EXCEPT !.parses = FALSE], OneLine>>}

ImportCalls ==
  {Import(file) : file \in Files}
    \union {Post(steps) : steps \in
             {NewProduct(Product("P1", <<>>)), NewCategory("toys", None),
              NewProduct([Product("P2", <<>>) EXCEPT !.hasVariants = TRUE]),
              NewNamed("brands", "acme"), NewNamed("units", "pcs"),
              NewProduct([Product("P1", <<>>) EXCEPT !.brand = "acme"]),
              NewWarehouse("W1", "HO"), NewWarehouse("W1", "B1")}}

BadFiles == {<<OneLine, Line("P3", "P3", None, "pcs", FALSE)>>}

BadFileCalls == {Import(file) : file \in BadFiles}
BranchCalls == {Post(NewBranch("B1"))}

\* Single requests on few keys.
PostCalls ==
  {Post(steps) : steps \in
     {NewCategory("toys", None), NewCategory("games", "toys"),
      NewProduct(Product("P1", <<"V1", "V2">>)),
      NewProduct([Product("P1", <<>>) EXCEPT !.category = "toys"]),
      NewProduct(Product("P2", <<"V2", "V1">>)),
      AddVariant("P1", "V2"), AddBarcode("V1", "123"),
      NewBranch("B1"), NewBranch("B2"), NewUser("a@x", "B1", None),
      NewUser("b@x", "HO", "Super Admin"),
      Signup([company |-> "C1", email |-> "a@x", valid |-> TRUE]),
      Signup([company |-> "C2", email |-> "a@x", valid |-> FALSE])}}

AllCalls == ImportCalls \union PostCalls

KeysOf(calls) ==
  UNION {{c.groups[g].sku : g \in DOMAIN c.groups} : c \in calls}
    \union UNION {UNION {{c.groups[g].steps[i].key : i \in DOMAIN c.groups[g].steps}
                          : g \in DOMAIN c.groups} : c \in calls}

MCKeys == {x.key : x \in SeededRows} \union KeysOf(AllCalls)
=============================================================================
