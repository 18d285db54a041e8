--------------------------- MODULE MigrationsProofs ---------------------------
(***************************************************************************)
(* Proofs about the migrations.  An upgrade script only adds to what a     *)
(* database has, a downgrade script only takes away, and takes away what   *)
(* its upgrade has made and nothing that was there before: so the revision *)
(* and the next statement tell what the transaction of a run has, whatever *)
(* the application writes meanwhile.                                       *)
(***************************************************************************)
EXTENDS Migrations, SequenceTheorems, TLAPS

\* What a statement of a downgrade script takes away.
Removes(s, x) ==
  /\ x[2] = s.table
  /\ \/ s.do = "drop"
     \/ s.do = "dropReference" /\ x[1] = "reference" /\ x[3] = s.ref
     \/ s.do = "delete" /\ x[1] = "row" /\ x[3] \in s.rows

\* Before statement n of a script.
MadeBefore(script, n) == UNION {Makes(script[i]) : i \in 1..(n - 1)}
RemovedBefore(script, n, x) == \E i \in 1..(n - 1) : Removes(script[i], x)

\* What a database may have besides: the rows of the last seed, while its
\* revision is set back.
Extra == IF restamped THEN MadeBy(Revisions[Latest].up) ELSE {}

Has(d, least) == least \subseteq Content(d) /\ Content(d) \subseteq least \union Extra

Names == {m.table : m \in Models}

\* A database whose foreign keys and rows are in tables that exist, and in
\* which nobody holds a role that is not there.
Shape(d) ==
  /\ d \in [version : 0..Latest, tables : SUBSET Names, references : {d.references},
            keys : {d.keys}, rows : {d.rows}]
  /\ d.rows = [t \in RowTables |-> d.rows[t]]

RolesHeld(d) ==
  /\ "user_roles" \in d.tables => <<"user_roles", "roles">> \in d.references
  /\ <<"user_roles", "roles">> \in d.references =>
       \A row \in d.rows.user_roles : row[2] \in d.rows.roles

Sound(d) ==
  /\ Shape(d)
  /\ d.references \subseteq d.tables \X d.tables
  /\ \A k \in d.keys : k[1] \in d.tables /\ k = <<k[1], k[2]>>
  /\ \A t \in RowTables : d.rows[t] # {} => t \in d.tables
  /\ RolesHeld(d)

Course ==
  /\ run \in [dir : {"none", "up", "down"}, target : 0..Latest]
  /\ run.dir = "none" => run = Idle
  /\ run = Idle => work = db
  /\ run.dir = "up" => work.version <= run.target
  /\ run.dir = "down" => work.version >= run.target
  /\ IF Running THEN at \in 1..(Len(Script) + 1) ELSE at = 1
  /\ restamped \in BOOLEAN /\ crashes \in 0..MaxCrashes

\* What the transaction of a run has.
Progress ==
  /\ ~Running => Has(work, Made[work.version])
  /\ Running /\ run.dir = "up" =>
       Has(work, Made[work.version] \union MadeBefore(Script, at))
  /\ Running /\ run.dir = "down" =>
       /\ \A x \in Made[work.version] : RemovedBefore(Script, at, x) \/ x \in Content(work)
       /\ \A x \in Content(work) :
            x \in Made[work.version] \union Extra /\ ~RemovedBefore(Script, at, x)

IInv ==
  /\ Course /\ Sound(db) /\ Sound(work)
  /\ Has(db, Made[db.version]) /\ Progress
  /\ db.rows.user_roles \subseteq work.rows.user_roles
-----------------------------------------------------------------------------
\* What a statement makes of a database.

Database(version, tables, references, keys, rows) ==
  [version |-> version, tables |-> tables, references |-> references,
   keys |-> keys, rows |-> rows]

LEMMA Parts ==
  ASSUME NEW d, Shape(d)
  PROVE  /\ d = Database(d.version, d.tables, d.references, d.keys, d.rows)
         /\ d.version \in 0..Latest /\ d.tables \subseteq Names
         /\ d.rows = [t \in RowTables |-> d.rows[t]]
BY DEF Shape, Database

LEMMA Built ==
  ASSUME NEW version \in 0..Latest, NEW tables \in SUBSET Names, NEW references, NEW keys,
         NEW rows, rows = [t \in RowTables |-> rows[t]]
  PROVE  LET d == Database(version, tables, references, keys, rows)
         IN  /\ Shape(d) /\ d.version = version /\ d.tables = tables
             /\ d.references = references /\ d.keys = keys /\ d.rows = rows
BY DEF Shape, Database

LEMMA AfterCreate ==
  ASSUME NEW d, Shape(d), NEW s, s.do = "create", s.table \in Names
  PROVE  /\ Shape(After(d, s))
         /\ After(d, s).version = d.version
         /\ After(d, s).tables = d.tables \union {s.table}
         /\ After(d, s).references = d.references \union ({s.table} \X s.refs)
         /\ After(d, s).keys = d.keys \union ({s.table} \X s.keys)
         /\ After(d, s).rows = d.rows
<1> DEFINE T == d.tables \union {s.table}
           R == d.references \union ({s.table} \X s.refs)
           K == d.keys \union ({s.table} \X s.keys)
           a == [d EXCEPT !.tables = T]
           b == [a EXCEPT !.references = R]
           c == [b EXCEPT !.keys = K]
<1>1. After(d, s) = c
  BY DEF After
<1> HIDE DEF T, R, K
<1>2. d = Database(d.version, d.tables, d.references, d.keys, d.rows)
  BY Parts
<1>3. a = Database(d.version, T, d.references, d.keys, d.rows)
  BY <1>2 DEF Database
<1> HIDE DEF a
<1>4. b = Database(d.version, T, R, d.keys, d.rows)
  BY <1>3 DEF Database
<1> HIDE DEF b
<1>5. c = Database(d.version, T, R, K, d.rows)
  BY <1>4 DEF Database
<1> HIDE DEF c
<1>6. d.version \in 0..Latest /\ T \in SUBSET Names /\ d.rows = [t \in RowTables |-> d.rows[t]]
  BY Parts DEF T
<1>7. /\ Shape(c) /\ c.version = d.version /\ c.tables = T /\ c.references = R
      /\ c.keys = K /\ c.rows = d.rows
  BY <1>5, <1>6, Built
<1>8. QED  BY <1>1, <1>7 DEF T, R, K

LEMMA AfterDrop ==
  ASSUME NEW d, Shape(d), NEW s, s.do = "drop"
  PROVE  /\ Shape(After(d, s))
         /\ After(d, s).version = d.version
         /\ After(d, s).tables = d.tables \ {s.table}
         /\ After(d, s).references = {f \in d.references : f[1] # s.table}
         /\ After(d, s).keys = {k \in d.keys : k[1] # s.table}
         /\ After(d, s).rows =
              [t \in RowTables |-> IF t = s.table THEN {} ELSE d.rows[t]]
<1> DEFINE T == d.tables \ {s.table}
           R == {f \in d.references : f[1] # s.table}
           K == {k \in d.keys : k[1] # s.table}
           W == [t \in RowTables |-> IF t = s.table THEN {} ELSE d.rows[t]]
           a == [d EXCEPT !.tables = T]
           b == [a EXCEPT !.references = R]
           c == [b EXCEPT !.keys = K]
           e == [c EXCEPT !.rows = W]
<1>1. After(d, s) = e
  BY DEF After
<1>2. W = [t \in RowTables |-> W[t]]
  OBVIOUS
<1>3. d.version \in 0..Latest /\ T \in SUBSET Names
  BY Parts
<1> HIDE DEF T, R, K, W
<1>4. d = Database(d.version, d.tables, d.references, d.keys, d.rows)
  BY Parts
<1>5. a = Database(d.version, T, d.references, d.keys, d.rows)
  BY <1>4 DEF Database
<1> HIDE DEF a
<1>6. b = Database(d.version, T, R, d.keys, d.rows)
  BY <1>5 DEF Database
<1> HIDE DEF b
<1>7. c = Database(d.version, T, R, K, d.rows)
  BY <1>6 DEF Database
<1> HIDE DEF c
<1>8. e = Database(d.version, T, R, K, W)
  BY <1>7 DEF Database
<1> HIDE DEF e
<1>9. /\ Shape(e) /\ e.version = d.version /\ e.tables = T /\ e.references = R
      /\ e.keys = K /\ e.rows = W
  BY <1>2, <1>3, <1>8, Built
<1>10. QED  BY <1>1, <1>9 DEF T, R, K, W

LEMMA AfterReference ==
  ASSUME NEW d, Shape(d), NEW s, s.do \in {"addReference", "dropReference"}
  PROVE  /\ Shape(After(d, s))
         /\ After(d, s).version = d.version
         /\ After(d, s).tables = d.tables
         /\ s.do = "addReference" =>
              After(d, s).references = d.references \union {<<s.table, s.ref>>}
         /\ s.do = "dropReference" =>
              After(d, s).references = d.references \ {<<s.table, s.ref>>}
         /\ After(d, s).keys = d.keys
         /\ After(d, s).rows = d.rows
<1> DEFINE R == IF s.do = "addReference" THEN d.references \union {<<s.table, s.ref>>}
                                         ELSE d.references \ {<<s.table, s.ref>>}
           e == [d EXCEPT !.references = R]
<1>1. After(d, s) = e
  BY DEF After
<1> HIDE DEF R
<1>2. d = Database(d.version, d.tables, d.references, d.keys, d.rows)
  BY Parts
<1>3. e = Database(d.version, d.tables, R, d.keys, d.rows)
  BY <1>2 DEF Database
<1> HIDE DEF e
<1>4. /\ Shape(e) /\ e.version = d.version /\ e.tables = d.tables /\ e.references = R
      /\ e.keys = d.keys /\ e.rows = d.rows
  <2>1. /\ d.version \in 0..Latest /\ d.tables \in SUBSET Names
        /\ d.rows = [t \in RowTables |-> d.rows[t]]
    BY Parts
  <2>2. QED  BY <1>3, <2>1, Built
<1>5. QED  BY <1>1, <1>4 DEF R

LEMMA AfterRows ==
  ASSUME NEW d, Shape(d), NEW s, s.do \in {"insert", "insertMissing", "delete", "lookUp"}
  PROVE  /\ Shape(After(d, s))
         /\ After(d, s).version = d.version
         /\ After(d, s).tables = d.tables
         /\ After(d, s).references = d.references
         /\ After(d, s).keys = d.keys
         /\ After(d, s).rows =
              [t \in RowTables |->
                 IF t # s.table \/ s.do = "lookUp" THEN d.rows[t]
                 ELSE IF s.do = "delete" THEN d.rows[t] \ s.rows
                 ELSE d.rows[t] \union s.rows]
<1> DEFINE W == [t \in RowTables |->
                   IF t # s.table \/ s.do = "lookUp" THEN d.rows[t]
                   ELSE IF s.do = "delete" THEN d.rows[t] \ s.rows
                   ELSE d.rows[t] \union s.rows]
           X == IF s.do = "delete" THEN d.rows[s.table] \ s.rows
                                   ELSE d.rows[s.table] \union s.rows
           V == [d.rows EXCEPT ![s.table] = X]
           e == [d EXCEPT !.rows = V]
<1>1. d = Database(d.version, d.tables, d.references, d.keys, d.rows)
      /\ d.rows = [t \in RowTables |-> d.rows[t]]
  BY Parts
<1>2. W = [t \in RowTables |-> W[t]]
  OBVIOUS
<1>3. After(d, s) = Database(d.version, d.tables, d.references, d.keys, W)
  <2>1. CASE s.do = "lookUp"
    <3>1. After(d, s) = d
      BY <2>1 DEF After
    <3>2. W = d.rows
      BY <1>1, <2>1
    <3>3. QED  BY <1>1, <3>1, <3>2
  <2>2. CASE s.do # "lookUp"
    <3>1. After(d, s) = e
      BY <2>2 DEF After
    <3>2. V = W
      <4> HIDE DEF X, W
      <4>1. V = [t \in RowTables |-> IF t = s.table THEN X ELSE d.rows[t]]
        BY <1>1
      <4>2. QED  BY <2>2, <4>1 DEF X, W
    <3> HIDE DEF V, W
    <3>3. e = Database(d.version, d.tables, d.references, d.keys, W)
      BY <1>1, <3>2 DEF Database
    <3>4. QED  BY <3>1, <3>3
  <2>3. QED  BY <2>1, <2>2
<1> HIDE DEF W, e
<1> DEFINE f == Database(d.version, d.tables, d.references, d.keys, W)
<1>4. /\ Shape(f) /\ f.version = d.version /\ f.tables = d.tables
      /\ f.references = d.references /\ f.keys = d.keys /\ f.rows = W
  <2>1. d.version \in 0..Latest /\ d.tables \in SUBSET Names
    BY Parts
  <2>2. QED  BY <1>2, <2>1, Built
<1> HIDE DEF f
<1>5. After(d, s) = f
  BY <1>3 DEF f
<1>6. QED  BY <1>4, <1>5 DEF W
-----------------------------------------------------------------------------
\* An upgrade's statements add what they make, a downgrade's take away.

Adding == {"create", "addReference", "insert", "insertMissing", "lookUp"}
Removing == {"drop", "dropReference", "delete"}

LEMMA TaggedUnion ==
  ASSUME NEW tag, NEW A, NEW B
  PROVE  Tagged(tag, A \union B) = Tagged(tag, A) \union Tagged(tag, B)
BY DEF Tagged

\* Without what is of a table, and without some of it.
PairsBut(A, t) == {f \in A : f[1] # t}
PairsLess(A, t, R) == {f \in A : ~(f[1] = t /\ f[2] \in R)}
But(X, t) == {x \in X : x[2] # t}
Less(X, t, R) == {x \in X : ~(x[2] = t /\ x[3] \in R)}

LEMMA TaggedBut ==
  ASSUME NEW tag, NEW A, NEW t
  PROVE  Tagged(tag, PairsBut(A, t)) = But(Tagged(tag, A), t)
<1> DEFINE B == PairsBut(A, t)
<1>1. \A x \in Tagged(tag, B) : x \in Tagged(tag, A) /\ x[2] # t
  BY DEF Tagged, PairsBut
<1>2. ASSUME NEW x \in Tagged(tag, A), x[2] # t
      PROVE  x \in Tagged(tag, B)
  <2>1. PICK f \in A : x = <<tag, f[1], f[2]>>
    BY DEF Tagged
  <2>2. f[1] # t
    BY <1>2, <2>1
  <2>3. QED  BY <2>1, <2>2 DEF Tagged, PairsBut
<1>3. QED  BY <1>1, <1>2 DEF But

LEMMA TaggedLess ==
  ASSUME NEW tag, NEW A, NEW t, NEW R
  PROVE  Tagged(tag, PairsLess(A, t, R)) = Less(Tagged(tag, A), t, R)
<1> DEFINE B == PairsLess(A, t, R)
<1>1. \A x \in Tagged(tag, B) : x \in Tagged(tag, A) /\ ~(x[2] = t /\ x[3] \in R)
  BY DEF Tagged, PairsLess
<1>2. ASSUME NEW x \in Tagged(tag, A), ~(x[2] = t /\ x[3] \in R)
      PROVE  x \in Tagged(tag, B)
  <2>1. PICK f \in A : x = <<tag, f[1], f[2]>>
    BY DEF Tagged
  <2>2. f \in B
    BY <1>2, <2>1 DEF PairsLess
  <2>3. QED  BY <2>1, <2>2 DEF Tagged
<1>3. QED  BY <1>1, <1>2 DEF Less

LEMMA TagOf ==
  ASSUME NEW tag, NEW A, NEW x \in Tagged(tag, A)
  PROVE  x[1] = tag
BY DEF Tagged

\* The parts of a database that scripts fill.
Same(d) == {<<t, t>> : t \in d.tables}
Seeds(d) == UNION { {t} \X d.rows[t] : t \in SeededTables }

LEMMA ContentParts ==
  ASSUME NEW d
  PROVE  Content(d) = Tagged("table", Same(d)) \union Tagged("reference", d.references)
                        \union Tagged("key", d.keys) \union Tagged("row", Seeds(d))
BY DEF Content, Same, Seeds

LEMMA ContentGrows ==
  ASSUME NEW d, Shape(d), NEW s, s.do \in Adding,
         s.do = "create" => s.table \in Names,
         s.do \in {"insert", "insertMissing"} => s.table \in SeededTables
  PROVE  /\ Content(After(d, s)) = Content(d) \union Makes(s)
         /\ Shape(After(d, s)) /\ After(d, s).version = d.version
<1> DEFINE e == After(d, s)
<1> HIDE DEF e
<1>c. /\ Content(e) = Tagged("table", Same(e)) \union Tagged("reference", e.references)
                        \union Tagged("key", e.keys) \union Tagged("row", Seeds(e))
      /\ Content(d) = Tagged("table", Same(d)) \union Tagged("reference", d.references)
                        \union Tagged("key", d.keys) \union Tagged("row", Seeds(d))
  BY ContentParts
<1>1. CASE s.do = "create"
  <2>1. /\ Shape(e) /\ e.version = d.version
        /\ e.tables = d.tables \union {s.table}
        /\ e.references = d.references \union ({s.table} \X s.refs)
        /\ e.keys = d.keys \union ({s.table} \X s.keys)
        /\ e.rows = d.rows
    BY <1>1, AfterCreate DEF e
  <2>2. Makes(s) = Tagged("table", {<<s.table, s.table>>})
                     \union Tagged("reference", {s.table} \X s.refs)
                     \union Tagged("key", {s.table} \X s.keys)
    BY <1>1 DEF Makes
  <2>3. Same(e) = Same(d) \union {<<s.table, s.table>>} /\ Seeds(e) = Seeds(d)
    BY <2>1 DEF Same, Seeds
  <2>4. /\ Tagged("table", Same(e))
             = Tagged("table", Same(d)) \union Tagged("table", {<<s.table, s.table>>})
        /\ Tagged("reference", e.references)
             = Tagged("reference", d.references) \union Tagged("reference", {s.table} \X s.refs)
        /\ Tagged("key", e.keys) = Tagged("key", d.keys) \union Tagged("key", {s.table} \X s.keys)
    BY <2>1, <2>3, TaggedUnion
  <2>5. QED  BY <1>c, <2>1, <2>2, <2>3, <2>4 DEF e
<1>2. CASE s.do = "addReference"
  <2>1. /\ Shape(e) /\ e.version = d.version /\ e.tables = d.tables
        /\ e.references = d.references \union {<<s.table, s.ref>>}
        /\ e.keys = d.keys /\ e.rows = d.rows
    <3>1. s.do \in {"addReference", "dropReference"}
      BY <1>2
    <3>2. QED  BY <1>2, <3>1, AfterReference DEF e
  <2>2. Makes(s) = Tagged("reference", {<<s.table, s.ref>>})
    BY <1>2 DEF Makes
  <2>3. Same(e) = Same(d) /\ Seeds(e) = Seeds(d)
    BY <2>1 DEF Same, Seeds
  <2>4. QED  BY <1>c, <2>1, <2>2, <2>3, TaggedUnion DEF e
<1>3. CASE s.do \in {"insert", "insertMissing"}
  <2>1. /\ Shape(e) /\ e.version = d.version /\ e.tables = d.tables
        /\ e.references = d.references /\ e.keys = d.keys
        /\ e.rows = [t \in RowTables |->
                      IF t # s.table THEN d.rows[t] ELSE d.rows[t] \union s.rows]
    BY <1>3, AfterRows DEF e
  <2>2. Makes(s) = Tagged("row", {s.table} \X s.rows)
    BY <1>3 DEF Makes
  <2>3. s.table \in SeededTables /\ SeededTables \subseteq RowTables
    BY <1>3 DEF SeededTables, RowTables
  <2>4. \A t \in SeededTables :
          e.rows[t] = IF t = s.table THEN d.rows[t] \union s.rows ELSE d.rows[t]
    BY <2>1, <2>3
  <2>5. Seeds(e) = Seeds(d) \union ({s.table} \X s.rows) /\ Same(e) = Same(d)
    <3>1. ASSUME NEW f
          PROVE  f \in Seeds(e) <=> f \in Seeds(d) \/ f \in {s.table} \X s.rows
      <4>1. f \in Seeds(e) <=> \E t \in SeededTables : f \in {t} \X e.rows[t]
        BY DEF Seeds
      <4>2. f \in Seeds(d) <=> \E t \in SeededTables : f \in {t} \X d.rows[t]
        BY DEF Seeds
      <4>3. \A t \in SeededTables :
              f \in {t} \X e.rows[t] <=>
                f \in {t} \X d.rows[t] \/ (t = s.table /\ f \in {s.table} \X s.rows)
        BY <2>4
      <4>4. QED  BY <2>3, <4>1, <4>2, <4>3
    <3>2. QED  BY <2>1, <3>1 DEF Same
  <2>6. QED  BY <1>c, <2>1, <2>2, <2>5, TaggedUnion DEF e
<1>4. CASE s.do = "lookUp"
  <2>1. e = d
    BY <1>4 DEF After, e
  <2>2. Makes(s) = {}
    BY <1>4 DEF Makes
  <2>3. QED  BY <2>1, <2>2 DEF e
<1>5. QED  BY <1>1, <1>2, <1>3, <1>4 DEF Adding

LEMMA ContentShrinks ==
  ASSUME NEW d, Shape(d), \A f \in d.references : f = <<f[1], f[2]>>,
         NEW s, s.do \in Removing
  PROVE  /\ Content(After(d, s)) = {x \in Content(d) : ~Removes(s, x)}
         /\ Shape(After(d, s)) /\ After(d, s).version = d.version
<1> DEFINE e == After(d, s)
<1> HIDE DEF e
<1>c. /\ Content(e) = Tagged("table", Same(e)) \union Tagged("reference", e.references)
                        \union Tagged("key", e.keys) \union Tagged("row", Seeds(e))
      /\ Content(d) = Tagged("table", Same(d)) \union Tagged("reference", d.references)
                        \union Tagged("key", d.keys) \union Tagged("row", Seeds(d))
  BY ContentParts
<1>t. /\ \A x \in Tagged("table", Same(d)) : x[1] = "table"
      /\ \A x \in Tagged("reference", d.references) : x[1] = "reference"
      /\ \A x \in Tagged("key", d.keys) : x[1] = "key"
      /\ \A x \in Tagged("row", Seeds(d)) : x[1] = "row"
  BY TagOf
<1>s. SeededTables \subseteq RowTables
  BY DEF SeededTables, RowTables
<1>2. CASE s.do = "drop"
  <2>1. /\ Shape(e) /\ e.version = d.version /\ e.tables = d.tables \ {s.table}
        /\ e.references = PairsBut(d.references, s.table)
        /\ e.keys = PairsBut(d.keys, s.table)
        /\ e.rows = [t \in RowTables |-> IF t = s.table THEN {} ELSE d.rows[t]]
    BY <1>2, AfterDrop DEF e, PairsBut
  <2>2. \A X : {x \in X : ~Removes(s, x)} = But(X, s.table)
    BY <1>2 DEF Removes, But
  <2>3. Same(e) = PairsBut(Same(d), s.table)
    BY <2>1 DEF Same, PairsBut
  <2>4. Seeds(e) = PairsBut(Seeds(d), s.table)
    <3>1. \A t \in SeededTables : e.rows[t] = IF t = s.table THEN {} ELSE d.rows[t]
      BY <1>s, <2>1
    <3>2. ASSUME NEW f
          PROVE  f \in Seeds(e) <=> f \in Seeds(d) /\ f[1] # s.table
      <4>1. f \in Seeds(e) <=> \E t \in SeededTables : f \in {t} \X e.rows[t]
        BY DEF Seeds
      <4>2. f \in Seeds(d) <=> \E t \in SeededTables : f \in {t} \X d.rows[t]
        BY DEF Seeds
      <4>3. \A t \in SeededTables :
              f \in {t} \X e.rows[t] <=> f \in {t} \X d.rows[t] /\ f[1] # s.table
        BY <3>1
      <4>4. QED  BY <4>1, <4>2, <4>3
    <3>3. QED  BY <3>2 DEF PairsBut
  <2>5. /\ Tagged("table", Same(e)) = But(Tagged("table", Same(d)), s.table)
        /\ Tagged("reference", e.references) = But(Tagged("reference", d.references), s.table)
        /\ Tagged("key", e.keys) = But(Tagged("key", d.keys), s.table)
        /\ Tagged("row", Seeds(e)) = But(Tagged("row", Seeds(d)), s.table)
    BY <2>1, <2>3, <2>4, TaggedBut
  <2>6. Content(e) = But(Content(d), s.table)
    BY <1>c, <2>5 DEF But
  <2>7. QED  BY <2>1, <2>2, <2>6 DEF e
<1>3. CASE s.do = "dropReference"
  <2>1. /\ Shape(e) /\ e.version = d.version /\ e.tables = d.tables
        /\ e.references = PairsLess(d.references, s.table, {s.ref})
        /\ e.keys = d.keys /\ e.rows = d.rows
    <3>1. /\ Shape(e) /\ e.version = d.version /\ e.tables = d.tables
          /\ e.references = d.references \ {<<s.table, s.ref>>}
          /\ e.keys = d.keys /\ e.rows = d.rows
      <4>1. s.do \in {"addReference", "dropReference"}
        BY <1>3
      <4>2. QED  BY <1>3, <4>1, AfterReference DEF e
    <3>2. \A f \in d.references : f = <<s.table, s.ref>> <=> f[1] = s.table /\ f[2] \in {s.ref}
      OBVIOUS
    <3>3. QED  BY <3>1, <3>2 DEF PairsLess
  <2>2. \A x : Removes(s, x) <=> x[1] = "reference" /\ x[2] = s.table /\ x[3] \in {s.ref}
    BY <1>3 DEF Removes
  <2>3. Same(e) = Same(d) /\ Seeds(e) = Seeds(d)
    BY <2>1 DEF Same, Seeds
  <2>4. Tagged("reference", e.references)
          = Less(Tagged("reference", d.references), s.table, {s.ref})
    BY <2>1, TaggedLess
  <2>5. \A x : x \in Content(e) <=> x \in Content(d) /\ ~Removes(s, x)
    BY <1>c, <1>t, <2>1, <2>2, <2>3, <2>4 DEF Less
  <2>6. QED  BY <2>1, <2>5 DEF e
<1>4. CASE s.do = "delete"
  <2>1. /\ Shape(e) /\ e.version = d.version /\ e.tables = d.tables
        /\ e.references = d.references /\ e.keys = d.keys
        /\ e.rows = [t \in RowTables |-> IF t # s.table THEN d.rows[t] ELSE d.rows[t] \ s.rows]
    BY <1>4, AfterRows DEF e
  <2>2. \A x : Removes(s, x) <=> x[1] = "row" /\ x[2] = s.table /\ x[3] \in s.rows
    BY <1>4 DEF Removes
  <2>3. Seeds(e) = PairsLess(Seeds(d), s.table, s.rows) /\ Same(e) = Same(d)
    <3>1. \A t \in SeededTables :
            e.rows[t] = IF t = s.table THEN d.rows[t] \ s.rows ELSE d.rows[t]
      BY <1>s, <2>1
    <3>2. ASSUME NEW f
          PROVE  f \in Seeds(e) <=> f \in Seeds(d) /\ ~(f[1] = s.table /\ f[2] \in s.rows)
      <4>1. f \in Seeds(e) <=> \E t \in SeededTables : f \in {t} \X e.rows[t]
        BY DEF Seeds
      <4>2. f \in Seeds(d) <=> \E t \in SeededTables : f \in {t} \X d.rows[t]
        BY DEF Seeds
      <4>3. \A t \in SeededTables :
              f \in {t} \X e.rows[t] <=>
                f \in {t} \X d.rows[t] /\ ~(f[1] = s.table /\ f[2] \in s.rows)
        BY <3>1
      <4>4. QED  BY <4>1, <4>2, <4>3
    <3>3. QED  BY <2>1, <3>2 DEF Same, PairsLess
  <2>4. Tagged("row", Seeds(e)) = Less(Tagged("row", Seeds(d)), s.table, s.rows)
    BY <2>3, TaggedLess
  <2>5. \A x : x \in Content(e) <=> x \in Content(d) /\ ~Removes(s, x)
    BY <1>c, <1>t, <2>1, <2>2, <2>3, <2>4 DEF Less
  <2>6. QED  BY <2>1, <2>5 DEF e
<1>5. QED  BY <1>2, <1>3, <1>4 DEF Removing
-----------------------------------------------------------------------------
\* What the scripts consist of.

IsScript(script) == script \in Seq(ToSet(script))

LEMMA Tuple1 ==
  ASSUME NEW a
  PROVE  /\ IsScript(<<a>>) /\ Len(<<a>>) = 1
         /\ ToSet(<<a>>) = {a}
BY DEF IsScript, ToSet

LEMMA Tuple2 ==
  ASSUME NEW a, NEW b
  PROVE  /\ IsScript(<<a, b>>) /\ Len(<<a, b>>) = 2
         /\ ToSet(<<a, b>>) = {a, b}
BY DEF IsScript, ToSet

LEMMA Tuple3 ==
  ASSUME NEW a, NEW b, NEW c
  PROVE  /\ IsScript(<<a, b, c>>) /\ Len(<<a, b, c>>) = 3
         /\ ToSet(<<a, b, c>>) = {a, b, c}
BY DEF IsScript, ToSet

LEMMA Tuple4 ==
  ASSUME NEW a, NEW b, NEW c, NEW d
  PROVE  /\ IsScript(<<a, b, c, d>>) /\ Len(<<a, b, c, d>>) = 4
         /\ ToSet(<<a, b, c, d>>) = {a, b, c, d}
BY DEF IsScript, ToSet

LEMMA Tuple5 ==
  ASSUME NEW a, NEW b, NEW c, NEW d, NEW e
  PROVE  /\ IsScript(<<a, b, c, d, e>>) /\ Len(<<a, b, c, d, e>>) = 5
         /\ ToSet(<<a, b, c, d, e>>) = {a, b, c, d, e}
BY DEF IsScript, ToSet

LEMMA Tuple7 ==
  ASSUME NEW a, NEW b, NEW c, NEW d, NEW e, NEW f, NEW g
  PROVE  /\ IsScript(<<a, b, c, d, e, f, g>>) /\ Len(<<a, b, c, d, e, f, g>>) = 7
         /\ ToSet(<<a, b, c, d, e, f, g>>) = {a, b, c, d, e, f, g}
BY DEF IsScript, ToSet

LEMMA Tuple12 ==
  ASSUME NEW a, NEW b, NEW c, NEW d, NEW e, NEW f, NEW g, NEW h, NEW i, NEW j, NEW k, NEW l
  PROVE  /\ IsScript(<<a, b, c, d, e, f, g, h, i, j, k, l>>)
         /\ Len(<<a, b, c, d, e, f, g, h, i, j, k, l>>) = 12
         /\ ToSet(<<a, b, c, d, e, f, g, h, i, j, k, l>>) = {a, b, c, d, e, f, g, h, i, j, k, l}
BY DEF IsScript, ToSet

LEMMA Concatenation ==
  ASSUME NEW s, NEW t, IsScript(s), IsScript(t)
  PROVE  /\ IsScript(s \o t) /\ Len(s \o t) = Len(s) + Len(t)
         /\ ToSet(s \o t) = ToSet(s) \union ToSet(t)
<1> DEFINE S == ToSet(s) \union ToSet(t)
<1>0. ToSet(s) \subseteq S /\ ToSet(t) \subseteq S
  OBVIOUS
<1> HIDE DEF S
<1>1. s \in Seq(S) /\ t \in Seq(S)
  BY <1>0 DEF IsScript
<1>2. /\ s \o t \in Seq(S) /\ Len(s \o t) = Len(s) + Len(t)
      /\ \A i \in 1..Len(s) : (s \o t)[i] = s[i]
      /\ \A i \in 1..Len(t) : (s \o t)[Len(s) + i] = t[i]
      /\ Len(s) \in Nat /\ Len(t) \in Nat
      /\ DOMAIN s = 1..Len(s) /\ DOMAIN t = 1..Len(t) /\ DOMAIN (s \o t) = 1..Len(s \o t)
  BY <1>1
<1>3. ASSUME NEW x \in ToSet(s \o t)
      PROVE  x \in ToSet(s) \/ x \in ToSet(t)
  <2>1. PICK i \in 1..(Len(s) + Len(t)) : x = (s \o t)[i]
    BY <1>2 DEF ToSet
  <2>2. CASE i <= Len(s)
    BY <1>2, <2>1, <2>2 DEF ToSet
  <2>3. CASE i > Len(s)
    <3>1. i - Len(s) \in 1..Len(t) /\ i = Len(s) + (i - Len(s))
      BY <1>2, <2>1, <2>3
    <3>2. x = t[i - Len(s)]
      BY <1>2, <2>1, <3>1
    <3>3. QED  BY <1>2, <3>1, <3>2 DEF ToSet
  <2>4. QED  BY <1>2, <2>1, <2>2, <2>3
<1>4. ASSUME NEW x \in ToSet(s)
      PROVE  x \in ToSet(s \o t)
  <2>1. PICK i \in 1..Len(s) : x = s[i]
    BY <1>2 DEF ToSet
  <2>2. i \in DOMAIN (s \o t) /\ x = (s \o t)[i]
    BY <1>2, <2>1
  <2>3. QED  BY <2>2 DEF ToSet
<1>5. ASSUME NEW x \in ToSet(t)
      PROVE  x \in ToSet(s \o t)
  <2>1. PICK i \in 1..Len(t) : x = t[i]
    BY <1>2 DEF ToSet
  <2>2. Len(s) + i \in DOMAIN (s \o t) /\ x = (s \o t)[Len(s) + i]
    BY <1>2, <2>1
  <2>3. QED  BY <2>2 DEF ToSet
<1>6. ToSet(s \o t) = ToSet(s) \union ToSet(t)
  BY <1>3, <1>4, <1>5
<1>7. QED  BY <1>2, <1>6 DEF IsScript, S

LEMMA Dropping ==
  ASSUME NEW tables, IsScript(tables)
  PROVE  /\ IsScript(DropAll(tables)) /\ Len(DropAll(tables)) = Len(tables)
         /\ ToSet(DropAll(tables)) = {Drop(t) : t \in ToSet(tables)}
<1> DEFINE s == DropAll(tables)
<1>1. DOMAIN tables = 1..Len(tables) /\ Len(tables) \in Nat
  BY DEF IsScript
<1>2. s = [i \in 1..Len(tables) |-> Drop(tables[i])]
  BY <1>1 DEF DropAll
<1>3. ToSet(s) = {Drop(t) : t \in ToSet(tables)}
  BY <1>1, <1>2 DEF ToSet
<1>4. \A i \in 1..Len(tables) : s[i] \in ToSet(s)
  BY <1>2 DEF ToSet
<1> HIDE DEF s
<1>5. s \in [1..Len(tables) -> ToSet(s)]
  BY <1>2, <1>4
<1>6. Len(s) = Len(tables) /\ s \in Seq(ToSet(s))
  BY <1>1, <1>5
<1>7. QED  BY <1>3, <1>6 DEF IsScript, s

LEMMA Chain ==
  /\ Latest = 7
  /\ Revisions[1].up = OrganizationTables \o UserTables \o LinkTables \o BackReferences
  /\ Revisions[2].up = RolesSeed /\ Revisions[3].up = CatalogueTables
  /\ Revisions[4].up = UnitsSeed /\ Revisions[5].up = CatalogueSeed
  /\ Revisions[6].up = InventoryTables /\ Revisions[7].up = InventorySeed
  /\ Revisions[1].down = FoundationDrops
  /\ Revisions[2].down = RolesUnseed /\ Revisions[3].down = CatalogueDrops
  /\ Revisions[4].down = UnitsUnseed /\ Revisions[5].down = CatalogueUnseed
  /\ Revisions[6].down = InventoryDrops /\ Revisions[7].down = InventoryUnseed
<1> HIDE DEF OrganizationTables, UserTables, LinkTables, BackReferences, RolesSeed
<1>1. QED  BY DEF Latest, Revisions

FoundationStatements ==
  { Create("companies", {}, {}),
    Create("permissions", {}, {"code"}),
    Create("branches", {"companies"}, {}),
    Create("roles", {"companies"}, {"company_id, name"}),
    Create("users", {"companies"}, {"email"}),
    Create("audit_logs", {"companies", "users"}, {}),
    Create("password_reset_tokens", {"users"}, {"token_hash"}),
    Create("refresh_tokens", {"users"}, {"token_hash"}),
    Create("role_permissions", {"permissions", "roles"}, {"role_id, permission_id"}),
    Create("user_branches", {"branches", "users"}, {"user_id, branch_id"}),
    Create("user_roles", {"roles", "users"}, {"user_id, role_id"}),
    Create("warehouses", {"branches", "companies"}, {}),
    AddReference("branches", "warehouses"),
    AddReference("branches", "users"),
    AddReference("users", "branches"),
    AddReference("refresh_tokens", "refresh_tokens") }

FoundationTables ==
  {"companies", "permissions", "branches", "roles", "users", "audit_logs",
   "password_reset_tokens", "refresh_tokens", "role_permissions", "user_branches",
   "user_roles", "warehouses"}

FoundationReferences ==
  { DropReference("refresh_tokens", "refresh_tokens"),
    DropReference("users", "branches"),
    DropReference("branches", "users"),
    DropReference("branches", "warehouses") }

LEMMA Foundation ==
  /\ IsScript(Revisions[1].up) /\ Len(Revisions[1].up) = 16
  /\ ToSet(Revisions[1].up) = FoundationStatements
  /\ IsScript(FoundationDrops) /\ Len(FoundationDrops) = 16
  /\ ToSet(FoundationDrops) = FoundationReferences \union {Drop(t) : t \in FoundationTables}
<1>1. /\ IsScript(OrganizationTables) /\ Len(OrganizationTables) = 3
      /\ ToSet(OrganizationTables) =
           { Create("companies", {}, {}),
             Create("permissions", {}, {"code"}),
             Create("branches", {"companies"}, {}) }
  BY Tuple3, Zenon DEF OrganizationTables
<1>2. /\ IsScript(UserTables) /\ Len(UserTables) = 4
      /\ ToSet(UserTables) =
           { Create("roles", {"companies"}, {"company_id, name"}),
             Create("users", {"companies"}, {"email"}),
             Create("audit_logs", {"companies", "users"}, {}),
             Create("password_reset_tokens", {"users"}, {"token_hash"}) }
  BY Tuple4, Zenon DEF UserTables
<1>3. /\ IsScript(LinkTables) /\ Len(LinkTables) = 5
      /\ ToSet(LinkTables) =
           { Create("refresh_tokens", {"users"}, {"token_hash"}),
             Create("role_permissions", {"permissions", "roles"}, {"role_id, permission_id"}),
             Create("user_branches", {"branches", "users"}, {"user_id, branch_id"}),
             Create("user_roles", {"roles", "users"}, {"user_id, role_id"}),
             Create("warehouses", {"branches", "companies"}, {}) }
  <2> DEFINE a == Create("refresh_tokens", {"users"}, {"token_hash"})
             b == Create("role_permissions", {"permissions", "roles"},
                         {"role_id, permission_id"})
             c == Create("user_branches", {"branches", "users"}, {"user_id, branch_id"})
             d == Create("user_roles", {"roles", "users"}, {"user_id, role_id"})
             e == Create("warehouses", {"branches", "companies"}, {})
  <2>1. LinkTables = <<a, b, c, d, e>>
    BY DEF LinkTables
  <2> HIDE DEF a, b, c, d, e
  <2>2. IsScript(LinkTables) /\ Len(LinkTables) = 5 /\ ToSet(LinkTables) = {a, b, c, d, e}
    BY <2>1, Tuple5
  <2>3. QED  BY <2>2 DEF a, b, c, d, e
<1>4. /\ IsScript(BackReferences) /\ Len(BackReferences) = 4
      /\ ToSet(BackReferences) =
           { AddReference("branches", "warehouses"),
             AddReference("branches", "users"),
             AddReference("users", "branches"),
             AddReference("refresh_tokens", "refresh_tokens") }
  BY Tuple4, Zenon DEF BackReferences
<1>5. /\ IsScript(DropBackReferences) /\ Len(DropBackReferences) = 4
      /\ ToSet(DropBackReferences) = FoundationReferences
  BY Tuple4, Zenon DEF DropBackReferences, FoundationReferences
<1> DEFINE dropped ==
      << "warehouses", "user_roles", "user_branches", "role_permissions",
         "refresh_tokens", "password_reset_tokens", "audit_logs", "users",
         "roles", "branches", "permissions", "companies" >>
<1>6. IsScript(dropped) /\ Len(dropped) = 12 /\ ToSet(dropped) = FoundationTables
  <2>1. /\ IsScript(dropped) /\ Len(dropped) = 12
        /\ ToSet(dropped) =
             {"warehouses", "user_roles", "user_branches", "role_permissions",
              "refresh_tokens", "password_reset_tokens", "audit_logs", "users",
              "roles", "branches", "permissions", "companies"}
    BY Tuple12
  <2>2. QED  BY <2>1 DEF FoundationTables
<1> HIDE DEF dropped
<1>7. FoundationDrops = DropBackReferences \o DropAll(dropped)
  BY DEF FoundationDrops, dropped
<1> DEFINE tables == OrganizationTables \o UserTables
           linked == tables \o LinkTables
<1>8. /\ IsScript(tables) /\ Len(tables) = Len(OrganizationTables) + Len(UserTables)
      /\ ToSet(tables) = ToSet(OrganizationTables) \union ToSet(UserTables)
  BY <1>1, <1>2, Concatenation, Zenon
<1> HIDE DEF tables
<1>9. /\ IsScript(linked) /\ Len(linked) = Len(tables) + Len(LinkTables)
      /\ ToSet(linked) = ToSet(tables) \union ToSet(LinkTables)
  BY <1>3, <1>8, Concatenation, Zenon
<1>10. Revisions[1].up = linked \o BackReferences
  BY Chain DEF tables
<1> HIDE DEF linked
<1>11. /\ IsScript(Revisions[1].up) /\ Len(Revisions[1].up) = Len(linked) + Len(BackReferences)
       /\ ToSet(Revisions[1].up) = ToSet(linked) \union ToSet(BackReferences)
  BY <1>4, <1>9, <1>10, Concatenation, Zenon
<1>12. ToSet(Revisions[1].up) = FoundationStatements
  BY <1>1, <1>2, <1>3, <1>4, <1>8, <1>9, <1>11 DEF FoundationStatements
<1>13. Len(Revisions[1].up) = 16
  <2>1. /\ Len(OrganizationTables) = 3 /\ Len(UserTables) = 4 /\ Len(LinkTables) = 5
        /\ Len(BackReferences) = 4
    BY <1>1, <1>2, <1>3, <1>4, Zenon
  <2>2. /\ Len(tables) = Len(OrganizationTables) + Len(UserTables)
        /\ Len(linked) = Len(tables) + Len(LinkTables)
        /\ Len(Revisions[1].up) = Len(linked) + Len(BackReferences)
    BY <1>8, <1>9, <1>11, Zenon
  <2>3. QED  BY <2>1, <2>2
<1>14. /\ IsScript(DropAll(dropped)) /\ Len(DropAll(dropped)) = Len(dropped)
       /\ ToSet(DropAll(dropped)) = {Drop(t) : t \in ToSet(dropped)}
  BY <1>6, Dropping, Zenon
<1> DEFINE last == DropAll(dropped)
<1> HIDE DEF last
<1>15. /\ IsScript(FoundationDrops)
       /\ Len(FoundationDrops) = Len(DropBackReferences) + Len(last)
       /\ ToSet(FoundationDrops) = ToSet(DropBackReferences) \union ToSet(last)
  BY <1>5, <1>7, <1>14, Concatenation, Zenon DEF last
<1>16. Len(last) = 12 /\ ToSet(last) = {Drop(t) : t \in FoundationTables}
  BY <1>6, <1>14 DEF last
<1>17. ToSet(FoundationDrops) = FoundationReferences \union {Drop(t) : t \in FoundationTables}
  BY <1>5, <1>15, <1>16
<1>18. Len(FoundationDrops) = 16
  BY <1>5, <1>15, <1>16
<1>19. QED  BY <1>11, <1>12, <1>13, <1>15, <1>17, <1>18

LEMMA Seeding ==
  /\ \A v \in {2, 5, 7} : IsScript(Revisions[v].up) /\ Len(Revisions[v].up) = 3
  /\ IsScript(Revisions[4].up) /\ Len(Revisions[4].up) = 1
  /\ ToSet(Revisions[2].up) = { Insert("permissions", {"identity"}), Insert("roles", AllRoles),
                                Insert("role_permissions", DefaultGrants) }
  /\ ToSet(Revisions[4].up) = { Insert("units", {"default"}) }
  /\ ToSet(Revisions[5].up) = { Insert("permissions", {"catalogue"}), LookUp("roles", AllRoles),
                                Insert("role_permissions", CatalogueGrants) }
  /\ ToSet(Revisions[7].up) = { InsertMissing("permissions", {"inventory"}),
                                LookUp("roles", {SuperAdmin, "Admin", "Manager"}),
                                InsertMissing("role_permissions", InventoryGrants) }
<1>1. /\ IsScript(RolesSeed) /\ Len(RolesSeed) = 3
      /\ ToSet(RolesSeed) = { Insert("permissions", {"identity"}), Insert("roles", AllRoles),
                              Insert("role_permissions", DefaultGrants) }
  BY Tuple3, Zenon DEF RolesSeed
<1>2. /\ IsScript(UnitsSeed) /\ Len(UnitsSeed) = 1
      /\ ToSet(UnitsSeed) = { Insert("units", {"default"}) }
  BY Tuple1, Zenon DEF UnitsSeed
<1>3. /\ IsScript(CatalogueSeed) /\ Len(CatalogueSeed) = 3
      /\ ToSet(CatalogueSeed) = { Insert("permissions", {"catalogue"}), LookUp("roles", AllRoles),
                                  Insert("role_permissions", CatalogueGrants) }
  BY Tuple3, Zenon DEF CatalogueSeed
<1>4. /\ IsScript(InventorySeed) /\ Len(InventorySeed) = 3
      /\ ToSet(InventorySeed) = { InsertMissing("permissions", {"inventory"}),
                                  LookUp("roles", {SuperAdmin, "Admin", "Manager"}),
                                  InsertMissing("role_permissions", InventoryGrants) }
  BY Tuple3, Zenon DEF InventorySeed
<1>5. QED  BY <1>1, <1>2, <1>3, <1>4, Chain

LEMMA Unseeding ==
  /\ IsScript(Revisions[2].down) /\ Len(Revisions[2].down) = 3
  /\ IsScript(Revisions[4].down) /\ Len(Revisions[4].down) = 1
  /\ \A v \in {5, 7} : IsScript(Revisions[v].down) /\ Len(Revisions[v].down) = 2
  /\ ToSet(Revisions[2].down) =
       { Delete("role_permissions", AllRoles \X {"identity", "catalogue", "inventory"}),
         Delete("roles", AllRoles), Delete("permissions", {"identity"}) }
  /\ ToSet(Revisions[4].down) = { Delete("units", {"default"}) }
  /\ ToSet(Revisions[5].down) = { Delete("role_permissions", AllRoles \X {"catalogue"}),
                                  Delete("permissions", {"catalogue"}) }
  /\ ToSet(Revisions[7].down) = { Delete("role_permissions", AllRoles \X {"inventory"}),
                                  Delete("permissions", {"inventory"}) }
<1>1. /\ IsScript(RolesUnseed) /\ Len(RolesUnseed) = 3
      /\ ToSet(RolesUnseed) =
           { Delete("role_permissions", AllRoles \X {"identity", "catalogue", "inventory"}),
             Delete("roles", AllRoles), Delete("permissions", {"identity"}) }
  BY Tuple3, Zenon DEF RolesUnseed
<1>2. /\ IsScript(UnitsUnseed) /\ Len(UnitsUnseed) = 1
      /\ ToSet(UnitsUnseed) = { Delete("units", {"default"}) }
  BY Tuple1, Zenon DEF UnitsUnseed
<1>3. /\ IsScript(CatalogueUnseed) /\ Len(CatalogueUnseed) = 2
      /\ ToSet(CatalogueUnseed) = { Delete("role_permissions", AllRoles \X {"catalogue"}),
                                    Delete("permissions", {"catalogue"}) }
  BY Tuple2, Zenon DEF CatalogueUnseed
<1>4. /\ IsScript(InventoryUnseed) /\ Len(InventoryUnseed) = 2
      /\ ToSet(InventoryUnseed) = { Delete("role_permissions", AllRoles \X {"inventory"}),
                                    Delete("permissions", {"inventory"}) }
  BY Tuple2, Zenon DEF InventoryUnseed
<1>5. QED  BY <1>1, <1>2, <1>3, <1>4, Chain

CatalogueStatements ==
  { Create("brands", {"companies"}, {"company_id, name"}),
    Create("categories", {"companies", "categories"}, {"company_id, name"}),
    Create("units", {"companies"}, {"company_id, abbreviation"}),
    Create("products", {"units", "brands", "categories", "companies"}, {"company_id, sku"}),
    Create("product_images", {"companies", "products"}, {}),
    Create("product_variants", {"companies", "products"}, {"company_id, sku"}),
    Create("product_barcodes", {"companies", "product_variants"}, {"company_id, barcode"}) }

CatalogueTableNames ==
  {"brands", "categories", "units", "products", "product_images", "product_variants",
   "product_barcodes"}

InventoryStatements ==
  { Create("stock_levels", {"companies", "product_variants", "warehouses"},
           {"company_id, warehouse_id, product_variant_id"}),
    Create("stock_transfers", {"companies", "warehouses", "product_variants"}, {}),
    Create("stock_transactions",
           {"branches", "companies", "product_variants", "stock_transfers", "warehouses"}, {}) }

InventoryTableNames == {"stock_levels", "stock_transfers", "stock_transactions"}

LEMMA Growing ==
  /\ IsScript(Revisions[3].up) /\ Len(Revisions[3].up) = 7
  /\ ToSet(Revisions[3].up) = CatalogueStatements
  /\ IsScript(Revisions[3].down) /\ Len(Revisions[3].down) = 7
  /\ ToSet(Revisions[3].down) = {Drop(t) : t \in CatalogueTableNames}
  /\ IsScript(Revisions[6].up) /\ Len(Revisions[6].up) = 3
  /\ ToSet(Revisions[6].up) = InventoryStatements
  /\ IsScript(Revisions[6].down) /\ Len(Revisions[6].down) = 3
  /\ ToSet(Revisions[6].down) = {Drop(t) : t \in InventoryTableNames}
<1>1. /\ IsScript(CatalogueTables) /\ Len(CatalogueTables) = 7
      /\ ToSet(CatalogueTables) = CatalogueStatements
  <2> DEFINE a == Create("brands", {"companies"}, {"company_id, name"})
             b == Create("categories", {"companies", "categories"}, {"company_id, name"})
             c == Create("units", {"companies"}, {"company_id, abbreviation"})
             d == Create("products", {"units", "brands", "categories", "companies"},
                         {"company_id, sku"})
             e == Create("product_images", {"companies", "products"}, {})
             f == Create("product_variants", {"companies", "products"}, {"company_id, sku"})
             g == Create("product_barcodes", {"companies", "product_variants"},
                         {"company_id, barcode"})
  <2>1. CatalogueTables = <<a, b, c, d, e, f, g>> /\ CatalogueStatements = {a, b, c, d, e, f, g}
    BY DEF CatalogueTables, CatalogueStatements
  <2> HIDE DEF a, b, c, d, e, f, g
  <2>2. QED  BY <2>1, Tuple7
<1>2. /\ IsScript(InventoryTables) /\ Len(InventoryTables) = 3
      /\ ToSet(InventoryTables) = InventoryStatements
  BY Tuple3, Zenon DEF InventoryTables, InventoryStatements
<1> DEFINE catalogue == << "product_barcodes", "product_variants", "product_images",
                           "products", "units", "categories", "brands" >>
           inventory == << "stock_transactions", "stock_transfers", "stock_levels" >>
<1>3. IsScript(catalogue) /\ Len(catalogue) = 7 /\ ToSet(catalogue) = CatalogueTableNames
  <2>1. /\ IsScript(catalogue) /\ Len(catalogue) = 7
        /\ ToSet(catalogue) = {"product_barcodes", "product_variants", "product_images",
                               "products", "units", "categories", "brands"}
    BY Tuple7
  <2>2. QED  BY <2>1 DEF CatalogueTableNames
<1>4. IsScript(inventory) /\ Len(inventory) = 3 /\ ToSet(inventory) = InventoryTableNames
  <2>1. /\ IsScript(inventory) /\ Len(inventory) = 3
        /\ ToSet(inventory) = {"stock_transactions", "stock_transfers", "stock_levels"}
    BY Tuple3
  <2>2. QED  BY <2>1 DEF InventoryTableNames
<1> HIDE DEF catalogue, inventory
<1>5. CatalogueDrops = DropAll(catalogue) /\ InventoryDrops = DropAll(inventory)
  BY DEF CatalogueDrops, InventoryDrops, catalogue, inventory
<1>6. QED  BY <1>1, <1>2, <1>3, <1>4, <1>5, Dropping, Chain

LEMMA NamesAre == Names = FoundationTables \union CatalogueTableNames \union InventoryTableNames
<1>1. {m.table : m \in CompanyModels} = {"companies", "branches", "warehouses"}
  <2> DEFINE a == Declared("companies", {}, {})
             b == Declared("branches", {"companies", "warehouses", "users"}, {})
             c == Declared("warehouses", {"companies", "branches"}, {})
  <2>1. CompanyModels = {a, b, c}
    BY DEF CompanyModels
  <2>2. /\ a.table = "companies"
        /\ b.table = "branches"
        /\ c.table = "warehouses"
    BY DEF Declared
  <2> HIDE DEF a, b, c
  <2>3. QED  BY <2>1, <2>2
<1>2. {m.table : m \in IdentityModels} =
        {"users", "roles", "permissions", "role_permissions", "user_roles", "user_branches"}
  <2> DEFINE a == Declared("users", {"companies", "branches"}, {"email"})
             b == Declared("roles", {"companies"}, {"company_id, name"})
             c == Declared("permissions", {}, {"code"})
             d == Declared("role_permissions", {"roles", "permissions"},
                           {"role_id, permission_id"})
             e == Declared("user_roles", {"users", "roles"}, {"user_id, role_id"})
             f == Declared("user_branches", {"users", "branches"}, {"user_id, branch_id"})
  <2>1. IdentityModels = {a, b, c, d, e, f}
    BY DEF IdentityModels
  <2>2. /\ a.table = "users"
        /\ b.table = "roles"
        /\ c.table = "permissions"
        /\ d.table = "role_permissions"
        /\ e.table = "user_roles"
        /\ f.table = "user_branches"
    BY DEF Declared
  <2> HIDE DEF a, b, c, d, e, f
  <2>3. QED  BY <2>1, <2>2
<1>3. {m.table : m \in AuthModels} = {"refresh_tokens", "password_reset_tokens"}
  <2> DEFINE a == Declared("refresh_tokens", {"users", "refresh_tokens"}, {"token_hash"})
             b == Declared("password_reset_tokens", {"users"}, {"token_hash"})
  <2>1. AuthModels = {a, b}
    BY DEF AuthModels
  <2>2. /\ a.table = "refresh_tokens"
        /\ b.table = "password_reset_tokens"
    BY DEF Declared
  <2> HIDE DEF a, b
  <2>3. QED  BY <2>1, <2>2
<1>4. {m.table : m \in AuditModels} = {"audit_logs"}
  <2> DEFINE a == Declared("audit_logs", {"companies", "users"}, {})
  <2>1. AuditModels = {a}
    BY DEF AuditModels
  <2>2. /\ a.table = "audit_logs"
    BY DEF Declared
  <2> HIDE DEF a
  <2>3. QED  BY <2>1, <2>2
<1>5. {m.table : m \in CatalogueModels} = CatalogueTableNames
  <2> DEFINE a == Declared("categories", {"companies", "categories"}, {"company_id, name"})
             b == Declared("brands", {"companies"}, {"company_id, name"})
             c == Declared("units", {"companies"}, {"company_id, abbreviation"})
             d == Declared("products", {"companies", "categories", "brands", "units"},
                           {"company_id, sku"})
             e == Declared("product_variants", {"companies", "products"},
                           {"company_id, sku"})
             f == Declared("product_barcodes", {"companies", "product_variants"},
                           {"company_id, barcode"})
             g == Declared("product_images", {"companies", "products"}, {})
  <2>1. CatalogueModels = {a, b, c, d, e, f, g}
    BY DEF CatalogueModels
  <2>2. /\ a.table = "categories"
        /\ b.table = "brands"
        /\ c.table = "units"
        /\ d.table = "products"
        /\ e.table = "product_variants"
        /\ f.table = "product_barcodes"
        /\ g.table = "product_images"
    BY DEF Declared
  <2> HIDE DEF a, b, c, d, e, f, g
  <2>3. QED  BY <2>1, <2>2 DEF CatalogueTableNames
<1>6. {m.table : m \in InventoryModels} = InventoryTableNames
  <2> DEFINE a == Declared("stock_levels", {"companies", "warehouses", "product_variants"},
                           {"company_id, warehouse_id, product_variant_id"})
             b == Declared("stock_transfers",
                           {"companies", "warehouses", "product_variants"}, {})
             c == Declared("stock_transactions",
                           {"companies", "branches", "warehouses", "product_variants",
                            "stock_transfers"},
                           {})
  <2>1. InventoryModels = {a, b, c}
    BY DEF InventoryModels
  <2>2. /\ a.table = "stock_levels"
        /\ b.table = "stock_transfers"
        /\ c.table = "stock_transactions"
    BY DEF Declared
  <2> HIDE DEF a, b, c
  <2>3. QED  BY <2>1, <2>2 DEF InventoryTableNames
<1>7. Names = {m.table : m \in CompanyModels} \union {m.table : m \in IdentityModels}
                \union {m.table : m \in AuthModels} \union {m.table : m \in AuditModels}
                \union {m.table : m \in CatalogueModels} \union {m.table : m \in InventoryModels}
  BY DEF Names, Models
<1>8. FoundationTables = {"companies", "branches", "warehouses"} \union
        {"users", "roles", "permissions", "role_permissions", "user_roles", "user_branches"}
        \union {"refresh_tokens", "password_reset_tokens"} \union {"audit_logs"}
  BY DEF FoundationTables
<1>9. QED  BY <1>1, <1>2, <1>3, <1>4, <1>5, <1>6, <1>7, <1>8

\* What a statement of an upgrade and of a downgrade script is like.
UpStatement(s) ==
  /\ s.do \in Adding
  /\ s.do = "create" => s.table \in Names /\ (s.table = "user_roles" => "roles" \in s.refs)
  /\ s.do \in {"insert", "insertMissing"} => s.table \in SeededTables

DownStatement(s) ==
  /\ s.do \in Removing
  /\ s.do = "delete" => s.table \in SeededTables
  /\ s.do = "dropReference" => s.table # "user_roles"

LEMMA Ups ==
  ASSUME NEW v \in 1..7
  PROVE  /\ IsScript(Revisions[v].up) /\ Len(Revisions[v].up) \in 1..16
         /\ \A s \in ToSet(Revisions[v].up) : UpStatement(s)
<1>1. FoundationTables \subseteq Names /\ CatalogueTableNames \subseteq Names
      /\ InventoryTableNames \subseteq Names
  BY NamesAre
<1>2. \A t \in Names : \A refs, keys :
        t # "user_roles" \/ "roles" \in refs => UpStatement(Create(t, refs, keys))
  BY DEF UpStatement, Adding, Create
<1>3. \A t, ref : UpStatement(AddReference(t, ref))
  BY DEF UpStatement, Adding, AddReference
<1>4. /\ \A s \in FoundationStatements : UpStatement(s)
      /\ \A s \in CatalogueStatements : UpStatement(s)
      /\ \A s \in InventoryStatements : UpStatement(s)
  <2>1. \A s \in FoundationStatements : UpStatement(s)
    <3> DEFINE plain == {"companies", "permissions", "branches", "roles", "users", "audit_logs",
                         "password_reset_tokens", "refresh_tokens", "role_permissions",
                         "user_branches", "warehouses"}
    <3>1. \A t \in plain : t \in Names /\ t # "user_roles"
      BY <1>1 DEF FoundationTables
    <3> HIDE DEF plain
    <3>2. \A t \in plain : \A refs, keys : UpStatement(Create(t, refs, keys))
      BY <1>2, <3>1
    <3>3. UpStatement(Create("user_roles", {"roles", "users"}, {"user_id, role_id"}))
      <4>1. "user_roles" \in Names
        BY <1>1 DEF FoundationTables
      <4>2. "roles" \in {"roles", "users"}
        OBVIOUS
      <4>3. QED  BY <1>2, <4>1, <4>2
    <3>4. QED  BY <1>3, <3>2, <3>3, Zenon DEF FoundationStatements, plain
  <2>2. \A s \in CatalogueStatements : UpStatement(s)
    <3>1. \A t \in CatalogueTableNames : t \in Names
      BY <1>1
    <3>2. QED  BY <1>2, <3>1, Zenon DEF CatalogueStatements, CatalogueTableNames
  <2>3. \A s \in InventoryStatements : UpStatement(s)
    <3>1. \A t \in InventoryTableNames : t \in Names
      BY <1>1
    <3>2. QED  BY <1>2, <3>1, Zenon DEF InventoryStatements, InventoryTableNames
  <2>4. QED  BY <2>1, <2>2, <2>3
<1>5. \A rows : \A t \in SeededTables :
        UpStatement(Insert(t, rows)) /\ UpStatement(InsertMissing(t, rows))
        /\ UpStatement(LookUp(t, rows))
  BY DEF UpStatement, Adding, Insert, InsertMissing, LookUp
<1>6. {"permissions", "roles", "role_permissions", "units"} = SeededTables
  BY DEF SeededTables
<1>7. \A w \in {2, 4, 5, 7} : \A s \in ToSet(Revisions[w].up) : UpStatement(s)
  BY <1>5, <1>6, Seeding
<1>8. \A w \in {1, 3, 6} : \A s \in ToSet(Revisions[w].up) : UpStatement(s)
  BY <1>4, Foundation, Growing
<1>9. \A w \in 1..7 : IsScript(Revisions[w].up) /\ Len(Revisions[w].up) \in 1..16
  BY Foundation, Growing, Seeding
<1>10. QED  BY <1>7, <1>8, <1>9

LEMMA Downs ==
  ASSUME NEW v \in 1..7
  PROVE  /\ IsScript(Revisions[v].down) /\ Len(Revisions[v].down) \in 1..16
         /\ \A s \in ToSet(Revisions[v].down) : DownStatement(s)
         /\ v # 1 => \A s \in ToSet(Revisions[v].down) :
                        ~(s.do = "drop" /\ s.table = "user_roles")
<1>1. \A t : DownStatement(Drop(t)) /\ Drop(t).table = t
  BY DEF DownStatement, Drop, Removing
<1>2. \A s \in FoundationReferences : DownStatement(s)
  BY DEF FoundationReferences, DownStatement, DropReference, Removing
<1>3. \A rows : \A t \in SeededTables :
        DownStatement(Delete(t, rows)) /\ Delete(t, rows).do = "delete"
  BY DEF DownStatement, Delete, Removing
<1>4. {"permissions", "roles", "role_permissions", "units"} = SeededTables
  BY DEF SeededTables
<1>5. \A w \in {2, 4, 5, 7} : \A s \in ToSet(Revisions[w].down) :
        DownStatement(s) /\ s.do = "delete"
  BY <1>3, <1>4, Unseeding
<1>6. \A w \in {1, 3, 6} : \A s \in ToSet(Revisions[w].down) : DownStatement(s)
  BY <1>1, <1>2, Foundation, Growing, Chain
<1>7. "user_roles" \notin CatalogueTableNames /\ "user_roles" \notin InventoryTableNames
  BY DEF CatalogueTableNames, InventoryTableNames
<1>8. \A w \in {3, 6} : \A s \in ToSet(Revisions[w].down) : s.table # "user_roles"
  BY <1>1, <1>7, Growing
<1>9. \A w \in 1..7 : IsScript(Revisions[w].down) /\ Len(Revisions[w].down) \in 1..16
  BY Foundation, Growing, Unseeding, Chain
<1>10. QED  BY <1>5, <1>6, <1>8, <1>9
-----------------------------------------------------------------------------
\* A downgrade takes away what its upgrade makes, and nothing made before.

Removed(v, x) == \E s \in ToSet(Revisions[v].down) : Removes(s, x)

LEMMA MadeBySet ==
  ASSUME NEW script
  PROVE  MadeBy(script) = UNION {Makes(s) : s \in ToSet(script)}
BY DEF MadeBy, ToSet

LEMMA MadeStep ==
  /\ Made[0] = {}
  /\ \A v \in 1..7 : Made[v] = Made[v - 1] \union MadeBy(Revisions[v].up)
<1>1. \A v \in 0..7 : Made[v] = UNION {MadeBy(Revisions[u].up) : u \in 1..v}
  BY Chain DEF Made
<1>2. ASSUME NEW v \in 1..7
      PROVE  Made[v] = Made[v - 1] \union MadeBy(Revisions[v].up)
  <2>1. /\ Made[v] = UNION {MadeBy(Revisions[u].up) : u \in 1..v}
        /\ Made[v - 1] = UNION {MadeBy(Revisions[u].up) : u \in 1..(v - 1)}
    BY <1>1
  <2>2. 1..v = (1..(v - 1)) \union {v}
    OBVIOUS
  <2>3. QED  BY <2>1, <2>2
<1>3. QED  BY <1>1, <1>2

\* A row of a table, and a part of the definition of one of some tables.
IsRow(x, t, rows) == x[1] = "row" /\ x[2] = t /\ x[3] \in rows
IsPart(x, tables) == x[1] # "row" /\ x[2] \in tables

LEMMA MakesRows ==
  ASSUME NEW t, NEW rows
  PROVE  /\ \A x \in Makes(Insert(t, rows)) : IsRow(x, t, rows)
         /\ \A x \in Makes(InsertMissing(t, rows)) : IsRow(x, t, rows)
         /\ Makes(LookUp(t, rows)) = {}
         /\ \A x : Removes(Delete(t, rows), x) <=> IsRow(x, t, rows)
<1>1. /\ Makes(Insert(t, rows)) = Tagged("row", {t} \X rows)
      /\ Makes(InsertMissing(t, rows)) = Tagged("row", {t} \X rows)
  BY DEF Makes, Insert, InsertMissing
<1>2. \A x \in Tagged("row", {t} \X rows) : IsRow(x, t, rows)
  BY DEF Tagged, IsRow
<1>3. Makes(LookUp(t, rows)) = {}
  BY DEF Makes, LookUp
<1>4. \A x : Removes(Delete(t, rows), x) <=> IsRow(x, t, rows)
  BY DEF Removes, Delete, IsRow
<1>5. QED  BY <1>1, <1>2, <1>3, <1>4

LEMMA MakesParts ==
  ASSUME NEW s, NEW tables, s.do \in {"create", "addReference"}, s.table \in tables
  PROVE  \A x \in Makes(s) : IsPart(x, tables)
<1>1. /\ \A x \in Tagged("table", {<<s.table, s.table>>}) : IsPart(x, tables)
      /\ \A x \in Tagged("reference", {s.table} \X s.refs) : IsPart(x, tables)
      /\ \A x \in Tagged("key", {s.table} \X s.keys) : IsPart(x, tables)
      /\ \A x \in Tagged("reference", {<<s.table, s.ref>>}) : IsPart(x, tables)
  BY DEF Tagged, IsPart
<1>2. CASE s.do = "create"
  <2>1. Makes(s) = Tagged("table", {<<s.table, s.table>>})
                     \union Tagged("reference", {s.table} \X s.refs)
                     \union Tagged("key", {s.table} \X s.keys)
    BY <1>2 DEF Makes
  <2>2. QED  BY <1>1, <2>1
<1>3. CASE s.do = "addReference"
  <2>1. Makes(s) = Tagged("reference", {<<s.table, s.ref>>})
    BY <1>3 DEF Makes
  <2>2. QED  BY <1>1, <2>1
<1>4. QED  BY <1>2, <1>3

LEMMA TableScripts ==
  /\ \A x \in MadeBy(Revisions[1].up) : IsPart(x, FoundationTables)
  /\ \A x \in MadeBy(Revisions[3].up) : IsPart(x, CatalogueTableNames)
  /\ \A x \in MadeBy(Revisions[6].up) : IsPart(x, InventoryTableNames)
<1>1. \A s : s.do \in {"create", "addReference"} <=> s.do = "create" \/ s.do = "addReference"
  OBVIOUS
<1>2. \A t, refs, keys : Create(t, refs, keys).do = "create" /\ Create(t, refs, keys).table = t
  BY DEF Create
<1>3. \A t, ref : AddReference(t, ref).do = "addReference" /\ AddReference(t, ref).table = t
  BY DEF AddReference
<1> DEFINE Fits(s, tables) == s.do \in {"create", "addReference"} /\ s.table \in tables
<1>4. ASSUME NEW tables
      PROVE  /\ \A t \in tables : \A refs, keys : Fits(Create(t, refs, keys), tables)
             /\ \A t \in tables : \A ref : Fits(AddReference(t, ref), tables)
  BY <1>2, <1>3
<1> HIDE DEF Fits
<1>5. \A s \in FoundationStatements : Fits(s, FoundationTables)
  <2>1. /\ \A t \in FoundationTables : \A refs, keys : Fits(Create(t, refs, keys), FoundationTables)
        /\ \A t \in FoundationTables : \A ref : Fits(AddReference(t, ref), FoundationTables)
    BY <1>4
  <2> DEFINE Good(s) == Fits(s, FoundationTables)
  <2> HIDE DEF Good
  <2>2. /\ \A t \in FoundationTables : \A refs, keys : Good(Create(t, refs, keys))
        /\ \A t \in FoundationTables : \A ref : Good(AddReference(t, ref))
    BY <2>1 DEF Good
  <2>3. \A s \in FoundationStatements : Good(s)
    BY <2>2, Zenon DEF FoundationStatements, FoundationTables
  <2>4. QED  BY <2>3 DEF Good
<1>6. \A s \in CatalogueStatements : Fits(s, CatalogueTableNames)
  <2>1. \A t \in CatalogueTableNames : \A refs, keys :
          Fits(Create(t, refs, keys), CatalogueTableNames)
    BY <1>4
  <2> DEFINE Good(s) == Fits(s, CatalogueTableNames)
  <2> HIDE DEF Good
  <2>2. \A t \in CatalogueTableNames : \A refs, keys : Good(Create(t, refs, keys))
    BY <2>1 DEF Good
  <2>3. \A s \in CatalogueStatements : Good(s)
    BY <2>2, Zenon DEF CatalogueStatements, CatalogueTableNames
  <2>4. QED  BY <2>3 DEF Good
<1>7. \A s \in InventoryStatements : Fits(s, InventoryTableNames)
  <2>1. \A t \in InventoryTableNames : \A refs, keys :
          Fits(Create(t, refs, keys), InventoryTableNames)
    BY <1>4
  <2> DEFINE Good(s) == Fits(s, InventoryTableNames)
  <2> HIDE DEF Good
  <2>2. \A t \in InventoryTableNames : \A refs, keys : Good(Create(t, refs, keys))
    BY <2>1 DEF Good
  <2>3. \A s \in InventoryStatements : Good(s)
    BY <2>2, Zenon DEF InventoryStatements, InventoryTableNames
  <2>4. QED  BY <2>3 DEF Good
<1>8. ASSUME NEW script, NEW tables, \A s \in ToSet(script) : Fits(s, tables)
      PROVE  \A x \in MadeBy(script) : IsPart(x, tables)
  BY <1>8, MadeBySet, MakesParts DEF Fits
<1>9. QED  BY <1>5, <1>6, <1>7, <1>8, Foundation, Growing

LEMMA SeedScripts ==
  /\ \A x \in MadeBy(Revisions[2].up) :
       \/ IsRow(x, "permissions", {"identity"}) \/ IsRow(x, "roles", AllRoles)
       \/ IsRow(x, "role_permissions", AllRoles \X {"identity"})
  /\ \A x \in MadeBy(Revisions[4].up) : IsRow(x, "units", {"default"})
  /\ \A x \in MadeBy(Revisions[5].up) :
       \/ IsRow(x, "permissions", {"catalogue"})
       \/ IsRow(x, "role_permissions", AllRoles \X {"catalogue"})
  /\ \A x \in MadeBy(Revisions[7].up) :
       \/ IsRow(x, "permissions", {"inventory"})
       \/ IsRow(x, "role_permissions", AllRoles \X {"inventory"})
<1>1. /\ DefaultGrants = AllRoles \X {"identity"} /\ CatalogueGrants = AllRoles \X {"catalogue"}
      /\ \A x : IsRow(x, "role_permissions", InventoryGrants) =>
                  IsRow(x, "role_permissions", AllRoles \X {"inventory"})
  BY DEF DefaultGrants, CatalogueGrants, InventoryGrants, AllRoles, IsRow
<1>2. \A x \in MadeBy(Revisions[2].up) :
        \/ IsRow(x, "permissions", {"identity"}) \/ IsRow(x, "roles", AllRoles)
        \/ IsRow(x, "role_permissions", AllRoles \X {"identity"})
  <2>1. ToSet(Revisions[2].up) = { Insert("permissions", {"identity"}), Insert("roles", AllRoles),
                                   Insert("role_permissions", AllRoles \X {"identity"}) }
    BY <1>1, Seeding
  <2>2. MadeBy(Revisions[2].up) = Makes(Insert("permissions", {"identity"}))
          \union Makes(Insert("roles", AllRoles))
          \union Makes(Insert("role_permissions", AllRoles \X {"identity"}))
    BY <2>1, MadeBySet
  <2>3. QED  BY <2>2, MakesRows
<1>3. \A x \in MadeBy(Revisions[4].up) : IsRow(x, "units", {"default"})
  BY MadeBySet, MakesRows, Seeding
<1>4. \A x \in MadeBy(Revisions[5].up) :
        \/ IsRow(x, "permissions", {"catalogue"})
        \/ IsRow(x, "role_permissions", AllRoles \X {"catalogue"})
  <2>1. MadeBy(Revisions[5].up) = Makes(Insert("permissions", {"catalogue"}))
          \union Makes(LookUp("roles", AllRoles))
          \union Makes(Insert("role_permissions", CatalogueGrants))
    BY MadeBySet, Seeding
  <2>2. QED  BY <1>1, <2>1, MakesRows
<1>5. \A x \in MadeBy(Revisions[7].up) :
        \/ IsRow(x, "permissions", {"inventory"})
        \/ IsRow(x, "role_permissions", AllRoles \X {"inventory"})
  <2>1. MadeBy(Revisions[7].up) = Makes(InsertMissing("permissions", {"inventory"}))
          \union Makes(LookUp("roles", {SuperAdmin, "Admin", "Manager"}))
          \union Makes(InsertMissing("role_permissions", InventoryGrants))
    BY MadeBySet, Seeding
  <2>2. QED  BY <1>1, <2>1, MakesRows
<1>6. QED  BY <1>2, <1>3, <1>4, <1>5

LEMMA TablesApart ==
  /\ FoundationTables \intersect CatalogueTableNames = {}
  /\ FoundationTables \intersect InventoryTableNames = {}
  /\ CatalogueTableNames \intersect InventoryTableNames = {}
  /\ {"permissions", "roles", "role_permissions"} \subseteq FoundationTables
  /\ "units" \in CatalogueTableNames
BY DEF FoundationTables, CatalogueTableNames, InventoryTableNames

\* What is made up to a revision: parts of tables, and seeded rows.
Bound(v, x) ==
  \/ IsPart(x, FoundationTables)
  \/ v >= 3 /\ IsPart(x, CatalogueTableNames)
  \/ v >= 6 /\ IsPart(x, InventoryTableNames)
  \/ v >= 2 /\ \/ IsRow(x, "permissions", {"identity"}) \/ IsRow(x, "roles", AllRoles)
               \/ IsRow(x, "role_permissions", AllRoles \X {"identity"})
  \/ v >= 4 /\ IsRow(x, "units", {"default"})
  \/ v >= 5 /\ \/ IsRow(x, "permissions", {"catalogue"})
               \/ IsRow(x, "role_permissions", AllRoles \X {"catalogue"})
  \/ v >= 7 /\ \/ IsRow(x, "permissions", {"inventory"})
               \/ IsRow(x, "role_permissions", AllRoles \X {"inventory"})

LEMMA MadeBound == \A v \in 1..7 : \A x \in Made[v] : Bound(v, x)
<1>1. \A v \in 1..7 : \A x \in MadeBy(Revisions[v].up) : Bound(v, x)
  <2>1. \A x \in MadeBy(Revisions[1].up) : Bound(1, x)
    BY TableScripts DEF Bound
  <2>2. \A x \in MadeBy(Revisions[2].up) : Bound(2, x)
    BY SeedScripts DEF Bound
  <2>3. \A x \in MadeBy(Revisions[3].up) : Bound(3, x)
    BY TableScripts DEF Bound
  <2>4. \A x \in MadeBy(Revisions[4].up) : Bound(4, x)
    BY SeedScripts DEF Bound
  <2>5. \A x \in MadeBy(Revisions[5].up) : Bound(5, x)
    <3>1. \A x \in MadeBy(Revisions[5].up) :
            \/ IsRow(x, "permissions", {"catalogue"})
            \/ IsRow(x, "role_permissions", AllRoles \X {"catalogue"})
      BY SeedScripts, Zenon
    <3>2. 5 >= 5
      OBVIOUS
    <3>3. QED  BY <3>1, <3>2, Zenon DEF Bound
  <2>6. \A x \in MadeBy(Revisions[6].up) : Bound(6, x)
    BY TableScripts DEF Bound
  <2>7. \A x \in MadeBy(Revisions[7].up) : Bound(7, x)
    BY SeedScripts DEF Bound
  <2>8. QED  BY <2>1, <2>2, <2>3, <2>4, <2>5, <2>6, <2>7
<1>2. \A v \in 1..6 : \A x : Bound(v, x) => Bound(v + 1, x)
  BY DEF Bound
<1>3. \A x \in Made[1] : Bound(1, x)
  BY <1>1, MadeStep
<1>4. \A v \in 1..6 : Made[v + 1] = Made[v] \union MadeBy(Revisions[v + 1].up)
  BY MadeStep
<1>5. ASSUME NEW v \in 1..6, \A x \in Made[v] : Bound(v, x)
      PROVE  \A x \in Made[v + 1] : Bound(v + 1, x)
  BY <1>1, <1>2, <1>4, <1>5
<1>6. \A x \in Made[2] : Bound(2, x)
  BY <1>3, <1>5
<1>7. \A x \in Made[3] : Bound(3, x)
  BY <1>6, <1>5
<1>8. \A x \in Made[4] : Bound(4, x)
  BY <1>7, <1>5
<1>9. \A x \in Made[5] : Bound(5, x)
  BY <1>8, <1>5
<1>10. \A x \in Made[6] : Bound(6, x)
  BY <1>9, <1>5
<1>11. \A x \in Made[7] : Bound(7, x)
  BY <1>10, <1>5
<1>12. QED  BY <1>3, <1>6, <1>7, <1>8, <1>9, <1>10, <1>11

LEMMA DropRemoves ==
  ASSUME NEW v \in 1..7, NEW tables, ToSet(Revisions[v].down) = {Drop(t) : t \in tables}
  PROVE  \A x : Removed(v, x) <=> x[2] \in tables
<1>1. \A t, x : Removes(Drop(t), x) <=> x[2] = t
  BY DEF Removes, Drop
<1>2. QED  BY <1>1 DEF Removed

LEMMA RowsRemoved ==
  /\ \A x : Removed(2, x) <=>
       \/ IsRow(x, "permissions", {"identity"}) \/ IsRow(x, "roles", AllRoles)
       \/ IsRow(x, "role_permissions", AllRoles \X {"identity", "catalogue", "inventory"})
  /\ \A x : Removed(4, x) <=> IsRow(x, "units", {"default"})
  /\ \A x : Removed(5, x) <=>
       \/ IsRow(x, "permissions", {"catalogue"})
       \/ IsRow(x, "role_permissions", AllRoles \X {"catalogue"})
  /\ \A x : Removed(7, x) <=>
       \/ IsRow(x, "permissions", {"inventory"})
       \/ IsRow(x, "role_permissions", AllRoles \X {"inventory"})
<1>1. \A t, rows, x : Removes(Delete(t, rows), x) <=> IsRow(x, t, rows)
  BY MakesRows
<1>2. \A x : Removed(2, x) <=>
        \/ Removes(Delete("permissions", {"identity"}), x) \/ Removes(Delete("roles", AllRoles), x)
        \/ Removes(Delete("role_permissions", AllRoles \X {"identity", "catalogue", "inventory"}), x)
  BY Unseeding, Zenon DEF Removed
<1>3. \A x : Removed(4, x) <=> Removes(Delete("units", {"default"}), x)
  BY Unseeding, Zenon DEF Removed
<1>4. \A x : Removed(5, x) <=>
        \/ Removes(Delete("permissions", {"catalogue"}), x)
        \/ Removes(Delete("role_permissions", AllRoles \X {"catalogue"}), x)
  BY Unseeding, Zenon DEF Removed
<1>5. \A x : Removed(7, x) <=>
        \/ Removes(Delete("permissions", {"inventory"}), x)
        \/ Removes(Delete("role_permissions", AllRoles \X {"inventory"}), x)
  BY Unseeding, Zenon DEF Removed
<1>6. QED  BY <1>1, <1>2, <1>3, <1>4, <1>5, Zenon

LEMMA DownUndoes ==
  ASSUME NEW v \in 1..7, NEW x \in Made[v]
  PROVE  Removed(v, x) <=> x \notin Made[v - 1]
<1>1. Made[v] = Made[v - 1] \union MadeBy(Revisions[v].up)
  BY MadeStep
<1>2. v # 1 => (x \in Made[v - 1] => Bound(v - 1, x))
  BY MadeBound
<1>3. CASE v = 1
  <2>1. Made[0] = {} /\ IsPart(x, FoundationTables)
    BY <1>1, <1>3, MadeStep, TableScripts
  <2>2. PICK t \in FoundationTables : x[2] = t
    BY <2>1 DEF IsPart
  <2>3. Drop(t) \in ToSet(Revisions[1].down) /\ Removes(Drop(t), x)
    BY <2>2, Foundation, Chain DEF Removes, Drop
  <2>4. QED  BY <1>3, <2>1, <2>3 DEF Removed
<1>4. CASE v = 2
  BY <1>1, <1>2, <1>4, RowsRemoved, SeedScripts DEF Bound, IsPart, IsRow
<1>5. CASE v = 3
  <2>1. Removed(3, x) <=> x[2] \in CatalogueTableNames
    BY DropRemoves, Growing
  <2>2. x \in Made[2] => x[2] \in FoundationTables
    BY <1>2, <1>5, TablesApart DEF Bound, IsPart, IsRow
  <2>3. QED  BY <1>1, <1>5, <2>1, <2>2, TablesApart, TableScripts DEF IsPart
<1>6. CASE v = 4
  BY <1>1, <1>2, <1>6, RowsRemoved, SeedScripts DEF Bound, IsPart, IsRow
<1>7. CASE v = 5
  BY <1>1, <1>2, <1>7, RowsRemoved, SeedScripts DEF Bound, IsPart, IsRow
<1>8. CASE v = 6
  <2>1. Removed(6, x) <=> x[2] \in InventoryTableNames
    BY DropRemoves, Growing
  <2>2. x \in Made[5] => x[2] \in FoundationTables \union CatalogueTableNames
    BY <1>2, <1>8, TablesApart DEF Bound, IsPart, IsRow
  <2>3. QED  BY <1>1, <1>8, <2>1, <2>2, TablesApart, TableScripts DEF IsPart
<1>9. CASE v = 7
  BY <1>1, <1>2, <1>9, RowsRemoved, SeedScripts DEF Bound, IsPart, IsRow
<1>10. QED  BY <1>3, <1>4, <1>5, <1>6, <1>7, <1>8, <1>9
-----------------------------------------------------------------------------
\* A statement that does not fail leaves a sound database.

LEMMA NotDangling ==
  ASSUME NEW d, ~Dangling(d), <<"user_roles", "roles">> \in d.references
  PROVE  \A row \in d.rows.user_roles : row[2] \in d.rows.roles
<1> SUFFICES ASSUME NEW row \in d.rows.user_roles
             PROVE  row[2] \in d.rows.roles
  OBVIOUS
<1> DEFINE p == <<"roles", row[2]>>
<1>1. p \in PointsTo("user_roles", row)
  BY DEF PointsTo
<1>2. "user_roles" \in RowTables
  BY DEF RowTables
<1>3. ~(<<"user_roles", p[1]>> \in d.references /\ p[2] \notin d.rows[p[1]])
  BY <1>1, <1>2 DEF Dangling
<1>4. QED  BY <1>3

LEMMA SoundAfter ==
  ASSUME NEW d, Sound(d), NEW s, UpStatement(s) \/ DownStatement(s), ~Fails(d, s)
  PROVE  Sound(After(d, s)) /\ After(d, s).version = d.version
<1> DEFINE e == After(d, s)
<1>1. ~Dangling(e)
  BY DEF Fails
<1> HIDE DEF e
<1>2. /\ Shape(d) /\ d.references \subseteq d.tables \X d.tables
      /\ \A k \in d.keys : k[1] \in d.tables /\ k = <<k[1], k[2]>>
      /\ \A t \in RowTables : d.rows[t] # {} => t \in d.tables
      /\ "user_roles" \in d.tables => <<"user_roles", "roles">> \in d.references
  BY DEF Sound, RolesHeld
<1>3. CASE s.do = "create"
  <2>1. s.table \in Names /\ (s.table = "user_roles" => "roles" \in s.refs)
    BY <1>3 DEF UpStatement, DownStatement, Removing
  <2>2. s.refs \subseteq d.tables \union {s.table}
    BY <1>3 DEF Fails
  <2>3. /\ Shape(e) /\ e.version = d.version
        /\ e.tables = d.tables \union {s.table}
        /\ e.references = d.references \union ({s.table} \X s.refs)
        /\ e.keys = d.keys \union ({s.table} \X s.keys)
        /\ e.rows = d.rows
    BY <1>2, <1>3, <2>1, AfterCreate DEF e
  <2>4. e.references \subseteq e.tables \X e.tables
    BY <1>2, <2>2, <2>3
  <2>5. \A k \in e.keys : k[1] \in e.tables /\ k = <<k[1], k[2]>>
    BY <1>2, <2>3
  <2>6. "user_roles" \in e.tables => <<"user_roles", "roles">> \in e.references
    BY <1>2, <2>1, <2>3
  <2>7. RolesHeld(e)
    BY <1>1, <2>6, NotDangling DEF RolesHeld
  <2>8. QED  BY <1>2, <2>3, <2>4, <2>5, <2>7 DEF Sound, e
<1>4. CASE s.do = "addReference"
  <2>1. s.table \in d.tables /\ s.ref \in d.tables
    BY <1>4 DEF Fails
  <2>2. /\ Shape(e) /\ e.version = d.version /\ e.tables = d.tables
        /\ e.references = d.references \union {<<s.table, s.ref>>}
        /\ e.keys = d.keys /\ e.rows = d.rows
    <3>1. s.do \in {"addReference", "dropReference"}
      BY <1>4
    <3>2. QED  BY <1>2, <1>4, <3>1, AfterReference DEF e
  <2>3. e.references \subseteq e.tables \X e.tables
    BY <1>2, <2>1, <2>2
  <2>4. RolesHeld(e)
    BY <1>1, <1>2, <2>2, NotDangling DEF RolesHeld
  <2>5. QED  BY <1>2, <2>2, <2>3, <2>4 DEF Sound, e
<1>5. CASE s.do \in {"insert", "insertMissing", "lookUp", "delete"}
  <2>1. s.table \in d.tables
    BY <1>5 DEF Fails
  <2>2. /\ Shape(e) /\ e.version = d.version /\ e.tables = d.tables
        /\ e.references = d.references /\ e.keys = d.keys
        /\ e.rows = [t \in RowTables |->
                      IF t # s.table \/ s.do = "lookUp" THEN d.rows[t]
                      ELSE IF s.do = "delete" THEN d.rows[t] \ s.rows
                      ELSE d.rows[t] \union s.rows]
    BY <1>2, <1>5, AfterRows DEF e
  <2>3. \A t \in RowTables : e.rows[t] # {} => t \in e.tables
    <3>1. SUFFICES ASSUME NEW t \in RowTables, e.rows[t] # {}
                   PROVE  t \in d.tables
      BY <2>2
    <3>2. CASE t = s.table
      BY <2>1, <3>2
    <3>3. CASE t # s.table
      BY <1>2, <2>2, <3>1, <3>3
    <3>4. QED  BY <3>2, <3>3
  <2>4. RolesHeld(e)
    BY <1>1, <1>2, <2>2, NotDangling DEF RolesHeld
  <2>5. QED  BY <1>2, <2>2, <2>3, <2>4 DEF Sound, e
<1>6. CASE s.do = "drop"
  <2>1. \A f \in d.references : f[2] = s.table => f[1] = s.table
    BY <1>6 DEF Fails
  <2>2. /\ Shape(e) /\ e.version = d.version /\ e.tables = d.tables \ {s.table}
        /\ e.references = {f \in d.references : f[1] # s.table}
        /\ e.keys = {k \in d.keys : k[1] # s.table}
        /\ e.rows = [t \in RowTables |-> IF t = s.table THEN {} ELSE d.rows[t]]
    BY <1>2, <1>6, AfterDrop DEF e
  <2>3. e.references \subseteq e.tables \X e.tables
    <3>1. SUFFICES ASSUME NEW f \in e.references
                   PROVE  f \in e.tables \X e.tables
      OBVIOUS
    <3>2. f \in d.tables \X d.tables /\ f[1] # s.table /\ f[2] # s.table
      BY <1>2, <2>1, <2>2
    <3>3. QED  BY <2>2, <3>2
  <2>4. \A k \in e.keys : k[1] \in e.tables /\ k = <<k[1], k[2]>>
    BY <1>2, <2>2
  <2>5. \A t \in RowTables : e.rows[t] # {} => t \in e.tables
    BY <1>2, <2>2
  <2>6. "user_roles" \in e.tables => <<"user_roles", "roles">> \in e.references
    BY <1>2, <2>2
  <2>7. RolesHeld(e)
    BY <1>1, <2>6, NotDangling DEF RolesHeld
  <2>8. QED  BY <2>2, <2>3, <2>4, <2>5, <2>7 DEF Sound, e
<1>7. CASE s.do = "dropReference"
  <2>1. s.table # "user_roles"
    BY <1>7 DEF UpStatement, DownStatement, Adding
  <2>2. /\ Shape(e) /\ e.version = d.version /\ e.tables = d.tables
        /\ e.references = d.references \ {<<s.table, s.ref>>}
        /\ e.keys = d.keys /\ e.rows = d.rows
    <3>1. s.do \in {"addReference", "dropReference"}
      BY <1>7
    <3>2. QED  BY <1>2, <1>7, <3>1, AfterReference DEF e
  <2>3. "user_roles" \in e.tables => <<"user_roles", "roles">> \in e.references
    BY <1>2, <2>1, <2>2
  <2>4. RolesHeld(e)
    BY <1>1, <2>3, NotDangling DEF RolesHeld
  <2>5. e.references \subseteq e.tables \X e.tables
    BY <1>2, <2>2
  <2>6. QED  BY <1>2, <2>2, <2>4, <2>5 DEF Sound, e
<1>8. QED  BY <1>3, <1>4, <1>5, <1>6, <1>7 DEF UpStatement, DownStatement, Adding, Removing
-----------------------------------------------------------------------------
\* A script from its first statement to its last.

LEMMA StatementIs ==
  ASSUME NEW script, IsScript(script), NEW i \in 1..Len(script)
  PROVE  script[i] \in ToSet(script)
BY DEF IsScript, ToSet

LEMMA BeforeFirst ==
  ASSUME NEW script
  PROVE  MadeBefore(script, 1) = {} /\ \A x : ~RemovedBefore(script, 1, x)
BY DEF MadeBefore, RemovedBefore

LEMMA BeforeNext ==
  ASSUME NEW script, NEW i \in Nat \ {0}
  PROVE  /\ MadeBefore(script, i + 1) = MadeBefore(script, i) \union Makes(script[i])
         /\ \A x : RemovedBefore(script, i + 1, x) <=>
                     RemovedBefore(script, i, x) \/ Removes(script[i], x)
<1>1. 1..((i + 1) - 1) = (1..(i - 1)) \union {i}
  OBVIOUS
<1>2. QED  BY <1>1 DEF MadeBefore, RemovedBefore

LEMMA AfterLast ==
  ASSUME NEW script, IsScript(script), NEW i \in Nat, i = Len(script) + 1
  PROVE  /\ MadeBefore(script, i) = MadeBy(script)
         /\ \A x : RemovedBefore(script, i, x) <=> \E s \in ToSet(script) : Removes(s, x)
<1>1. DOMAIN script = 1..(i - 1)
  BY DEF IsScript
<1>2. QED  BY <1>1 DEF MadeBefore, RemovedBefore, MadeBy, ToSet

LEMMA ExtraRows ==
  /\ Extra \subseteq MadeBy(Revisions[7].up) /\ Extra \subseteq Made[7]
  /\ \A x \in Extra : x[1] = "row" /\ x[2] \in {"permissions", "role_permissions"}
<1>1. Extra \subseteq MadeBy(Revisions[7].up)
  BY Chain DEF Extra
<1>2. MadeBy(Revisions[7].up) \subseteq Made[7]
  BY MadeStep
<1>3. QED  BY <1>1, <1>2, SeedScripts DEF IsRow

LEMMA ScriptIs ==
  ASSUME Course, Sound(work), Running
  PROVE  /\ at \in 1..(Len(Script) + 1) /\ IsScript(Script)
         /\ work.version \in 0..7 /\ run.target \in 0..7
         /\ \/ /\ run.dir = "up" /\ work.version + 1 \in 1..7
               /\ work.version < run.target
               /\ Script = Revisions[work.version + 1].up
               /\ \A s \in ToSet(Script) : UpStatement(s)
            \/ /\ run.dir = "down" /\ work.version \in 1..7
               /\ work.version > run.target
               /\ Script = Revisions[work.version].down
               /\ \A s \in ToSet(Script) : DownStatement(s)
<1>1. /\ work.version \in 0..7 /\ run.target \in 0..7
      /\ run.dir \in {"none", "up", "down"}
  BY Chain, Parts DEF Course, Sound
<1>2. run.dir # "none" /\ work.version # run.target /\ at \in 1..(Len(Script) + 1)
  BY DEF Course, Running
<1>3. CASE run.dir = "up"
  <2>1. work.version + 1 \in 1..7 /\ work.version < run.target
    BY <1>1, <1>2, <1>3 DEF Course
  <2>2. Script = Revisions[work.version + 1].up
    BY <1>3 DEF Script
  <2>3. QED  BY <1>1, <1>2, <1>3, <2>1, <2>2, Ups
<1>4. CASE run.dir = "down"
  <2>1. work.version \in 1..7 /\ work.version > run.target
    BY <1>1, <1>2, <1>4 DEF Course
  <2>2. Script = Revisions[work.version].down
    BY <1>4 DEF Script
  <2>3. QED  BY <1>1, <1>2, <1>4, <2>1, <2>2, Downs
<1>5. QED  BY <1>1, <1>2, <1>3, <1>4

\* Nothing takes a user's role away but a drop of the table.
LEMMA RolesKept ==
  ASSUME NEW d, Sound(d), NEW s, UpStatement(s) \/ DownStatement(s),
         ~(s.do = "drop" /\ s.table = "user_roles")
  PROVE  d.rows.user_roles \subseteq After(d, s).rows.user_roles
<1> DEFINE e == After(d, s)
<1> HIDE DEF e
<1>1. Shape(d) /\ "user_roles" \in RowTables /\ "user_roles" \notin SeededTables
  BY DEF Sound, RowTables, SeededTables
<1>2. CASE s.do = "create"
  <2>1. s.table \in Names
    BY <1>2 DEF UpStatement, DownStatement, Removing
  <2>2. e.rows = d.rows
    BY <1>1, <1>2, <2>1, AfterCreate DEF e
  <2>3. QED  BY <2>2 DEF e
<1>3. CASE s.do \in {"addReference", "dropReference"}
  <2>1. e.rows = d.rows
    BY <1>1, <1>3, AfterReference DEF e
  <2>2. QED  BY <2>1 DEF e
<1>4. CASE s.do \in {"insert", "insertMissing", "delete", "lookUp"}
  <2>1. s.do = "lookUp" \/ s.table \in SeededTables
    BY <1>4 DEF UpStatement, DownStatement, Adding, Removing
  <2>2. e.rows = [t \in RowTables |->
                   IF t # s.table \/ s.do = "lookUp" THEN d.rows[t]
                   ELSE IF s.do = "delete" THEN d.rows[t] \ s.rows
                   ELSE d.rows[t] \union s.rows]
    BY <1>1, <1>4, AfterRows DEF e
  <2>3. e.rows["user_roles"] = d.rows["user_roles"]
    BY <1>1, <2>1, <2>2
  <2>4. QED  BY <2>3 DEF e
<1>5. CASE s.do = "drop"
  <2>1. e.rows = [t \in RowTables |-> IF t = s.table THEN {} ELSE d.rows[t]]
    BY <1>1, <1>5, AfterDrop DEF e
  <2>2. s.table # "user_roles"
    BY <1>5
  <2>3. e.rows["user_roles"] = d.rows["user_roles"]
    BY <1>1, <2>1, <2>2
  <2>4. QED  BY <2>3 DEF e
<1>6. QED  BY <1>2, <1>3, <1>4, <1>5 DEF UpStatement, DownStatement, Adding, Removing

ArePairs(A) == \A f \in A : f = <<f[1], f[2]>>

LEMMA TaggedPair ==
  ASSUME NEW A, ArePairs(A), NEW tag, NEW a, NEW b
  PROVE  <<tag, a, b>> \in Tagged(tag, A) <=> <<a, b>> \in A
<1>1. ASSUME <<a, b>> \in A
      PROVE  <<tag, a, b>> \in Tagged(tag, A)
  <2>1. <<tag, a, b>> = <<tag, <<a, b>>[1], <<a, b>>[2]>>
    OBVIOUS
  <2>2. QED  BY <1>1, <2>1 DEF Tagged
<1>2. ASSUME <<tag, a, b>> \in Tagged(tag, A)
      PROVE  <<a, b>> \in A
  <2>1. PICK f \in A : <<tag, a, b>> = <<tag, f[1], f[2]>>
    BY <1>2 DEF Tagged
  <2>2. f = <<a, b>>
    BY <2>1 DEF ArePairs
  <2>3. QED  BY <2>2
<1>3. QED  BY <1>1, <1>2

\* What a database has, thing by thing.
LEMMA ContentOf ==
  ASSUME NEW d, Sound(d)
  PROVE  /\ \A t : <<"table", t, t>> \in Content(d) <=> t \in d.tables
         /\ \A a, b : <<"reference", a, b>> \in Content(d) <=> <<a, b>> \in d.references
         /\ \A a, b : <<"key", a, b>> \in Content(d) <=> <<a, b>> \in d.keys
         /\ \A t, r : <<"row", t, r>> \in Content(d) <=> t \in SeededTables /\ r \in d.rows[t]
<1>1. /\ \A x \in Tagged("table", Same(d)) : x[1] = "table"
      /\ \A x \in Tagged("reference", d.references) : x[1] = "reference"
      /\ \A x \in Tagged("key", d.keys) : x[1] = "key"
      /\ \A x \in Tagged("row", Seeds(d)) : x[1] = "row"
  BY TagOf
<1>2. /\ \A a, b : <<"table", a, b>> \in Content(d) <=>
                     <<"table", a, b>> \in Tagged("table", Same(d))
      /\ \A a, b : <<"reference", a, b>> \in Content(d) <=>
                     <<"reference", a, b>> \in Tagged("reference", d.references)
      /\ \A a, b : <<"key", a, b>> \in Content(d) <=>
                     <<"key", a, b>> \in Tagged("key", d.keys)
      /\ \A a, b : <<"row", a, b>> \in Content(d) <=>
                     <<"row", a, b>> \in Tagged("row", Seeds(d))
  BY <1>1, ContentParts
<1>3. ArePairs(Same(d)) /\ ArePairs(d.references) /\ ArePairs(d.keys) /\ ArePairs(Seeds(d))
  BY DEF Same, Seeds, Sound, ArePairs
<1>4. /\ \A a, b : <<"table", a, b>> \in Tagged("table", Same(d)) <=> <<a, b>> \in Same(d)
      /\ \A a, b : <<"reference", a, b>> \in Tagged("reference", d.references) <=>
                     <<a, b>> \in d.references
      /\ \A a, b : <<"key", a, b>> \in Tagged("key", d.keys) <=> <<a, b>> \in d.keys
      /\ \A a, b : <<"row", a, b>> \in Tagged("row", Seeds(d)) <=> <<a, b>> \in Seeds(d)
  BY <1>3, TaggedPair, Zenon
<1>5. \A t : <<t, t>> \in Same(d) <=> t \in d.tables
  BY DEF Same
<1>6. \A t, r : <<t, r>> \in Seeds(d) <=> t \in SeededTables /\ r \in d.rows[t]
  BY DEF Seeds
<1>7. QED  BY <1>2, <1>4, <1>5, <1>6

\* When the table of the users' roles is dropped, nobody has one.
LEMMA NobodyHoldsARole ==
  ASSUME Sound(work), Progress, Running, run.dir = "down", work.version = 1,
         "user_roles" \in work.tables
  PROVE  work.rows.user_roles = {}
<1>1. \A x \in Content(work) : x \in Made[1] \union Extra
  BY DEF Progress
<1>2. \A r : r \notin work.rows.roles
  <2>1. SUFFICES ASSUME NEW r \in work.rows.roles
                 PROVE  FALSE
    OBVIOUS
  <2> DEFINE x == <<"row", "roles", r>>
  <2>2. "roles" \in SeededTables
    BY DEF SeededTables
  <2>3. x \in Content(work)
    BY <2>2, ContentOf
  <2>4. x \notin Extra
    BY ExtraRows
  <2>5. x \in Made[1]
    BY <1>1, <2>3, <2>4
  <2>6. IsPart(x, FoundationTables)
    BY <2>5, MadeStep, TableScripts
  <2>7. QED  BY <2>6 DEF IsPart
<1>3. \A row \in work.rows.user_roles : row[2] \in work.rows.roles
  BY DEF Sound, RolesHeld
<1>4. QED  BY <1>2, <1>3

LEMMA ExecuteKeeps ==
  ASSUME IInv, Execute
  PROVE  IInv'
<1> DEFINE s == Script[at]
<1>1. /\ Course /\ Sound(db) /\ Sound(work) /\ Has(db, Made[db.version]) /\ Progress
      /\ db.rows.user_roles \subseteq work.rows.user_roles
  BY DEF IInv
<1>2. /\ Running /\ at <= Len(Script) /\ ~Fails(work, s) /\ work' = After(work, s)
      /\ at' = at + 1 /\ db' = db /\ run' = run /\ restamped' = restamped
      /\ crashes' = crashes
  BY DEF Execute, InScript
<1>3. /\ at \in 1..(Len(Script) + 1) /\ IsScript(Script)
      /\ work.version \in 0..7 /\ run.target \in 0..7
      /\ \/ run.dir = "up" /\ \A st \in ToSet(Script) : UpStatement(st)
         \/ /\ run.dir = "down" /\ work.version \in 1..7
            /\ Script = Revisions[work.version].down
            /\ \A st \in ToSet(Script) : DownStatement(st)
  BY <1>1, <1>2, ScriptIs
<1>4. Len(Script) \in Nat /\ at \in 1..Len(Script)
  BY <1>2, <1>3 DEF IsScript
<1>5. s \in ToSet(Script)
  BY <1>3, <1>4, StatementIs
<1>6. UpStatement(s) \/ DownStatement(s)
  BY <1>3, <1>5
<1> HIDE DEF s
<1>7. Sound(work') /\ work'.version = work.version
  BY <1>1, <1>2, <1>6, SoundAfter
<1>8. Script' = Script /\ Running'
  BY <1>2, <1>7 DEF Script, Running
<1>9. Course'
  <2>1. at' \in 1..(Len(Script) + 1)
    BY <1>2, <1>3, <1>4
  <2>2. run # Idle
    BY <1>2 DEF Running
  <2>3. QED  BY <1>1, <1>2, <1>7, <1>8, <2>1, <2>2 DEF Course
<1>10. Extra' = Extra
  BY <1>2 DEF Extra
<1>11. /\ MadeBefore(Script, at + 1) = MadeBefore(Script, at) \union Makes(s)
       /\ \A x : RemovedBefore(Script, at + 1, x) <=> RemovedBefore(Script, at, x) \/ Removes(s, x)
  BY <1>4, BeforeNext DEF s
<1>12. ASSUME run.dir = "up"
       PROVE  Progress'
  <2>1. UpStatement(s)
    BY <1>3, <1>5, <1>12
  <2>2. Content(work') = Content(work) \union Makes(s)
    BY <1>1, <1>2, <2>1, ContentGrows DEF Sound, UpStatement
  <2>3. Has(work, Made[work.version] \union MadeBefore(Script, at))
    BY <1>1, <1>2, <1>12 DEF Progress
  <2> DEFINE least == Made[work.version] \union MadeBefore(Script, at + 1)
  <2>4. least \subseteq Content(work') /\ Content(work') \subseteq least \union Extra
    BY <1>11, <2>2, <2>3 DEF Has
  <2>5. (Made[work.version] \union MadeBefore(Script, at))' = least
    BY <1>2, <1>7, <1>8
  <2> HIDE DEF least
  <2>6. Has(work, Made[work.version] \union MadeBefore(Script, at))'
    BY <1>10, <2>4, <2>5 DEF Has
  <2>7. run'.dir = "up"
    BY <1>2, <1>12
  <2>8. QED  BY <1>8, <2>6, <2>7 DEF Progress
<1>13. ASSUME run.dir = "down"
       PROVE  Progress' /\ db'.rows.user_roles \subseteq work'.rows.user_roles
  <2>1. /\ DownStatement(s) /\ work.version \in 1..7
        /\ s \in ToSet(Revisions[work.version].down)
    BY <1>3, <1>5, <1>13
  <2>2. Content(work') = {x \in Content(work) : ~Removes(s, x)}
    <3>1. \A f \in work.references : f = <<f[1], f[2]>>
      BY <1>1 DEF Sound
    <3>2. QED  BY <1>1, <1>2, <2>1, <3>1, ContentShrinks DEF Sound, DownStatement
  <2>3. /\ \A x \in Made[work.version] : RemovedBefore(Script, at, x) \/ x \in Content(work)
        /\ \A x \in Content(work) :
             x \in Made[work.version] \union Extra /\ ~RemovedBefore(Script, at, x)
    BY <1>1, <1>2, <1>13 DEF Progress
  <2>4. /\ \A x \in Made[work.version] : RemovedBefore(Script, at + 1, x) \/ x \in Content(work')
        /\ \A x \in Content(work') :
             x \in Made[work.version] \union Extra /\ ~RemovedBefore(Script, at + 1, x)
    BY <1>11, <2>2, <2>3
  <2>5. /\ \A x \in Made[work'.version] : RemovedBefore(Script', at', x) \/ x \in Content(work')
        /\ \A x \in Content(work') :
             x \in Made[work'.version] \union Extra' /\ ~RemovedBefore(Script', at', x)
    BY <1>2, <1>7, <1>8, <1>10, <2>4
  <2>6. run'.dir = "down"
    BY <1>2, <1>13
  <2>7. Progress'
    BY <1>8, <2>5, <2>6 DEF Progress
  <2>8. CASE s.do = "drop" /\ s.table = "user_roles"
    <3>1. work.version = 1
      BY <2>1, <2>8, Downs
    <3>2. "user_roles" \in work.tables
      BY <1>2, <2>8 DEF Fails
    <3>3. work.rows.user_roles = {}
      BY <1>1, <1>2, <1>13, <3>1, <3>2, NobodyHoldsARole
    <3>4. QED  BY <1>1, <1>2, <2>7, <3>3
  <2>9. CASE ~(s.do = "drop" /\ s.table = "user_roles")
    <3>1. work.rows.user_roles \subseteq work'.rows.user_roles
      BY <1>1, <1>2, <1>6, <2>9, RolesKept
    <3>2. QED  BY <1>1, <1>2, <2>7, <3>1
  <2>10. QED  BY <2>8, <2>9
<1>14. run.dir = "up" => db'.rows.user_roles \subseteq work'.rows.user_roles
  <2>1. SUFFICES ASSUME run.dir = "up"
                 PROVE  db'.rows.user_roles \subseteq work'.rows.user_roles
    OBVIOUS
  <2>2. ~(s.do = "drop" /\ s.table = "user_roles")
    BY <1>3, <1>5, <2>1 DEF UpStatement, Adding
  <2>3. work.rows.user_roles \subseteq work'.rows.user_roles
    BY <1>1, <1>2, <1>6, <2>2, RolesKept
  <2>4. QED  BY <1>1, <1>2, <2>3
<1>15. Progress' /\ db'.rows.user_roles \subseteq work'.rows.user_roles
  BY <1>3, <1>12, <1>13, <1>14
<1>16. Sound(db)' /\ Has(db, Made[db.version])'
  BY <1>1, <1>2, <1>10 DEF Has
<1>17. QED  BY <1>7, <1>9, <1>15, <1>16 DEF IInv
-----------------------------------------------------------------------------
\* The revision changes, and a script starts.

LEMMA OtherVersion ==
  ASSUME NEW d, Sound(d), NEW v \in 0..7
  PROVE  LET e == [d EXCEPT !.version = v]
         IN  /\ Sound(e) /\ e.version = v /\ Content(e) = Content(d)
             /\ e.rows = d.rows /\ e.tables = d.tables
<1> DEFINE e == [d EXCEPT !.version = v]
<1>1. /\ d = Database(d.version, d.tables, d.references, d.keys, d.rows)
      /\ d.tables \subseteq Names /\ d.rows = [t \in RowTables |-> d.rows[t]]
  BY Parts DEF Sound
<1>2. e = Database(v, d.tables, d.references, d.keys, d.rows)
  BY <1>1 DEF Database
<1> HIDE DEF e
<1>3. /\ Shape(e) /\ e.version = v /\ e.tables = d.tables /\ e.references = d.references
      /\ e.keys = d.keys /\ e.rows = d.rows
  <2>1. v \in 0..Latest /\ d.tables \in SUBSET Names
    BY <1>1, Chain
  <2>2. QED  BY <1>1, <1>2, <2>1, Built
<1>4. Content(e) = Content(d)
  BY <1>3 DEF Content
<1>5. RolesHeld(e)
  BY <1>3 DEF Sound, RolesHeld
<1>6. Sound(e)
  BY <1>3, <1>5 DEF Sound
<1>7. QED  BY <1>3, <1>4, <1>6 DEF e

LEMMA Starts ==
  ASSUME at' = 1, Has(work, Made[work.version])', work'.version \in 0..7,
         run' \in [dir : {"none", "up", "down"}, target : 0..7],
         run'.dir = "none" => run' = Idle, run' = Idle => work' = db',
         run'.dir = "up" => work'.version <= run'.target,
         run'.dir = "down" => work'.version >= run'.target,
         restamped' \in BOOLEAN, crashes' \in 0..MaxCrashes
  PROVE  Course' /\ Progress'
<1>1. Progress'
  <2>1. MadeBefore(Script', 1) = {} /\ \A x : ~RemovedBefore(Script', 1, x)
    BY BeforeFirst
  <2>2. /\ Made[work'.version] \subseteq Content(work')
        /\ Content(work') \subseteq Made[work'.version] \union Extra'
    BY DEF Has
  <2>3. Has(work, Made[work.version] \union MadeBefore(Script, at))'
    BY <2>1, <2>2 DEF Has
  <2>4. /\ \A x \in Made[work'.version] : RemovedBefore(Script', at', x) \/ x \in Content(work')
        /\ \A x \in Content(work') :
             x \in Made[work'.version] \union Extra' /\ ~RemovedBefore(Script', at', x)
    BY <2>1, <2>2
  <2>5. QED  BY <2>3, <2>4 DEF Progress
<1>2. Running' => at' \in 1..(Len(Script') + 1)
  <2>1. SUFFICES ASSUME Running'
                 PROVE  Len(Script') \in Nat
    OBVIOUS
  <2>2. run' # Idle /\ work'.version # run'.target
    BY <2>1 DEF Running
  <2>3. run'.dir \in {"up", "down"} /\ run'.target \in 0..7
    BY <2>2
  <2>4. CASE run'.dir = "up"
    <3>1. work'.version + 1 \in 1..7
      BY <2>2, <2>3, <2>4
    <3>2. Script' = Revisions[work'.version + 1].up
      BY <2>4 DEF Script
    <3>3. QED  BY <3>1, <3>2, Ups
  <2>5. CASE run'.dir = "down"
    <3>1. work'.version \in 1..7
      BY <2>2, <2>3, <2>5
    <3>2. Script' = Revisions[work'.version].down
      BY <2>5 DEF Script
    <3>3. QED  BY <3>1, <3>2, Downs
  <2>6. QED  BY <2>3, <2>4, <2>5
<1>3. Course'
  BY <1>2, Chain DEF Course
<1>4. QED  BY <1>1, <1>3

LEMMA NextRevisionKeeps ==
  ASSUME IInv, NextRevision
  PROVE  IInv'
<1>1. /\ Course /\ Sound(db) /\ Sound(work) /\ Has(db, Made[db.version]) /\ Progress
      /\ db.rows.user_roles \subseteq work.rows.user_roles
  BY DEF IInv
<1> DEFINE v == IF run.dir = "up" THEN work.version + 1 ELSE work.version - 1
<1>2. /\ Running /\ at > Len(Script) /\ work' = [work EXCEPT !.version = v]
      /\ at' = 1 /\ db' = db /\ run' = run /\ restamped' = restamped /\ crashes' = crashes
  BY DEF NextRevision
<1>3. /\ at \in 1..(Len(Script) + 1) /\ IsScript(Script)
      /\ work.version \in 0..7 /\ run.target \in 0..7
      /\ \/ /\ run.dir = "up" /\ work.version + 1 \in 1..7
            /\ work.version < run.target
            /\ Script = Revisions[work.version + 1].up
         \/ /\ run.dir = "down" /\ work.version \in 1..7
            /\ work.version > run.target
            /\ Script = Revisions[work.version].down
  BY <1>1, <1>2, ScriptIs
<1>4. at \in Nat /\ at = Len(Script) + 1
  BY <1>2, <1>3 DEF IsScript
<1>5. v \in 0..7 /\ (run.dir = "up" => v <= run.target) /\ (run.dir = "down" => v >= run.target)
  BY <1>3
<1>6. Extra' = Extra
  BY <1>2 DEF Extra
<1>7. Made[v] \subseteq Content(work) /\ Content(work) \subseteq Made[v] \union Extra
  <2>1. CASE run.dir = "up"
    <3>1. Has(work, Made[work.version] \union MadeBefore(Script, at))
      BY <1>1, <1>2, <2>1 DEF Progress
    <3>2. MadeBefore(Script, at) = MadeBy(Revisions[work.version + 1].up)
      BY <1>3, <1>4, <2>1, AfterLast
    <3>3. Made[v] = Made[work.version] \union MadeBy(Revisions[v].up)
      BY <1>3, <2>1, MadeStep
    <3>4. QED  BY <2>1, <3>1, <3>2, <3>3 DEF Has
  <2>2. CASE run.dir = "down"
    <3>1. /\ \A x \in Made[work.version] : RemovedBefore(Script, at, x) \/ x \in Content(work)
          /\ \A x \in Content(work) :
               x \in Made[work.version] \union Extra /\ ~RemovedBefore(Script, at, x)
      BY <1>1, <1>2, <2>2 DEF Progress
    <3>2. work.version \in 1..7 /\ Script = Revisions[work.version].down
      BY <1>3, <2>2
    <3>3. \A x : RemovedBefore(Script, at, x) <=> Removed(work.version, x)
      BY <1>3, <1>4, <3>2, AfterLast DEF Removed
    <3>4. \A x \in Made[work.version] : Removed(work.version, x) <=> x \notin Made[v]
      BY <2>2, <3>2, DownUndoes
    <3>5. Made[v] \subseteq Made[work.version]
      BY <2>2, <3>2, MadeStep
    <3>6. QED  BY <3>1, <3>3, <3>4, <3>5
  <2>3. QED  BY <1>3, <2>1, <2>2
<1> HIDE DEF v
<1>8. /\ Sound(work') /\ work'.version = v /\ Content(work') = Content(work)
      /\ work'.rows = work.rows
  BY <1>1, <1>2, <1>5, OtherVersion
<1>9. Has(work, Made[work.version])'
  BY <1>6, <1>7, <1>8 DEF Has
<1>10. run # Idle
  BY <1>2 DEF Running
<1>11. Course' /\ Progress'
  BY <1>1, <1>2, <1>5, <1>8, <1>9, <1>10, Starts, Chain DEF Course
<1>12. Sound(db)' /\ Has(db, Made[db.version])'
  BY <1>1, <1>2, <1>6 DEF Has
<1>13. QED  BY <1>1, <1>2, <1>8, <1>11, <1>12 DEF IInv

LEMMA BeginKeeps ==
  ASSUME IInv, NEW v \in 0..Latest, NEW dir \in {"up", "down"}, Begin(dir, v)
  PROVE  IInv'
<1>1. /\ Course /\ Sound(db) /\ Has(db, Made[db.version])
  BY DEF IInv
<1>2. /\ IF dir = "up" THEN v > db.version ELSE v < db.version
      /\ run' = [dir |-> dir, target |-> v] /\ work' = db /\ at' = 1
      /\ db' = db /\ restamped' = restamped /\ crashes' = crashes
  BY DEF Begin
<1>3. db.version \in 0..7 /\ v \in 0..7
  BY <1>1, Chain, Parts DEF Sound
<1>4. Extra' = Extra
  BY <1>2 DEF Extra
<1>5. Has(work, Made[work.version])' /\ Has(db, Made[db.version])'
  BY <1>1, <1>2, <1>4 DEF Has
<1>6. /\ run' \in [dir : {"none", "up", "down"}, target : 0..7]
      /\ run'.dir = dir /\ run'.target = v
  BY <1>2, <1>3
<1>7. Course' /\ Progress'
  <2>1. /\ run'.dir = "up" => work'.version <= run'.target
        /\ run'.dir = "down" => work'.version >= run'.target
    BY <1>2, <1>3, <1>6
  <2>2. restamped' \in BOOLEAN /\ crashes' \in 0..MaxCrashes
    BY <1>1, <1>2 DEF Course
  <2>3. QED  BY <1>2, <1>3, <1>5, <1>6, <2>1, <2>2, Starts
<1>8. QED  BY <1>1, <1>2, <1>5, <1>7 DEF IInv

LEMMA RollBackKeeps ==
  ASSUME IInv, RollBack, crashes' \in 0..MaxCrashes
  PROVE  IInv'
<1>1. /\ Course /\ Sound(db) /\ Has(db, Made[db.version])
  BY DEF IInv
<1>2. /\ run' = Idle /\ work' = db /\ at' = 1 /\ db' = db /\ restamped' = restamped
  BY DEF RollBack
<1>3. db.version \in 0..7
  BY <1>1, Chain, Parts DEF Sound
<1>4. Extra' = Extra
  BY <1>2 DEF Extra
<1>5. Has(work, Made[work.version])' /\ Has(db, Made[db.version])'
  BY <1>1, <1>2, <1>4 DEF Has
<1>6. /\ run' \in [dir : {"none", "up", "down"}, target : 0..7] /\ run'.dir = "none"
  BY <1>2 DEF Idle
<1>7. Course' /\ Progress'
  <2>1. restamped' \in BOOLEAN
    BY <1>1, <1>2 DEF Course
  <2>2. QED  BY <1>2, <1>3, <1>5, <1>6, <2>1, Starts
<1>8. QED  BY <1>1, <1>2, <1>5, <1>7 DEF IInv

\* Before the first revision nothing is there, whatever seed was run twice.
LEMMA NothingAtFirst ==
  ASSUME NEW d, Sound(d), Content(d) \subseteq Made[0] \union Extra
  PROVE  Content(d) = {}
<1>1. \A x \in Content(d) : x[1] = "row"
  BY ExtraRows, MadeStep
<1>2. d.tables = {}
  <2>1. SUFFICES ASSUME NEW t \in d.tables
                 PROVE  FALSE
    OBVIOUS
  <2>2. <<"table", t, t>> \in Content(d)
    BY ContentOf
  <2>3. <<"table", t, t>>[1] = "row"
    BY <1>1, <2>2
  <2>4. QED  BY <2>3
<1>3. \A t \in SeededTables : d.rows[t] = {}
  BY <1>2 DEF Sound, SeededTables, RowTables
<1>4. Seeds(d) = {}
  BY <1>3 DEF Seeds
<1>5. \A x \in Tagged("table", Same(d)) \union Tagged("reference", d.references)
              \union Tagged("key", d.keys) : x[1] # "row"
  BY TagOf
<1>6. Tagged("row", Seeds(d)) = {}
  BY <1>4 DEF Tagged
<1>7. QED  BY <1>1, <1>5, <1>6, ContentParts

LEMMA CommitKeeps ==
  ASSUME IInv, Commit
  PROVE  IInv'
<1>1. /\ Course /\ Sound(work) /\ Progress
  BY DEF IInv
<1>2. /\ run # Idle /\ work.version = run.target /\ db' = work /\ run' = Idle /\ at' = 1
      /\ restamped' = (restamped /\ run.target \notin {0, Latest})
      /\ work' = work /\ crashes' = crashes
  BY DEF Commit
<1>3. work.version \in 0..7
  BY <1>1, Chain, Parts DEF Sound
<1>4. Made[work.version] \subseteq Content(work)
      /\ Content(work) \subseteq Made[work.version] \union Extra
  BY <1>1, <1>2 DEF Progress, Running, Has
<1>5. Content(work) \subseteq Made[work.version] \union Extra'
  <2>1. CASE restamped' = restamped
    BY <1>4, <2>1 DEF Extra
  <2>2. CASE run.target = 0
    BY <1>1, <1>2, <1>4, <2>2, NothingAtFirst
  <2>3. CASE run.target = 7
    BY <1>2, <1>4, <2>3, ExtraRows
  <2>4. QED  BY <1>1, <1>2, <2>1, <2>2, <2>3, Chain DEF Course
<1>6. Has(work, Made[work.version])' /\ Has(db, Made[db.version])'
  BY <1>2, <1>4, <1>5 DEF Has
<1>7. /\ run' \in [dir : {"none", "up", "down"}, target : 0..7] /\ run'.dir = "none"
  BY <1>2 DEF Idle
<1>8. Course' /\ Progress'
  <2>1. restamped' \in BOOLEAN /\ crashes' \in 0..MaxCrashes
    BY <1>1, <1>2 DEF Course
  <2>2. QED  BY <1>2, <1>3, <1>6, <1>7, <2>1, Starts
<1>9. QED  BY <1>1, <1>2, <1>6, <1>8 DEF IInv

LEMMA RestampKeeps ==
  ASSUME IInv, Restamp
  PROVE  IInv'
<1>1. /\ Course /\ Sound(db) /\ Has(db, Made[db.version])
  BY DEF IInv
<1>2. /\ run = Idle /\ db.version = 7 /\ db' = [db EXCEPT !.version = 6]
      /\ work' = db' /\ restamped' = TRUE /\ run' = run /\ at' = at /\ crashes' = crashes
  BY Chain DEF Restamp
<1>3. /\ Sound(db') /\ db'.version = 6 /\ Content(db') = Content(db)
      /\ db'.rows = db.rows
  <2>1. 6 \in 0..7
    OBVIOUS
  <2>2. QED  BY <1>1, <1>2, <2>1, OtherVersion
<1>4. Extra' = MadeBy(Revisions[7].up)
  BY <1>2, Chain DEF Extra
<1>5. Content(db) = Made[7]
  BY <1>1, <1>2, ExtraRows DEF Has
<1>6. Made[7] = Made[6] \union MadeBy(Revisions[7].up)
  BY MadeStep
<1>7. Has(work, Made[work.version])' /\ Has(db, Made[db.version])'
  BY <1>2, <1>3, <1>4, <1>5, <1>6 DEF Has
<1>8. at' = 1
  BY <1>1, <1>2 DEF Course, Running
<1>9. /\ run' \in [dir : {"none", "up", "down"}, target : 0..7] /\ run'.dir = "none"
  BY <1>2 DEF Idle
<1>10. Course' /\ Progress'
  <2>1. restamped' \in BOOLEAN /\ crashes' \in 0..MaxCrashes
    BY <1>1, <1>2 DEF Course
  <2>2. run' = Idle /\ work'.version \in 0..7
    BY <1>2, <1>3
  <2>3. QED  BY <1>2, <1>7, <1>8, <1>9, <2>1, <2>2, Starts
<1>11. QED  BY <1>2, <1>3, <1>7, <1>10 DEF IInv
-----------------------------------------------------------------------------
\* The application writes rows of tables that no script fills.

Written(d, rows) == [d EXCEPT !.rows = [t \in RowTables |-> d.rows[t] \union rows[t]]]

LEMMA WrittenIs ==
  ASSUME NEW d, Sound(d), NEW rows, \A t \in SeededTables : rows[t] = {},
         \A t \in RowTables : rows[t] # {} => t \in d.tables,
         \A row \in rows["user_roles"] : row[2] \in d.rows.roles
  PROVE  /\ Sound(Written(d, rows)) /\ Written(d, rows).version = d.version
         /\ Content(Written(d, rows)) = Content(d)
         /\ Written(d, rows).rows.user_roles = d.rows.user_roles \union rows["user_roles"]
<1> DEFINE W == [t \in RowTables |-> d.rows[t] \union rows[t]]
           e == [d EXCEPT !.rows = W]
<1>1. Written(d, rows) = e
  BY DEF Written
<1>2. W = [t \in RowTables |-> W[t]] /\ \A t \in RowTables : W[t] = d.rows[t] \union rows[t]
  OBVIOUS
<1> HIDE DEF W
<1>3. /\ d = Database(d.version, d.tables, d.references, d.keys, d.rows)
      /\ d.tables \in SUBSET Names /\ d.version \in 0..Latest
  BY Parts DEF Sound
<1>4. e = Database(d.version, d.tables, d.references, d.keys, W)
  BY <1>3 DEF Database
<1> HIDE DEF e
<1>5. /\ Shape(e) /\ e.version = d.version /\ e.tables = d.tables
      /\ e.references = d.references /\ e.keys = d.keys /\ e.rows = W
  BY <1>2, <1>3, <1>4, Built
<1>6. SeededTables \subseteq RowTables /\ "roles" \in SeededTables /\ "user_roles" \in RowTables
  BY DEF SeededTables, RowTables
<1>7. \A t \in SeededTables : e.rows[t] = d.rows[t]
  BY <1>2, <1>5, <1>6
<1>8. Content(e) = Content(d)
  BY <1>5, <1>7 DEF Content
<1>9. e.rows["user_roles"] = d.rows["user_roles"] \union rows["user_roles"]
  BY <1>2, <1>5, <1>6
<1>10. e.rows["roles"] = d.rows["roles"]
  BY <1>6, <1>7
<1>11. RolesHeld(e)
  BY <1>5, <1>9, <1>10 DEF RolesHeld, Sound
<1>12. \A t \in RowTables : e.rows[t] # {} => t \in e.tables
  BY <1>2, <1>5 DEF Sound
<1>13. Sound(e)
  BY <1>5, <1>11, <1>12 DEF Sound
<1>14. QED  BY <1>1, <1>5, <1>8, <1>9, <1>13

LEMMA WriteKeeps ==
  ASSUME IInv, NEW rows, Write(rows), \A t \in SeededTables : rows[t] = {},
         \A t \in RowTables : rows[t] # {} => t \in db.tables /\ t \in work.tables,
         \A row \in rows["user_roles"] : row[2] \in db.rows.roles /\ row[2] \in work.rows.roles
  PROVE  IInv' /\ db.rows.user_roles \subseteq db'.rows.user_roles
<1>1. /\ Course /\ Sound(db) /\ Sound(work) /\ Has(db, Made[db.version]) /\ Progress
      /\ db.rows.user_roles \subseteq work.rows.user_roles
  BY DEF IInv
<1>2. /\ db' = Written(db, rows) /\ work' = Written(work, rows)
      /\ run' = run /\ at' = at /\ restamped' = restamped /\ crashes' = crashes
  BY DEF Write, Written
<1>3. /\ Sound(db') /\ db'.version = db.version /\ Content(db') = Content(db)
      /\ db'.rows.user_roles = db.rows.user_roles \union rows["user_roles"]
  BY <1>1, <1>2, WrittenIs
<1>4. /\ Sound(work') /\ work'.version = work.version /\ Content(work') = Content(work)
      /\ work'.rows.user_roles = work.rows.user_roles \union rows["user_roles"]
  BY <1>1, <1>2, WrittenIs
<1>5. Script' = Script /\ (Running' <=> Running) /\ Extra' = Extra
  BY <1>2, <1>4 DEF Script, Running, Extra
<1>6. Course'
  BY <1>1, <1>2, <1>4, <1>5 DEF Course
<1>7. Progress'
  BY <1>1, <1>2, <1>4, <1>5 DEF Progress, Has
<1>8. Has(db, Made[db.version])'
  BY <1>1, <1>3, <1>5 DEF Has
<1>9. QED  BY <1>1, <1>3, <1>4, <1>6, <1>7, <1>8 DEF IInv

LEMMA FreeTables ==
  ASSUME NEW tables, Free(tables), NEW t \in tables
  PROVE  t \in db.tables /\ t \in work.tables /\ (t \in RowTables => db.rows[t] = work.rows[t])
BY DEF Free, Changed

LEMMA UseKeeps ==
  ASSUME IInv, Use
  PROVE  IInv' /\ db.rows.user_roles \subseteq db'.rows.user_roles
<1>0. NoRows = [t \in RowTables |-> {}]
  BY DEF NoRows
<1>1. ASSUME NEW u \in Users, SignUp(u)
      PROVE  IInv' /\ db.rows.user_roles \subseteq db'.rows.user_roles
  <2> DEFINE W == [NoRows EXCEPT !.users = {u}, !.user_roles = {<<u, SuperAdmin>>}]
  <2>1. Free(OwnedTables) /\ SuperAdmin \in db.rows.roles /\ Write(W)
    BY <1>1 DEF SignUp
  <2>2. /\ "users" \in OwnedTables /\ "user_roles" \in OwnedTables /\ "roles" \in OwnedTables
        /\ "roles" \in RowTables
    BY DEF OwnedTables, RowTables
  <2>3. SuperAdmin \in work.rows.roles
    BY <2>1, <2>2, FreeTables
  <2>4. W = [t \in RowTables |-> IF t = "users" THEN {u}
                                 ELSE IF t = "user_roles" THEN {<<u, SuperAdmin>>} ELSE {}]
    BY <1>0
  <2> HIDE DEF W
  <2>5. /\ \A t \in SeededTables : W[t] = {}
        /\ \A t \in RowTables : W[t] # {} => t \in {"users", "user_roles"}
        /\ W["user_roles"] = {<<u, SuperAdmin>>}
    BY <2>4 DEF SeededTables, RowTables
  <2>6. \A t \in RowTables : W[t] # {} => t \in db.tables /\ t \in work.tables
    BY <2>1, <2>2, <2>5, FreeTables
  <2>7. \A row \in W["user_roles"] : row[2] \in db.rows.roles /\ row[2] \in work.rows.roles
    BY <2>1, <2>3, <2>5
  <2>8. QED  BY <2>1, <2>5, <2>6, <2>7, WriteKeeps
<1>2. ASSUME NEW u \in Users, NEW roles \in SUBSET AllRoles, AddUser(u, roles)
      PROVE  IInv' /\ db.rows.user_roles \subseteq db'.rows.user_roles
  <2> DEFINE R == {<<u, r>> : r \in roles}
             W == [NoRows EXCEPT !.users = {u}, !.user_roles = R]
             T == {"companies", "branches", "users", "user_branches", "user_roles", "roles"}
  <2>1. Free(T) /\ roles \subseteq db.rows.roles /\ Write(W)
    BY <1>2 DEF AddUser
  <2>2. "users" \in T /\ "user_roles" \in T /\ "roles" \in T /\ "roles" \in RowTables
    BY DEF RowTables
  <2>3. \A row \in R : row[2] \in roles
    OBVIOUS
  <2> HIDE DEF R, T
  <2>4. roles \subseteq work.rows.roles
    BY <2>1, <2>2, FreeTables
  <2>5. W = [t \in RowTables |-> IF t = "users" THEN {u}
                                 ELSE IF t = "user_roles" THEN R ELSE {}]
    BY <1>0
  <2> HIDE DEF W
  <2>6. /\ \A t \in SeededTables : W[t] = {}
        /\ \A t \in RowTables : W[t] # {} => t \in {"users", "user_roles"}
        /\ W["user_roles"] = R
    BY <2>5 DEF SeededTables, RowTables
  <2>7. \A t \in RowTables : W[t] # {} => t \in db.tables /\ t \in work.tables
    BY <2>1, <2>2, <2>6, FreeTables
  <2>8. \A row \in W["user_roles"] : row[2] \in db.rows.roles /\ row[2] \in work.rows.roles
    BY <2>1, <2>3, <2>4, <2>6
  <2>9. QED  BY <2>1, <2>6, <2>7, <2>8, WriteKeeps
<1>3. ASSUME NEW p \in Products, AddProduct(p)
      PROVE  IInv' /\ db.rows.user_roles \subseteq db'.rows.user_roles
  <2> DEFINE W == [NoRows EXCEPT !.products = {<<p, "default">>}]
             T == {"companies", "units", "products", "product_variants"}
  <2>1. Free(T) /\ Write(W)
    BY <1>3 DEF AddProduct
  <2>2. "products" \in T
    OBVIOUS
  <2> HIDE DEF T
  <2>3. W = [t \in RowTables |-> IF t = "products" THEN {<<p, "default">>} ELSE {}]
    BY <1>0
  <2> HIDE DEF W
  <2>4. /\ \A t \in SeededTables : W[t] = {}
        /\ \A t \in RowTables : W[t] # {} => t = "products"
        /\ W["user_roles"] = {}
    BY <2>3 DEF SeededTables, RowTables
  <2>5. \A t \in RowTables : W[t] # {} => t \in db.tables /\ t \in work.tables
    BY <2>1, <2>2, <2>4, FreeTables
  <2>6. QED  BY <2>1, <2>4, <2>5, WriteKeeps
<1>4. QED  BY <1>1, <1>2, <1>3 DEF Use
-----------------------------------------------------------------------------
LEMMA InitIsSound == Init => IInv
<1> SUFFICES ASSUME Init
             PROVE  IInv
  OBVIOUS
<1> DEFINE d == EmptyDatabase
           none == [t \in RowTables |-> {}]
<1>1. /\ db = d /\ work = d /\ run = Idle /\ at = 1 /\ restamped = FALSE /\ crashes = 0
  BY DEF Init
<1>2. d = Database(0, {}, {}, {}, none)
  BY DEF EmptyDatabase, Database
<1>3. none = [t \in RowTables |-> none[t]] /\ \A t \in RowTables : none[t] = {}
  OBVIOUS
<1> HIDE DEF d, none
<1>4. /\ Shape(d) /\ d.version = 0 /\ d.tables = {} /\ d.references = {} /\ d.keys = {}
      /\ d.rows = none
  <2>1. 0 \in 0..Latest /\ {} \in SUBSET Names
    BY Chain
  <2>2. QED  BY <1>2, <1>3, <2>1, Built
<1>5. Sound(d)
  BY <1>3, <1>4 DEF Sound, RolesHeld
<1>6. Content(d) = {}
  <2>1. Seeds(d) = {}
    BY <1>3, <1>4 DEF Seeds, SeededTables, RowTables
  <2>2. Same(d) = {}
    BY <1>4 DEF Same
  <2>3. \A tag : Tagged(tag, {}) = {}
    BY DEF Tagged
  <2>4. QED  BY <1>4, <2>1, <2>2, <2>3, ContentParts
<1>7. Has(db, Made[db.version]) /\ Has(work, Made[work.version])
  BY <1>1, <1>4, <1>6, MadeStep DEF Has
<1>8. ~Running
  BY <1>1 DEF Running
<1>9. Course
  <2>1. run \in [dir : {"none", "up", "down"}, target : 0..Latest] /\ run.dir = "none"
    BY <1>1, Chain DEF Idle
  <2>2. 0 \in 0..MaxCrashes
    BY BoundsAssumption
  <2>3. QED  BY <1>1, <1>8, <2>1, <2>2 DEF Course
<1>10. Progress
  BY <1>7, <1>8 DEF Progress
<1>11. QED  BY <1>1, <1>5, <1>7, <1>9, <1>10 DEF IInv

LEMMA StepKeeps == IInv /\ [Next]_vars => IInv'
<1> SUFFICES ASSUME IInv, [Next]_vars
             PROVE  IInv'
  OBVIOUS
<1>1. CASE UNCHANGED vars
  BY <1>1 DEF vars, IInv, Course, Running, Script, Sound, Shape, RolesHeld, Has, Extra, Progress
<1>2. ASSUME NEW v \in 0..Latest, NEW dir \in {"up", "down"}, Begin(dir, v)
      PROVE  IInv'
  BY <1>2, BeginKeeps
<1>3. CASE Execute
  BY <1>3, ExecuteKeeps
<1>4. CASE NextRevision
  BY <1>4, NextRevisionKeeps
<1>5. CASE Raise
  BY <1>5, RollBackKeeps DEF Raise, IInv, Course
<1>6. CASE Crash
  <2>1. crashes \in 0..MaxCrashes /\ crashes < MaxCrashes /\ crashes' = crashes + 1 /\ RollBack
    BY <1>6 DEF Crash, IInv, Course
  <2>2. crashes' \in 0..MaxCrashes
    BY <2>1, BoundsAssumption
  <2>3. QED  BY <2>1, <2>2, RollBackKeeps
<1>7. CASE Commit
  BY <1>7, CommitKeeps
<1>8. CASE Restamp
  BY <1>8, RestampKeeps
<1>9. CASE Use
  BY <1>9, UseKeeps
<1>10. QED
  BY <1>1, <1>2, <1>3, <1>4, <1>5, <1>6, <1>7, <1>8, <1>9 DEF Next, Migrate

\* The inductive invariant holds: revision and statement tell what the run has.
THEOREM Invariance == Spec => []IInv
BY InitIsSound, StepKeeps, PTL DEF Spec

\* Every reference is between tables that exist, and every row is in one.
THEOREM TypeIsOK == Spec => []TypeOK
<1>1. IInv => TypeOK
  <2> SUFFICES ASSUME IInv
               PROVE  TypeOK
    OBVIOUS
  <2>1. ASSUME NEW d, Sound(d)
        PROVE  DatabaseType(d)
    BY <2>1, Parts DEF Sound, DatabaseType, Names
  <2>2. DatabaseType(db) /\ DatabaseType(work)
    BY <2>1 DEF IInv
  <2>3. at \in 1..(Len(FoundationDrops) + 1)
    <3>0. Len(FoundationDrops) = 16
      BY Foundation, Zenon
    <3>1. CASE Running
      <4>1. at \in 1..(Len(Script) + 1) /\ Len(Script) \in 1..16
        BY <3>1, ScriptIs, Ups, Downs DEF IInv
      <4> DEFINE n == Len(Script)
      <4> HIDE DEF n
      <4>a. n \in 1..16 /\ at \in 1..(n + 1)
        BY <4>1 DEF n
      <4>2. at \in 1..17
        BY <4>a
      <4>3. Len(FoundationDrops) + 1 = 17
        BY <3>0
      <4>4. QED  BY <4>2, <4>3
    <3>2. CASE ~Running
      BY <3>0, <3>2 DEF IInv, Course
    <3>3. QED  BY <3>1, <3>2
  <2>4. QED  BY <2>2, <2>3 DEF IInv, Course, TypeOK
<1>2. QED  BY <1>1, Invariance, PTL

\* The recorded revision tells what the database holds.
THEOREM RevisionTells == Spec => []RevisionTellsSchema
<1>1. IInv => RevisionTellsSchema
  BY DEF IInv, Has, Extra, RevisionTellsSchema
<1>2. QED  BY <1>1, Invariance, PTL

\* No step takes a role away from a user who holds it.
THEOREM RolesStay == Spec => RolesAreKept
<1>1. IInv /\ [Next]_vars => [db.rows.user_roles \subseteq db'.rows.user_roles]_vars
  <2> SUFFICES ASSUME IInv, Next
               PROVE  db.rows.user_roles \subseteq db'.rows.user_roles
    BY DEF vars
  <2>1. CASE Use
    BY <2>1, UseKeeps
  <2>2. CASE Restamp
    <3>1. /\ db' = [db EXCEPT !.version = 6] /\ Sound(db) /\ 6 \in 0..7
      BY <2>2, Chain DEF Restamp, IInv
    <3>2. db'.rows = db.rows
      BY <3>1, OtherVersion
    <3>3. QED  BY <3>2
  <2>3. CASE Commit
    BY <2>3 DEF Commit, IInv
  <2>4. CASE db' = db
    BY <2>4
  <2>5. QED
    BY <2>1, <2>2, <2>3, <2>4
       DEF Next, Migrate, Begin, Execute, NextRevision, Raise, Crash, RollBack
<1>2. QED  BY <1>1, Invariance, PTL DEF Spec, RolesAreKept

\* A seed that makes a permission grants it to the owner's role.
LEMMA GrantsComeAlong ==
  ASSUME NEW v \in 0..7, NEW p, <<"row", "permissions", p>> \in Made[v]
  PROVE  <<"row", "role_permissions", <<SuperAdmin, p>>>> \in Made[v]
<1> DEFINE permission == <<"row", "permissions", p>>
           grant == <<"row", "role_permissions", <<SuperAdmin, p>>>>
<1>1. permission[1] = "row" /\ permission[2] = "permissions" /\ permission[3] = p
  OBVIOUS
<1>2. /\ \A tables : ~IsPart(permission, tables)
      /\ \A t, rows : IsRow(permission, t, rows) <=> t = "permissions" /\ p \in rows
  BY <1>1 DEF IsPart, IsRow
<1> HIDE DEF permission
<1>3. \A rows : <<SuperAdmin, p>> \in rows =>
        /\ grant \in Makes(Insert("role_permissions", rows))
        /\ grant \in Makes(InsertMissing("role_permissions", rows))
  <2>1. \A rows : /\ Makes(Insert("role_permissions", rows))
                       = Tagged("row", {"role_permissions"} \X rows)
                  /\ Makes(InsertMissing("role_permissions", rows))
                       = Tagged("row", {"role_permissions"} \X rows)
    BY DEF Makes, Insert, InsertMissing
  <2>2. ASSUME NEW rows, <<SuperAdmin, p>> \in rows
        PROVE  grant \in Tagged("row", {"role_permissions"} \X rows)
    <3>1. <<"role_permissions", <<SuperAdmin, p>>>> \in {"role_permissions"} \X rows
      BY <2>2
    <3>2. ArePairs({"role_permissions"} \X rows)
      BY DEF ArePairs
    <3>3. QED  BY <3>1, <3>2, TaggedPair
  <2>3. QED  BY <2>1, <2>2
<1> HIDE DEF grant
<1>4. ASSUME NEW u \in 1..7, permission \in MadeBy(Revisions[u].up)
      PROVE  grant \in MadeBy(Revisions[u].up)
  <2>1. CASE u \in {1, 3, 6}
    BY <1>2, <1>4, <2>1, TableScripts
  <2>2. CASE u = 4
    BY <1>2, <1>4, <2>2, SeedScripts
  <2>3. CASE u = 2
    <3>1. p = "identity"
      BY <1>2, <1>4, <2>3, SeedScripts
    <3>2. <<SuperAdmin, p>> \in DefaultGrants
      BY <3>1 DEF DefaultGrants
    <3>3. Insert("role_permissions", DefaultGrants) \in ToSet(Revisions[2].up)
      BY Seeding, Zenon
    <3>4. QED  BY <1>3, <2>3, <3>2, <3>3, MadeBySet
  <2>4. CASE u = 5
    <3>1. p = "catalogue"
      BY <1>2, <1>4, <2>4, SeedScripts
    <3>2. <<SuperAdmin, p>> \in CatalogueGrants
      BY <3>1 DEF CatalogueGrants
    <3>3. Insert("role_permissions", CatalogueGrants) \in ToSet(Revisions[5].up)
      BY Seeding, Zenon
    <3>4. QED  BY <1>3, <2>4, <3>2, <3>3, MadeBySet
  <2>5. CASE u = 7
    <3>1. p = "inventory"
      BY <1>2, <1>4, <2>5, SeedScripts
    <3>2. <<SuperAdmin, p>> \in InventoryGrants
      BY <3>1 DEF InventoryGrants
    <3>3. InsertMissing("role_permissions", InventoryGrants) \in ToSet(Revisions[7].up)
      BY Seeding, Zenon
    <3>4. QED  BY <1>3, <2>5, <3>2, <3>3, MadeBySet
  <2>6. QED  BY <2>1, <2>2, <2>3, <2>4, <2>5
<1>5. Made[v] = UNION {MadeBy(Revisions[u].up) : u \in 1..v}
  BY Chain DEF Made
<1>6. PICK u \in 1..v : permission \in MadeBy(Revisions[u].up)
  BY <1>5 DEF permission
<1>7. grant \in MadeBy(Revisions[u].up)
  BY <1>4, <1>6
<1>8. QED  BY <1>5, <1>7 DEF grant

\* Who signed up is granted every permission there is.
THEOREM OwnersMayDoAll == Spec => []OwnerMayDoAll
<1>1. IInv => OwnerMayDoAll
  <2> SUFFICES ASSUME IInv, ~restamped, NEW p \in db.rows.permissions
               PROVE  <<SuperAdmin, p>> \in db.rows.role_permissions
    BY DEF OwnerMayDoAll
  <2>1. Sound(db) /\ Content(db) = Made[db.version] /\ db.version \in 0..7
    BY Chain, Parts DEF IInv, Has, Extra, Sound
  <2>2. "permissions" \in SeededTables
    BY DEF SeededTables
  <2>3. <<"row", "permissions", p>> \in Made[db.version]
    BY <2>1, <2>2, ContentOf
  <2>4. <<"row", "role_permissions", <<SuperAdmin, p>>>> \in Content(db)
    BY <2>1, <2>3, GrantsComeAlong
  <2>5. QED  BY <2>1, <2>4, ContentOf
<1>2. QED  BY <1>1, Invariance, PTL

-----------------------------------------------------------------------------
\* A model declares what the creation of its table makes.

Creation(m) == Create(m.table, m.refs, m.keys)
DeclaredBy(models) == UNION {Makes(Creation(m)) : m \in models}

LEMMA CreationOf ==
  ASSUME NEW t, NEW refs, NEW keys
  PROVE  Creation(Declared(t, refs, keys)) = Create(t, refs, keys)
BY DEF Creation, Declared

LEMMA CreateMakes ==
  ASSUME NEW t, NEW refs, NEW keys
  PROVE  Makes(Create(t, refs, keys)) =
           Tagged("table", {<<t, t>>}) \union Tagged("reference", {t} \X refs)
             \union Tagged("key", {t} \X keys)
<1> DEFINE s == Create(t, refs, keys)
<1>1. s.do = "create" /\ s.table = t /\ s.refs = refs /\ s.keys = keys
  BY DEF Create
<1> HIDE DEF s
<1>2. Makes(s) = Tagged("table", {<<s.table, s.table>>})
                   \union Tagged("reference", {s.table} \X s.refs)
                   \union Tagged("key", {s.table} \X s.keys)
  BY <1>1 DEF Makes
<1>3. QED  BY <1>1, <1>2 DEF s

With(refs, r) == refs \union {r}
Together(s, u) == Makes(s) \union Makes(u)

\* A reference that is added later might as well be declared at once.
LEMMA AddedLater ==
  ASSUME NEW t, NEW refs, NEW keys, NEW r
  PROVE  Makes(Create(t, With(refs, r), keys)) =
           Together(Create(t, refs, keys), AddReference(t, r))
<1> DEFINE all == With(refs, r)
<1>1. Makes(AddReference(t, r)) = Tagged("reference", {<<t, r>>})
  <2> DEFINE s == AddReference(t, r)
  <2>1. s.do = "addReference" /\ s.table = t /\ s.ref = r
    BY DEF AddReference
  <2> HIDE DEF s
  <2>2. Makes(s) = Tagged("reference", {<<s.table, s.ref>>})
    BY <2>1 DEF Makes
  <2>3. QED  BY <2>1, <2>2 DEF s
<1>2. {t} \X all = ({t} \X refs) \union {<<t, r>>}
  BY DEF With
<1> HIDE DEF all
<1>3. Tagged("reference", {t} \X all) =
        Tagged("reference", {t} \X refs) \union Tagged("reference", {<<t, r>>})
  BY <1>2, TaggedUnion
<1>4. \A x : Makes(Create(t, x, keys)) =
               Tagged("table", {<<t, t>>}) \union Tagged("reference", {t} \X x)
                 \union Tagged("key", {t} \X keys)
  BY CreateMakes
<1> DEFINE T == Tagged("table", {<<t, t>>})
           R == Tagged("reference", {t} \X refs)
           A == Tagged("reference", {<<t, r>>})
           K == Tagged("key", {t} \X keys)
<1>5. /\ Makes(Create(t, refs, keys)) = T \union R \union K
      /\ Makes(Create(t, all, keys)) = T \union (R \union A) \union K
      /\ Makes(AddReference(t, r)) = A
  <2>1. Makes(Create(t, refs, keys)) = T \union R \union K
    BY <1>4
  <2>2. Makes(Create(t, all, keys)) = T \union (R \union A) \union K
    <3>1. Makes(Create(t, all, keys)) = T \union Tagged("reference", {t} \X all) \union K
      BY <1>4
    <3>2. Tagged("reference", {t} \X all) = R \union A
      BY <1>3
    <3> HIDE DEF T, R, A, K
    <3>3. QED  BY <3>1, <3>2
  <2>3. Makes(AddReference(t, r)) = A
    BY <1>1
  <2>4. QED  BY <2>1, <2>2, <2>3, Zenon
<1> HIDE DEF T, R, A, K
<1>6. Makes(Create(t, all, keys)) =
        Makes(Create(t, refs, keys)) \union Makes(AddReference(t, r))
  BY <1>5
<1>7. QED  BY <1>6 DEF all, Together

LEMMA CatalogueDeclared ==
  UNION {Makes(s) : s \in CatalogueStatements} = DeclaredBy(CatalogueModels)
<1> DEFINE a == Create("brands", {"companies"}, {"company_id, name"})
           b == Create("categories", {"companies", "categories"}, {"company_id, name"})
           c == Create("units", {"companies"}, {"company_id, abbreviation"})
           d == Create("products", {"units", "brands", "categories", "companies"},
                       {"company_id, sku"})
           e == Create("product_images", {"companies", "products"}, {})
           f == Create("product_variants", {"companies", "products"}, {"company_id, sku"})
           g == Create("product_barcodes", {"companies", "product_variants"},
                       {"company_id, barcode"})
           p == Declared("categories", {"companies", "categories"}, {"company_id, name"})
           q == Declared("brands", {"companies"}, {"company_id, name"})
           r == Declared("units", {"companies"}, {"company_id, abbreviation"})
           s == Declared("products", {"companies", "categories", "brands", "units"},
                         {"company_id, sku"})
           t == Declared("product_variants", {"companies", "products"}, {"company_id, sku"})
           u == Declared("product_barcodes", {"companies", "product_variants"},
                         {"company_id, barcode"})
           v == Declared("product_images", {"companies", "products"}, {})
<1>1. CatalogueStatements = {a, b, c, d, e, f, g} /\ CatalogueModels = {p, q, r, s, t, u, v}
  BY DEF CatalogueStatements, CatalogueModels
<1>2. Creation(p) = b
  BY CreationOf
<1>3. Creation(q) = a
  BY CreationOf
<1>4. Creation(r) = c
  BY CreationOf
<1>5. Creation(s) = d
  <2>1. {"companies", "categories", "brands", "units"} =
          {"units", "brands", "categories", "companies"}
    OBVIOUS
  <2>2. QED  BY <2>1, CreationOf, Zenon
<1>6. Creation(t) = f
  BY CreationOf
<1>7. Creation(u) = g
  BY CreationOf
<1>8. Creation(v) = e
  BY CreationOf
<1> HIDE DEF a, b, c, d, e, f, g, p, q, r, s, t, u, v
<1>9. QED  BY <1>1, <1>2, <1>3, <1>4, <1>5, <1>6, <1>7, <1>8 DEF DeclaredBy

LEMMA InventoryDeclared ==
  UNION {Makes(s) : s \in InventoryStatements} = DeclaredBy(InventoryModels)
<1> DEFINE a == Create("stock_levels", {"companies", "product_variants", "warehouses"},
                       {"company_id, warehouse_id, product_variant_id"})
           b == Create("stock_transfers", {"companies", "warehouses", "product_variants"},
                       {})
           c == Create("stock_transactions",
                       {"branches", "companies", "product_variants", "stock_transfers",
                        "warehouses"},
                       {})
           p == Declared("stock_levels", {"companies", "warehouses", "product_variants"},
                         {"company_id, warehouse_id, product_variant_id"})
           q == Declared("stock_transfers", {"companies", "warehouses", "product_variants"},
                         {})
           r == Declared("stock_transactions",
                         {"companies", "branches", "warehouses", "product_variants",
                          "stock_transfers"},
                         {})
<1>1. InventoryStatements = {a, b, c} /\ InventoryModels = {p, q, r}
  BY DEF InventoryStatements, InventoryModels
<1>2. Creation(p) = a
  <2>1. {"companies", "warehouses", "product_variants"} =
          {"companies", "product_variants", "warehouses"}
    OBVIOUS
  <2>2. QED  BY <2>1, CreationOf, Zenon
<1>3. Creation(q) = b
  BY CreationOf
<1>4. Creation(r) = c
  <2>1. {"companies", "branches", "warehouses", "product_variants", "stock_transfers"} =
          {"branches", "companies", "product_variants", "stock_transfers", "warehouses"}
    OBVIOUS
  <2>2. QED  BY <2>1, CreationOf, Zenon
<1> HIDE DEF a, b, c, p, q, r
<1>5. QED  BY <1>1, <1>2, <1>3, <1>4 DEF DeclaredBy

FoundationModels == CompanyModels \union IdentityModels \union AuthModels \union AuditModels

LEMMA FoundationDeclared ==
  UNION {Makes(s) : s \in FoundationStatements} = DeclaredBy(FoundationModels)
<1> DEFINE a == Create("companies", {}, {})
           b == Create("permissions", {}, {"code"})
           c == Create("branches", {"companies"}, {})
           d == Create("roles", {"companies"}, {"company_id, name"})
           e == Create("users", {"companies"}, {"email"})
           f == Create("audit_logs", {"companies", "users"}, {})
           g == Create("password_reset_tokens", {"users"}, {"token_hash"})
           h == Create("refresh_tokens", {"users"}, {"token_hash"})
           i == Create("role_permissions", {"permissions", "roles"},
                       {"role_id, permission_id"})
           j == Create("user_branches", {"branches", "users"}, {"user_id, branch_id"})
           k == Create("user_roles", {"roles", "users"}, {"user_id, role_id"})
           l == Create("warehouses", {"branches", "companies"}, {})
           m == AddReference("branches", "warehouses")
           n == AddReference("branches", "users")
           o == AddReference("users", "branches")
           p == AddReference("refresh_tokens", "refresh_tokens")
           m1 == Declared("companies", {}, {})
           m2 == Declared("branches", {"companies", "warehouses", "users"}, {})
           m3 == Declared("warehouses", {"companies", "branches"}, {})
           m4 == Declared("users", {"companies", "branches"}, {"email"})
           m5 == Declared("roles", {"companies"}, {"company_id, name"})
           m6 == Declared("permissions", {}, {"code"})
           m7 == Declared("role_permissions", {"roles", "permissions"},
                          {"role_id, permission_id"})
           m8 == Declared("user_roles", {"users", "roles"}, {"user_id, role_id"})
           m9 == Declared("user_branches", {"users", "branches"}, {"user_id, branch_id"})
           m10 == Declared("refresh_tokens", {"users", "refresh_tokens"}, {"token_hash"})
           m11 == Declared("password_reset_tokens", {"users"}, {"token_hash"})
           m12 == Declared("audit_logs", {"companies", "users"}, {})
<1>1. FoundationStatements = {a, b, c, d, e, f, g, h, i, j, k, l, m, n, o, p}
  BY DEF FoundationStatements
<1>2. FoundationModels = {m1, m2, m3, m4, m5, m6, m7, m8, m9, m10, m11, m12}
  <2>1. /\ CompanyModels = {m1, m2, m3} /\ IdentityModels = {m4, m5, m6, m7, m8, m9}
        /\ AuthModels = {m10, m11} /\ AuditModels = {m12}
    BY DEF CompanyModels, IdentityModels, AuthModels, AuditModels
  <2> HIDE DEF m1, m2, m3, m4, m5, m6, m7, m8, m9, m10, m11, m12
  <2>2. QED  BY <2>1 DEF FoundationModels
<1>3. Makes(Creation(m1)) = Makes(a)
  BY CreationOf
<1>4. Makes(Creation(m2)) = Makes(c) \union Makes(m) \union Makes(n)
  <2>1. {"companies", "warehouses", "users"} = With(With({"companies"}, "warehouses"), "users")
    BY DEF With
  <2>2. Creation(m2) = Create("branches", With(With({"companies"}, "warehouses"), "users"), {})
    BY <2>1, CreationOf, Zenon
  <2>3. Makes(Create("branches", With({"companies"}, "warehouses"), {})) =
          Together(Create("branches", {"companies"}, {}), m)
    BY AddedLater, Zenon
  <2>4. Makes(Create("branches", With(With({"companies"}, "warehouses"), "users"), {})) =
          Together(Create("branches", With({"companies"}, "warehouses"), {}), n)
    BY AddedLater, Zenon
  <2>5. QED  BY <2>2, <2>3, <2>4 DEF Together
<1>5. Makes(Creation(m3)) = Makes(l)
  <2>1. {"companies", "branches"} = {"branches", "companies"}
    OBVIOUS
  <2>2. QED  BY <2>1, CreationOf, Zenon
<1>6. Makes(Creation(m4)) = Makes(e) \union Makes(o)
  <2>1. {"companies", "branches"} = With({"companies"}, "branches")
    BY DEF With
  <2>2. Creation(m4) = Create("users", With({"companies"}, "branches"), {"email"})
    BY <2>1, CreationOf, Zenon
  <2>3. Makes(Create("users", With({"companies"}, "branches"), {"email"})) =
          Together(Create("users", {"companies"}, {"email"}), o)
    BY AddedLater, Zenon
  <2>4. QED  BY <2>2, <2>3 DEF Together
<1>7. Makes(Creation(m5)) = Makes(d)
  BY CreationOf
<1>8. Makes(Creation(m6)) = Makes(b)
  BY CreationOf
<1>9. Makes(Creation(m7)) = Makes(i)
  <2>1. {"roles", "permissions"} = {"permissions", "roles"}
    OBVIOUS
  <2>2. QED  BY <2>1, CreationOf, Zenon
<1>10. Makes(Creation(m8)) = Makes(k)
  <2>1. {"users", "roles"} = {"roles", "users"}
    OBVIOUS
  <2>2. QED  BY <2>1, CreationOf, Zenon
<1>11. Makes(Creation(m9)) = Makes(j)
  <2>1. {"users", "branches"} = {"branches", "users"}
    OBVIOUS
  <2>2. QED  BY <2>1, CreationOf, Zenon
<1>12. Makes(Creation(m10)) = Makes(h) \union Makes(p)
  <2>1. {"users", "refresh_tokens"} = With({"users"}, "refresh_tokens")
    BY DEF With
  <2>2. Creation(m10) = Create("refresh_tokens", With({"users"}, "refresh_tokens"), {"token_hash"})
    BY <2>1, CreationOf, Zenon
  <2>3. Makes(Create("refresh_tokens", With({"users"}, "refresh_tokens"), {"token_hash"})) =
          Together(Create("refresh_tokens", {"users"}, {"token_hash"}), p)
    BY AddedLater, Zenon
  <2>4. QED  BY <2>2, <2>3 DEF Together
<1>13. Makes(Creation(m11)) = Makes(g)
  BY CreationOf
<1>14. Makes(Creation(m12)) = Makes(f)
  BY CreationOf
<1> HIDE DEF a, b, c, d, e, f, g, h, i, j, k, l, m, n, o, p,
         m1, m2, m3, m4, m5, m6, m7, m8, m9, m10, m11, m12
<1>15. QED  BY <1>1, <1>2, <1>3, <1>4, <1>5, <1>6, <1>7, <1>8, <1>9, <1>10,
             <1>11, <1>12, <1>13, <1>14 DEF DeclaredBy

LEMMA ModelsAreDeclared ==
  DeclaredBy(Models) = MadeBy(Revisions[1].up) \union MadeBy(Revisions[3].up)
                         \union MadeBy(Revisions[6].up)
<1>1. /\ MadeBy(Revisions[1].up) = DeclaredBy(FoundationModels)
      /\ MadeBy(Revisions[3].up) = DeclaredBy(CatalogueModels)
      /\ MadeBy(Revisions[6].up) = DeclaredBy(InventoryModels)
  BY MadeBySet, Foundation, Growing, FoundationDeclared, CatalogueDeclared, InventoryDeclared
<1>2. Models = FoundationModels \union CatalogueModels \union InventoryModels
  BY DEF Models, FoundationModels
<1>3. DeclaredBy(Models) = DeclaredBy(FoundationModels) \union DeclaredBy(CatalogueModels)
                             \union DeclaredBy(InventoryModels)
  BY <1>2 DEF DeclaredBy
<1>4. QED  BY <1>1, <1>3

\* Besides rows, all revisions together make what the models declare.
LEMMA HeadMade ==
  /\ DeclaredBy(Models) \subseteq Made[7]
  /\ \A x \in Made[7] : x[1] = "row" \/ x \in DeclaredBy(Models)
<1> DEFINE M(v) == MadeBy(Revisions[v].up)
<1>1. Made[7] = M(1) \union M(2) \union M(3) \union M(4) \union M(5) \union M(6) \union M(7)
  <2>1. /\ Made[0] = {}
        /\ Made[1] = Made[0] \union M(1) /\ Made[2] = Made[1] \union M(2)
        /\ Made[3] = Made[2] \union M(3) /\ Made[4] = Made[3] \union M(4)
        /\ Made[5] = Made[4] \union M(5) /\ Made[6] = Made[5] \union M(6)
        /\ Made[7] = Made[6] \union M(7)
    <3>1. Made[0] = {} /\ \A v \in 1..7 : Made[v] = Made[v - 1] \union M(v)
      BY MadeStep
    <3> HIDE DEF M
    <3>2. QED  BY <3>1
  <2> HIDE DEF M
  <2>2. QED  BY <2>1
<1>2. /\ \A x \in M(2) : x[1] = "row"
      /\ \A x \in M(4) : x[1] = "row"
      /\ \A x \in M(5) : x[1] = "row"
      /\ \A x \in M(7) : x[1] = "row"
  BY SeedScripts DEF IsRow
<1>3. DeclaredBy(Models) = M(1) \union M(3) \union M(6)
  BY ModelsAreDeclared
<1> HIDE DEF M
<1>4. QED  BY <1>1, <1>2, <1>3

LEMMA DeclaredThings ==
  ASSUME NEW a, NEW b
  PROVE  /\ <<"table", a, a>> \in DeclaredBy(Models) <=> \E m \in Models : a = m.table
         /\ <<"reference", a, b>> \in DeclaredBy(Models) <=>
              \E m \in Models : a = m.table /\ b \in m.refs
         /\ <<"key", a, b>> \in DeclaredBy(Models) <=>
              \E m \in Models : a = m.table /\ b \in m.keys
<1>1. ASSUME NEW m
      PROVE  /\ <<"table", a, a>> \in Makes(Creation(m)) <=> a = m.table
             /\ <<"reference", a, b>> \in Makes(Creation(m)) <=> a = m.table /\ b \in m.refs
             /\ <<"key", a, b>> \in Makes(Creation(m)) <=> a = m.table /\ b \in m.keys
  <2> DEFINE T == {<<m.table, m.table>>}
             R == {m.table} \X m.refs
             K == {m.table} \X m.keys
  <2>1. Makes(Creation(m)) = Tagged("table", T) \union Tagged("reference", R)
                               \union Tagged("key", K)
    BY CreateMakes DEF Creation
  <2>2. ArePairs(T) /\ ArePairs(R) /\ ArePairs(K)
    BY DEF ArePairs
  <2>3. /\ <<a, a>> \in T <=> a = m.table
        /\ <<a, b>> \in R <=> a = m.table /\ b \in m.refs
        /\ <<a, b>> \in K <=> a = m.table /\ b \in m.keys
    OBVIOUS
  <2> HIDE DEF T, R, K
  <2>4. /\ <<"table", a, a>> \in Tagged("table", T) <=> <<a, a>> \in T
        /\ <<"reference", a, b>> \in Tagged("reference", R) <=> <<a, b>> \in R
        /\ <<"key", a, b>> \in Tagged("key", K) <=> <<a, b>> \in K
    BY <2>2, TaggedPair, Zenon
  <2>5. /\ \A x \in Tagged("table", T) : x[1] = "table"
        /\ \A x \in Tagged("reference", R) : x[1] = "reference"
        /\ \A x \in Tagged("key", K) : x[1] = "key"
    BY TagOf
  <2>6. /\ <<"table", a, a>> \in Makes(Creation(m)) <=> <<"table", a, a>> \in Tagged("table", T)
        /\ <<"reference", a, b>> \in Makes(Creation(m)) <=>
             <<"reference", a, b>> \in Tagged("reference", R)
        /\ <<"key", a, b>> \in Makes(Creation(m)) <=> <<"key", a, b>> \in Tagged("key", K)
    BY <2>1, <2>5
  <2>7. QED  BY <2>3, <2>4, <2>6
<1>2. \A x : x \in DeclaredBy(Models) <=> \E m \in Models : x \in Makes(Creation(m))
  BY DEF DeclaredBy
<1>3. QED  BY <1>1, <1>2

\* What `alembic check` looks for: at the head revision the database has the
\* tables, the references and the unique keys that the models declare, and no
\* others.
THEOREM HeadMatchesModels == Spec => []HeadIsModels
<1>1. IInv => HeadIsModels
  <2> SUFFICES ASSUME IInv, db.version = Latest
               PROVE  HeadIsModels
    BY DEF HeadIsModels
  <2>1. Sound(db) /\ db.version = 7
    BY Chain DEF IInv
  <2>2. Made[7] \subseteq Content(db) /\ Content(db) \subseteq Made[7]
    BY <2>1, ExtraRows DEF IInv, Has
  <2>3. \A x : x[1] # "row" => (x \in Content(db) <=> x \in DeclaredBy(Models))
    BY <2>2, HeadMade
  <2>4. /\ \A a : a \in db.tables <=> \E m \in Models : a = m.table
        /\ \A a, b : <<a, b>> \in db.references <=>
                       \E m \in Models : a = m.table /\ b \in m.refs
        /\ \A a, b : <<a, b>> \in db.keys <=>
                       \E m \in Models : a = m.table /\ b \in m.keys
    <3>1. /\ \A a : <<"table", a, a>>[1] # "row"
          /\ \A a, b : <<"reference", a, b>>[1] # "row"
          /\ \A a, b : <<"key", a, b>>[1] # "row"
      OBVIOUS
    <3>2. /\ \A a : <<"table", a, a>> \in Content(db) <=>
                      <<"table", a, a>> \in DeclaredBy(Models)
          /\ \A a, b : <<"reference", a, b>> \in Content(db) <=>
                         <<"reference", a, b>> \in DeclaredBy(Models)
          /\ \A a, b : <<"key", a, b>> \in Content(db) <=>
                         <<"key", a, b>> \in DeclaredBy(Models)
      BY <2>3, <3>1
    <3>3. /\ \A a : <<"table", a, a>> \in Content(db) <=> a \in db.tables
          /\ \A a, b : <<"reference", a, b>> \in Content(db) <=> <<a, b>> \in db.references
          /\ \A a, b : <<"key", a, b>> \in Content(db) <=> <<a, b>> \in db.keys
      BY <2>1, ContentOf
    <3>4. \A a : a \in db.tables <=> \E m \in Models : a = m.table
      BY <3>2, <3>3, DeclaredThings, Zenon
    <3>5. \A a, b : <<a, b>> \in db.references <=>
                      \E m \in Models : a = m.table /\ b \in m.refs
      BY <3>2, <3>3, DeclaredThings, Zenon
    <3>6. \A a, b : <<a, b>> \in db.keys <=> \E m \in Models : a = m.table /\ b \in m.keys
      BY <3>2, <3>3, DeclaredThings, Zenon
    <3>7. QED  BY <3>4, <3>5, <3>6
  <2>5. db.tables = {m.table : m \in Models}
    BY <2>4
  <2>6. db.references = UNION { {m.table} \X m.refs : m \in Models }
    <3>1. \A f \in db.references : f = <<f[1], f[2]>>
      BY <2>1 DEF Sound
    <3>2. \A f \in UNION { {m.table} \X m.refs : m \in Models } : f = <<f[1], f[2]>>
      OBVIOUS
    <3>3. \A a, b : <<a, b>> \in UNION { {m.table} \X m.refs : m \in Models } <=>
                      \E m \in Models : a = m.table /\ b \in m.refs
      OBVIOUS
    <3> DEFINE R == UNION { {m.table} \X m.refs : m \in Models }
    <3> HIDE DEF R
    <3>4. QED  BY <2>4, <3>1, <3>2, <3>3 DEF R
  <2>7. db.keys = UNION { {m.table} \X m.keys : m \in Models }
    <3>1. \A f \in db.keys : f = <<f[1], f[2]>>
      BY <2>1 DEF Sound
    <3>2. \A f \in UNION { {m.table} \X m.keys : m \in Models } : f = <<f[1], f[2]>>
      OBVIOUS
    <3>3. \A a, b : <<a, b>> \in UNION { {m.table} \X m.keys : m \in Models } <=>
                      \E m \in Models : a = m.table /\ b \in m.keys
      OBVIOUS
    <3>4. QED  BY <2>4, <3>1, <3>2, <3>3
  <2>8. QED  BY <2>5, <2>6, <2>7 DEF HeadIsModels
<1>2. QED  BY <1>1, Invariance, PTL
-----------------------------------------------------------------------------
\* When a statement does not fail.

Points(d, t, row, p) == t \in RowTables /\ row \in d.rows[t] /\ p \in PointsTo(t, row)

LEMMA WholeIf ==
  ASSUME NEW d,
         \A t, row, p : Points(d, t, row, p) =>
           <<t, p[1]>> \notin d.references \/ p[2] \in d.rows[p[1]]
  PROVE  ~Dangling(d)
BY DEF Dangling, Points

LEMMA WholeThen ==
  ASSUME NEW d, ~Dangling(d), NEW t, NEW row, NEW p, Points(d, t, row, p)
  PROVE  <<t, p[1]>> \notin d.references \/ p[2] \in d.rows[p[1]]
BY DEF Dangling, Points

\* What points to another row, and to what.
LEMMA PointsWhere ==
  ASSUME NEW d, NEW t, NEW row, NEW p, Points(d, t, row, p)
  PROVE  \/ t = "role_permissions" /\ p[1] = "roles" /\ p[2] = row[1]
         \/ t = "role_permissions" /\ p[1] = "permissions" /\ p[2] = row[2]
         \/ t = "user_roles" /\ p[1] = "users" /\ p[2] = row[1]
         \/ t = "user_roles" /\ p[1] = "roles" /\ p[2] = row[2]
         \/ t = "products" /\ p[1] = "units" /\ p[2] = row[2]
<1>1. CASE t = "role_permissions"
  BY <1>1 DEF Points, PointsTo
<1>2. CASE t = "user_roles"
  BY <1>2 DEF Points, PointsTo
<1>3. CASE t = "products"
  BY <1>3 DEF Points, PointsTo
<1>4. CASE t \notin {"role_permissions", "user_roles", "products"}
  BY <1>4 DEF Points, PointsTo
<1>5. QED  BY <1>1, <1>2, <1>3, <1>4

LEMMA CreateSucceeds ==
  ASSUME NEW d, Sound(d), ~Dangling(d), NEW s, s.do = "create", s.table \in Names,
         s.table \notin d.tables, s.refs \subseteq d.tables \union {s.table}
  PROVE  ~Fails(d, s)
<1> DEFINE e == After(d, s)
<1>1. /\ e.references = d.references \union ({s.table} \X s.refs) /\ e.rows = d.rows
  BY AfterCreate DEF Sound
<1>2. ~Dangling(e)
  <2> HIDE DEF e
  <2>1. ASSUME NEW t, NEW row, NEW p, Points(e, t, row, p)
        PROVE  <<t, p[1]>> \notin e.references \/ p[2] \in e.rows[p[1]]
    <3>1. Points(d, t, row, p)
      BY <1>1, <2>1 DEF Points
    <3>2. t # s.table
      BY <3>1 DEF Points, Sound
    <3>3. <<t, p[1]>> \in e.references => <<t, p[1]>> \in d.references
      BY <1>1, <3>2
    <3>4. QED  BY <1>1, <3>1, <3>3, WholeThen
  <2>2. QED  BY <2>1, WholeIf
<1>3. QED  BY <1>2 DEF Fails, Duplicates

LEMMA AddReferenceSucceeds ==
  ASSUME NEW d, Sound(d), ~Dangling(d), NEW s, s.do = "addReference",
         s.table \notin {"role_permissions", "user_roles", "products"},
         <<s.table, s.ref>> \notin d.references, s.table \in d.tables, s.ref \in d.tables
  PROVE  ~Fails(d, s)
<1> DEFINE e == After(d, s)
<1>1. e.references = d.references \union {<<s.table, s.ref>>} /\ e.rows = d.rows
  BY AfterReference DEF Sound
<1>2. ~Dangling(e)
  <2> HIDE DEF e
  <2>1. ASSUME NEW t, NEW row, NEW p, Points(e, t, row, p)
        PROVE  <<t, p[1]>> \notin e.references \/ p[2] \in e.rows[p[1]]
    <3>1. Points(d, t, row, p)
      BY <1>1, <2>1 DEF Points
    <3>2. t # s.table
      BY <3>1, PointsWhere
    <3>3. <<t, p[1]>> \in e.references => <<t, p[1]>> \in d.references
      BY <1>1, <3>2
    <3>4. QED  BY <1>1, <3>1, <3>3, WholeThen
  <2>2. QED  BY <2>1, WholeIf
<1>3. QED  BY <1>2 DEF Fails, Duplicates

LEMMA DropReferenceSucceeds ==
  ASSUME NEW d, Sound(d), ~Dangling(d), NEW s, s.do = "dropReference",
         <<s.table, s.ref>> \in d.references
  PROVE  ~Fails(d, s)
<1> DEFINE e == After(d, s)
<1>1. e.references = d.references \ {<<s.table, s.ref>>} /\ e.rows = d.rows
  BY AfterReference DEF Sound
<1>2. ~Dangling(e)
  <2> HIDE DEF e
  <2>1. ASSUME NEW t, NEW row, NEW p, Points(e, t, row, p)
        PROVE  <<t, p[1]>> \notin e.references \/ p[2] \in e.rows[p[1]]
    <3>1. Points(d, t, row, p)
      BY <1>1, <2>1 DEF Points
    <3>2. QED  BY <1>1, <3>1, WholeThen
  <2>2. QED  BY <2>1, WholeIf
<1>3. QED  BY <1>2 DEF Fails, Duplicates

LEMMA DropSucceeds ==
  ASSUME NEW d, Sound(d), ~Dangling(d), NEW s, s.do = "drop", s.table \in d.tables,
         \A f \in d.references : f[2] = s.table => f[1] = s.table
  PROVE  ~Fails(d, s)
<1> DEFINE e == After(d, s)
<1>1. /\ e.references = {f \in d.references : f[1] # s.table}
      /\ e.rows = [t \in RowTables |-> IF t = s.table THEN {} ELSE d.rows[t]]
  BY AfterDrop DEF Sound
<1>2. ~Dangling(e)
  <2> HIDE DEF e
  <2>1. ASSUME NEW t, NEW row, NEW p, Points(e, t, row, p), <<t, p[1]>> \in e.references
        PROVE  p[2] \in e.rows[p[1]]
    <3>1. t \in RowTables /\ t # s.table /\ Points(d, t, row, p)
      BY <1>1, <2>1 DEF Points
    <3>2. <<t, p[1]>> \in d.references
      BY <1>1, <2>1
    <3>3. p[1] # s.table
      <4>1. <<t, p[1]>>[1] = t /\ <<t, p[1]>>[2] = p[1]
        OBVIOUS
      <4>2. QED  BY <3>1, <3>2, <4>1
    <3>4. p[1] \in RowTables
      BY <3>1, PointsWhere DEF RowTables
    <3>5. p[2] \in d.rows[p[1]]
      BY <3>1, <3>2, WholeThen
    <3>6. e.rows[p[1]] = d.rows[p[1]]
      BY <1>1, <3>3, <3>4
    <3>7. QED  BY <3>5, <3>6
  <2>2. QED  BY <2>1, WholeIf
<1>3. QED  BY <1>2 DEF Fails, Duplicates

LEMMA InsertSucceeds ==
  ASSUME NEW d, Sound(d), ~Dangling(d), NEW s, s.do \in {"insert", "insertMissing"},
         s.table \in SeededTables, s.table \in d.tables,
         s.do = "insert" => s.rows \intersect d.rows[s.table] = {},
         s.table = "role_permissions" =>
           \A row \in s.rows : row[1] \in d.rows["roles"] /\ row[2] \in d.rows["permissions"]
  PROVE  ~Fails(d, s)
<1> DEFINE e == After(d, s)
<1>1. /\ e.references = d.references
      /\ e.rows = [t \in RowTables |-> IF t # s.table THEN d.rows[t] ELSE d.rows[t] \union s.rows]
  BY AfterRows DEF Sound
<1>2. ~Dangling(e)
  <2> HIDE DEF e
  <2>0. \A t \in RowTables : d.rows[t] \subseteq e.rows[t]
    BY <1>1
  <2>1. ASSUME NEW t, NEW row, NEW p, Points(e, t, row, p), <<t, p[1]>> \in e.references
        PROVE  p[2] \in e.rows[p[1]]
    <3>0. p[1] \in RowTables
      BY <2>1, PointsWhere DEF RowTables
    <3>1. CASE row \in d.rows[t]
      <4>1. Points(d, t, row, p)
        BY <2>1, <3>1 DEF Points
      <4>2. p[2] \in d.rows[p[1]]
        BY <1>1, <2>1, <4>1, WholeThen
      <4>3. QED  BY <2>0, <3>0, <4>2
    <3>2. CASE row \notin d.rows[t]
      <4>1. t = s.table /\ row \in s.rows
        BY <1>1, <2>1, <3>2 DEF Points
      <4>2. t = "role_permissions"
        BY <2>1, <4>1, PointsWhere DEF SeededTables
      <4>3. row[1] \in d.rows["roles"] /\ row[2] \in d.rows["permissions"]
        BY <4>1, <4>2
      <4>4. \/ p[1] = "roles" /\ p[2] = row[1]
            \/ p[1] = "permissions" /\ p[2] = row[2]
        BY <2>1, <4>2, PointsWhere
      <4>5. p[2] \in d.rows[p[1]]
        BY <4>3, <4>4
      <4>6. QED  BY <2>0, <3>0, <4>5
    <3>3. QED  BY <3>1, <3>2
  <2>2. QED  BY <2>1, WholeIf
<1>3. ~Duplicates(d, s)
  BY DEF Duplicates
<1>4. QED  BY <1>2, <1>3 DEF Fails

LEMMA LookUpSucceeds ==
  ASSUME NEW d, ~Dangling(d), NEW s, s.do = "lookUp", s.table \in d.tables,
         s.rows \subseteq d.rows[s.table]
  PROVE  ~Fails(d, s)
<1>1. After(d, s) = d
  BY DEF After
<1>2. ~Duplicates(d, s)
  BY DEF Duplicates
<1>3. QED  BY <1>1, <1>2 DEF Fails

LEMMA DeleteSucceeds ==
  ASSUME NEW d, Sound(d), ~Dangling(d), NEW s, s.do = "delete",
         s.table \in SeededTables, s.table \in d.tables,
         \A t, row, p : Points(d, t, row, p) /\ p[1] = s.table => p[2] \notin s.rows
  PROVE  ~Fails(d, s)
<1> DEFINE e == After(d, s)
<1>1. /\ e.references = d.references
      /\ e.rows = [t \in RowTables |-> IF t # s.table THEN d.rows[t] ELSE d.rows[t] \ s.rows]
  BY AfterRows DEF Sound
<1>2. ~Dangling(e)
  <2> HIDE DEF e
  <2>1. ASSUME NEW t, NEW row, NEW p, Points(e, t, row, p), <<t, p[1]>> \in e.references
        PROVE  p[2] \in e.rows[p[1]]
    <3>1. Points(d, t, row, p)
      BY <1>1, <2>1 DEF Points
    <3>2. p[1] \in RowTables
      BY <2>1, PointsWhere DEF RowTables
    <3>3. p[2] \in d.rows[p[1]]
      BY <1>1, <2>1, <3>1, WholeThen
    <3>4. p[1] = s.table => p[2] \notin s.rows
      BY <3>1
    <3>5. QED  BY <1>1, <3>2, <3>3, <3>4
  <2>2. QED  BY <2>1, WholeIf
<1>3. ~Duplicates(d, s)
  BY DEF Duplicates
<1>4. QED  BY <1>2, <1>3 DEF Fails

-----------------------------------------------------------------------------
\* The statements of the scripts that make tables, at their places.

\* All tables in the order in which the scripts create them; they are dropped in
\* the reverse order.
TableOrder ==
  << "companies", "permissions", "branches", "roles", "users", "audit_logs",
     "password_reset_tokens", "refresh_tokens", "role_permissions", "user_branches",
     "user_roles", "warehouses",
     "brands", "categories", "units", "products", "product_images", "product_variants",
     "product_barcodes",
     "stock_levels", "stock_transfers", "stock_transactions" >>

FirstTables(k) == {TableOrder[m] : m \in 1..k}

\* The references that the first script adds when its tables are there.
Deferred ==
  << <<"branches", "warehouses">>, <<"branches", "users">>, <<"users", "branches">>,
     <<"refresh_tokens", "refresh_tokens">> >>

\* How many tables there are before a script that creates tables, and how many
\* it creates.
Before(v) == IF v = 1 THEN 0 ELSE IF v = 3 THEN 12 ELSE 19
Creates(v) == IF v = 1 THEN 12 ELSE IF v = 3 THEN 7 ELSE 3

LEMMA Order ==
  /\ \A m, n \in 1..22 : TableOrder[m] = TableOrder[n] => m = n
  /\ Names = FirstTables(22)
  /\ FoundationTables = {TableOrder[m] : m \in 1..12}
  /\ CatalogueTableNames = {TableOrder[m] : m \in 13..19}
  /\ InventoryTableNames = {TableOrder[m] : m \in 20..22}
<1>1. \A m, n \in 1..22 : TableOrder[m] = TableOrder[n] => m = n
  BY DEF TableOrder
<1>2. FoundationTables = {TableOrder[m] : m \in 1..12}
  BY DEF TableOrder, FoundationTables
<1>3. CatalogueTableNames = {TableOrder[m] : m \in 13..19}
  BY DEF TableOrder, CatalogueTableNames
<1>4. InventoryTableNames = {TableOrder[m] : m \in 20..22}
  BY DEF TableOrder, InventoryTableNames
<1>5. Names = FirstTables(22)
  <2>1. 1..22 = (1..12) \union (13..19) \union (20..22)
    OBVIOUS
  <2>2. QED  BY <1>2, <1>3, <1>4, <2>1, NamesAre DEF FirstTables
<1>6. QED  BY <1>1, <1>2, <1>3, <1>4, <1>5

\* u is what s has, followed by what t has.
Joins(u, s, t) ==
  /\ \A i \in 1..Len(s) : u[i] = s[i]
  /\ \A i \in 1..Len(t) : u[Len(s) + i] = t[i]

LEMMA Appended ==
  ASSUME NEW s, NEW t, IsScript(s), IsScript(t)
  PROVE  Joins(s \o t, s, t)
<1> DEFINE S == ToSet(s) \union ToSet(t)
<1>0. ToSet(s) \subseteq S /\ ToSet(t) \subseteq S
  OBVIOUS
<1> HIDE DEF S
<1>1. s \in Seq(S) /\ t \in Seq(S)
  BY <1>0 DEF IsScript
<1>2. QED  BY <1>1 DEF Joins

LEMMA DroppingAt ==
  ASSUME NEW tables, IsScript(tables), NEW i \in 1..Len(tables)
  PROVE  DropAll(tables)[i] = Drop(tables[i])
<1>1. DOMAIN tables = 1..Len(tables) /\ Len(tables) \in Nat
  BY DEF IsScript
<1>2. DropAll(tables) = [j \in 1..Len(tables) |-> Drop(tables[j])]
  BY <1>1 DEF DropAll
<1>3. QED  BY <1>2

\* The n-th statement creates the n-th table, which refers to tables that are
\* there by then.
CreatesNth(s, n) ==
  /\ s.do = "create" /\ s.table = TableOrder[n] /\ s.refs \subseteq FirstTables(n)
  /\ \A i \in 1..4 : s.table = Deferred[i][1] => Deferred[i][2] \notin s.refs

LEMMA TableAt ==
  /\ TableOrder[1] = "companies"
  /\ TableOrder[2] = "permissions"
  /\ TableOrder[3] = "branches"
  /\ TableOrder[4] = "roles"
  /\ TableOrder[5] = "users"
  /\ TableOrder[6] = "audit_logs"
  /\ TableOrder[7] = "password_reset_tokens"
  /\ TableOrder[8] = "refresh_tokens"
  /\ TableOrder[9] = "role_permissions"
  /\ TableOrder[10] = "user_branches"
  /\ TableOrder[11] = "user_roles"
  /\ TableOrder[12] = "warehouses"
  /\ TableOrder[13] = "brands"
  /\ TableOrder[14] = "categories"
  /\ TableOrder[15] = "units"
  /\ TableOrder[16] = "products"
  /\ TableOrder[17] = "product_images"
  /\ TableOrder[18] = "product_variants"
  /\ TableOrder[19] = "product_barcodes"
  /\ TableOrder[20] = "stock_levels"
  /\ TableOrder[21] = "stock_transfers"
  /\ TableOrder[22] = "stock_transactions"
BY DEF TableOrder

LEMMA DeferredAt ==
  /\ Deferred[1] = <<"branches", "warehouses">> /\ Deferred[2] = <<"branches", "users">>
  /\ Deferred[3] = <<"users", "branches">> /\ Deferred[4] = <<"refresh_tokens", "refresh_tokens">>
BY DEF Deferred

LEMMA CreatesOf ==
  ASSUME NEW n \in 1..22, NEW t, NEW refs, NEW keys, t = TableOrder[n],
         refs \subseteq FirstTables(n), t = "branches" => refs = {"companies"},
         t = "users" => refs = {"companies"}, t = "refresh_tokens" => refs = {"users"}
  PROVE  CreatesNth(Create(t, refs, keys), n)
<1>1. \A i \in 1..4 : t = Deferred[i][1] => Deferred[i][2] \notin refs
  BY DeferredAt
<1>2. QED  BY <1>1 DEF CreatesNth, Create

LEMMA FoundationNth ==
  /\ CreatesNth(Create("companies", {}, {}), 1)
  /\ CreatesNth(Create("permissions", {}, {"code"}), 2)
  /\ CreatesNth(Create("branches", {"companies"}, {}), 3)
  /\ CreatesNth(Create("roles", {"companies"}, {"company_id, name"}), 4)
  /\ CreatesNth(Create("users", {"companies"}, {"email"}), 5)
  /\ CreatesNth(Create("audit_logs", {"companies", "users"}, {}), 6)
  /\ CreatesNth(Create("password_reset_tokens", {"users"}, {"token_hash"}), 7)
  /\ CreatesNth(Create("refresh_tokens", {"users"}, {"token_hash"}), 8)
  /\ CreatesNth(Create("role_permissions", {"permissions", "roles"}, {"role_id, permission_id"}), 9)
  /\ CreatesNth(Create("user_branches", {"branches", "users"}, {"user_id, branch_id"}), 10)
  /\ CreatesNth(Create("user_roles", {"roles", "users"}, {"user_id, role_id"}), 11)
  /\ CreatesNth(Create("warehouses", {"branches", "companies"}, {}), 12)
<1>0. \A n \in 1..22 : \A m \in 1..n : TableOrder[m] \in FirstTables(n)
  BY DEF FirstTables
<1>1. CreatesNth(Create("companies", {}, {}), 1)
  <2>1. {} \subseteq FirstTables(1)
    BY <1>0, TableAt
  <2> DEFINE refs == {}
             keys == {}
  <2>a. refs \subseteq FirstTables(1)
    BY <2>1
  <2> HIDE DEF refs, keys
  <2>2. CreatesNth(Create("companies", refs, keys), 1)
    BY <2>a, TableAt, CreatesOf
  <2>3. QED  BY <2>2 DEF refs, keys
<1>2. CreatesNth(Create("permissions", {}, {"code"}), 2)
  <2>1. {} \subseteq FirstTables(2)
    BY <1>0, TableAt
  <2> DEFINE refs == {}
             keys == {"code"}
  <2>a. refs \subseteq FirstTables(2)
    BY <2>1
  <2> HIDE DEF refs, keys
  <2>2. CreatesNth(Create("permissions", refs, keys), 2)
    BY <2>a, TableAt, CreatesOf
  <2>3. QED  BY <2>2 DEF refs, keys
<1>3. CreatesNth(Create("branches", {"companies"}, {}), 3)
  <2>1. {"companies"} \subseteq FirstTables(3)
    BY <1>0, TableAt
  <2>2. QED  BY <2>1, TableAt, CreatesOf
<1>4. CreatesNth(Create("roles", {"companies"}, {"company_id, name"}), 4)
  <2>1. {"companies"} \subseteq FirstTables(4)
    BY <1>0, TableAt
  <2> DEFINE refs == {"companies"}
             keys == {"company_id, name"}
  <2>a. refs \subseteq FirstTables(4)
    BY <2>1
  <2> HIDE DEF refs, keys
  <2>2. CreatesNth(Create("roles", refs, keys), 4)
    BY <2>a, TableAt, CreatesOf
  <2>3. QED  BY <2>2 DEF refs, keys
<1>5. CreatesNth(Create("users", {"companies"}, {"email"}), 5)
  <2>1. {"companies"} \subseteq FirstTables(5)
    BY <1>0, TableAt
  <2>2. QED  BY <2>1, TableAt, CreatesOf
<1>6. CreatesNth(Create("audit_logs", {"companies", "users"}, {}), 6)
  <2>1. {"companies", "users"} \subseteq FirstTables(6)
    BY <1>0, TableAt
  <2> DEFINE refs == {"companies", "users"}
             keys == {}
  <2>a. refs \subseteq FirstTables(6)
    BY <2>1
  <2> HIDE DEF refs, keys
  <2>2. CreatesNth(Create("audit_logs", refs, keys), 6)
    BY <2>a, TableAt, CreatesOf
  <2>3. QED  BY <2>2 DEF refs, keys
<1>7. CreatesNth(Create("password_reset_tokens", {"users"}, {"token_hash"}), 7)
  <2>1. {"users"} \subseteq FirstTables(7)
    BY <1>0, TableAt
  <2> DEFINE refs == {"users"}
             keys == {"token_hash"}
  <2>a. refs \subseteq FirstTables(7)
    BY <2>1
  <2> HIDE DEF refs, keys
  <2>2. CreatesNth(Create("password_reset_tokens", refs, keys), 7)
    BY <2>a, TableAt, CreatesOf
  <2>3. QED  BY <2>2 DEF refs, keys
<1>8. CreatesNth(Create("refresh_tokens", {"users"}, {"token_hash"}), 8)
  <2>1. {"users"} \subseteq FirstTables(8)
    BY <1>0, TableAt
  <2>2. QED  BY <2>1, TableAt, CreatesOf
<1>9. CreatesNth(Create("role_permissions", {"permissions", "roles"},
                        {"role_id, permission_id"}), 9)
  <2>1. {"permissions", "roles"} \subseteq FirstTables(9)
    BY <1>0, TableAt
  <2> DEFINE refs == {"permissions", "roles"}
             keys == {"role_id, permission_id"}
  <2>a. refs \subseteq FirstTables(9)
    BY <2>1
  <2> HIDE DEF refs, keys
  <2>2. CreatesNth(Create("role_permissions", refs, keys), 9)
    BY <2>a, TableAt, CreatesOf
  <2>3. QED  BY <2>2 DEF refs, keys
<1>10. CreatesNth(Create("user_branches", {"branches", "users"}, {"user_id, branch_id"}), 10)
  <2>1. {"branches", "users"} \subseteq FirstTables(10)
    BY <1>0, TableAt
  <2> DEFINE refs == {"branches", "users"}
             keys == {"user_id, branch_id"}
  <2>a. refs \subseteq FirstTables(10)
    BY <2>1
  <2> HIDE DEF refs, keys
  <2>2. CreatesNth(Create("user_branches", refs, keys), 10)
    BY <2>a, TableAt, CreatesOf
  <2>3. QED  BY <2>2 DEF refs, keys
<1>11. CreatesNth(Create("user_roles", {"roles", "users"}, {"user_id, role_id"}), 11)
  <2>1. {"roles", "users"} \subseteq FirstTables(11)
    BY <1>0, TableAt
  <2> DEFINE refs == {"roles", "users"}
             keys == {"user_id, role_id"}
  <2>a. refs \subseteq FirstTables(11)
    BY <2>1
  <2> HIDE DEF refs, keys
  <2>2. CreatesNth(Create("user_roles", refs, keys), 11)
    BY <2>a, TableAt, CreatesOf
  <2>3. QED  BY <2>2 DEF refs, keys
<1>12. CreatesNth(Create("warehouses", {"branches", "companies"}, {}), 12)
  <2>1. {"branches", "companies"} \subseteq FirstTables(12)
    BY <1>0, TableAt
  <2> DEFINE refs == {"branches", "companies"}
             keys == {}
  <2>a. refs \subseteq FirstTables(12)
    BY <2>1
  <2> HIDE DEF refs, keys
  <2>2. CreatesNth(Create("warehouses", refs, keys), 12)
    BY <2>a, TableAt, CreatesOf
  <2>3. QED  BY <2>2 DEF refs, keys
<1>13. QED  BY <1>1, <1>2, <1>3, <1>4, <1>5, <1>6, <1>7, <1>8, <1>9, <1>10, <1>11, <1>12

LEMMA CatalogueNth ==
  /\ CreatesNth(Create("brands", {"companies"}, {"company_id, name"}), 13)
  /\ CreatesNth(Create("categories", {"companies", "categories"}, {"company_id, name"}), 14)
  /\ CreatesNth(Create("units", {"companies"}, {"company_id, abbreviation"}), 15)
  /\ CreatesNth(Create("products", {"units", "brands", "categories", "companies"},
                       {"company_id, sku"}), 16)
  /\ CreatesNth(Create("product_images", {"companies", "products"}, {}), 17)
  /\ CreatesNth(Create("product_variants", {"companies", "products"}, {"company_id, sku"}), 18)
  /\ CreatesNth(Create("product_barcodes", {"companies", "product_variants"},
                       {"company_id, barcode"}), 19)
<1>0. \A n \in 1..22 : \A m \in 1..n : TableOrder[m] \in FirstTables(n)
  BY DEF FirstTables
<1>1. CreatesNth(Create("brands", {"companies"}, {"company_id, name"}), 13)
  <2>1. {"companies"} \subseteq FirstTables(13)
    BY <1>0, TableAt
  <2> DEFINE refs == {"companies"}
             keys == {"company_id, name"}
  <2>a. refs \subseteq FirstTables(13)
    BY <2>1
  <2> HIDE DEF refs, keys
  <2>2. CreatesNth(Create("brands", refs, keys), 13)
    BY <2>a, TableAt, CreatesOf
  <2>3. QED  BY <2>2 DEF refs, keys
<1>2. CreatesNth(Create("categories", {"companies", "categories"}, {"company_id, name"}), 14)
  <2>1. {"companies", "categories"} \subseteq FirstTables(14)
    BY <1>0, TableAt
  <2> DEFINE refs == {"companies", "categories"}
             keys == {"company_id, name"}
  <2>a. refs \subseteq FirstTables(14)
    BY <2>1
  <2> HIDE DEF refs, keys
  <2>2. CreatesNth(Create("categories", refs, keys), 14)
    BY <2>a, TableAt, CreatesOf
  <2>3. QED  BY <2>2 DEF refs, keys
<1>3. CreatesNth(Create("units", {"companies"}, {"company_id, abbreviation"}), 15)
  <2>1. {"companies"} \subseteq FirstTables(15)
    BY <1>0, TableAt
  <2> DEFINE refs == {"companies"}
             keys == {"company_id, abbreviation"}
  <2>a. refs \subseteq FirstTables(15)
    BY <2>1
  <2> HIDE DEF refs, keys
  <2>2. CreatesNth(Create("units", refs, keys), 15)
    BY <2>a, TableAt, CreatesOf
  <2>3. QED  BY <2>2 DEF refs, keys
<1>4. CreatesNth(Create("products", {"units", "brands", "categories", "companies"},
                        {"company_id, sku"}), 16)
  <2>1. {"units", "brands", "categories", "companies"} \subseteq FirstTables(16)
    BY <1>0, TableAt
  <2> DEFINE refs == {"units", "brands", "categories", "companies"}
             keys == {"company_id, sku"}
  <2>a. refs \subseteq FirstTables(16)
    BY <2>1
  <2> HIDE DEF refs, keys
  <2>2. CreatesNth(Create("products", refs, keys), 16)
    BY <2>a, TableAt, CreatesOf
  <2>3. QED  BY <2>2 DEF refs, keys
<1>5. CreatesNth(Create("product_images", {"companies", "products"}, {}), 17)
  <2>1. {"companies", "products"} \subseteq FirstTables(17)
    BY <1>0, TableAt
  <2> DEFINE refs == {"companies", "products"}
             keys == {}
  <2>a. refs \subseteq FirstTables(17)
    BY <2>1
  <2> HIDE DEF refs, keys
  <2>2. CreatesNth(Create("product_images", refs, keys), 17)
    BY <2>a, TableAt, CreatesOf
  <2>3. QED  BY <2>2 DEF refs, keys
<1>6. CreatesNth(Create("product_variants", {"companies", "products"}, {"company_id, sku"}), 18)
  <2>1. {"companies", "products"} \subseteq FirstTables(18)
    BY <1>0, TableAt
  <2> DEFINE refs == {"companies", "products"}
             keys == {"company_id, sku"}
  <2>a. refs \subseteq FirstTables(18)
    BY <2>1
  <2> HIDE DEF refs, keys
  <2>2. CreatesNth(Create("product_variants", refs, keys), 18)
    BY <2>a, TableAt, CreatesOf
  <2>3. QED  BY <2>2 DEF refs, keys
<1>7. CreatesNth(Create("product_barcodes", {"companies", "product_variants"},
                        {"company_id, barcode"}), 19)
  <2>1. {"companies", "product_variants"} \subseteq FirstTables(19)
    BY <1>0, TableAt
  <2> DEFINE refs == {"companies", "product_variants"}
             keys == {"company_id, barcode"}
  <2>a. refs \subseteq FirstTables(19)
    BY <2>1
  <2> HIDE DEF refs, keys
  <2>2. CreatesNth(Create("product_barcodes", refs, keys), 19)
    BY <2>a, TableAt, CreatesOf
  <2>3. QED  BY <2>2 DEF refs, keys
<1>8. QED  BY <1>1, <1>2, <1>3, <1>4, <1>5, <1>6, <1>7

LEMMA InventoryNth ==
  /\ CreatesNth(Create("stock_levels", {"companies", "product_variants", "warehouses"},
                       {"company_id, warehouse_id, product_variant_id"}), 20)
  /\ CreatesNth(Create("stock_transfers", {"companies", "warehouses", "product_variants"}, {}), 21)
  /\ CreatesNth(Create("stock_transactions",
                       {"branches", "companies", "product_variants", "stock_transfers", "warehouses"},
                       {}), 22)
<1>0. \A n \in 1..22 : \A m \in 1..n : TableOrder[m] \in FirstTables(n)
  BY DEF FirstTables
<1>1. CreatesNth(Create("stock_levels", {"companies", "product_variants", "warehouses"},
                        {"company_id, warehouse_id, product_variant_id"}), 20)
  <2>1. {"companies", "product_variants", "warehouses"} \subseteq FirstTables(20)
    BY <1>0, TableAt
  <2> DEFINE refs == {"companies", "product_variants", "warehouses"}
             keys == {"company_id, warehouse_id, product_variant_id"}
  <2>a. refs \subseteq FirstTables(20)
    BY <2>1
  <2> HIDE DEF refs, keys
  <2>2. CreatesNth(Create("stock_levels", refs, keys), 20)
    BY <2>a, TableAt, CreatesOf
  <2>3. QED  BY <2>2 DEF refs, keys
<1>2. CreatesNth(Create("stock_transfers", {"companies", "warehouses", "product_variants"}, {}), 21)
  <2>1. {"companies", "warehouses", "product_variants"} \subseteq FirstTables(21)
    BY <1>0, TableAt
  <2> DEFINE refs == {"companies", "warehouses", "product_variants"}
             keys == {}
  <2>a. refs \subseteq FirstTables(21)
    BY <2>1
  <2> HIDE DEF refs, keys
  <2>2. CreatesNth(Create("stock_transfers", refs, keys), 21)
    BY <2>a, TableAt, CreatesOf
  <2>3. QED  BY <2>2 DEF refs, keys
<1>3. CreatesNth(Create("stock_transactions",
                        {"branches", "companies", "product_variants", "stock_transfers", "warehouses"},
                        {}), 22)
  <2>1. {"branches", "companies", "product_variants", "stock_transfers", "warehouses"} \subseteq FirstTables(22)
    BY <1>0, TableAt
  <2> DEFINE refs == {"branches", "companies", "product_variants", "stock_transfers", "warehouses"}
             keys == {}
  <2>a. refs \subseteq FirstTables(22)
    BY <2>1
  <2> HIDE DEF refs, keys
  <2>2. CreatesNth(Create("stock_transactions", refs, keys), 22)
    BY <2>a, TableAt, CreatesOf
  <2>3. QED  BY <2>2 DEF refs, keys
<1>4. QED  BY <1>1, <1>2, <1>3

LEMMA OrganizationAt == \A i \in 1..3 : CreatesNth(OrganizationTables[i], 0 + i)
<1> DEFINE a == Create("companies", {}, {})
           b == Create("permissions", {}, {"code"})
           c == Create("branches", {"companies"}, {})
<1>1. OrganizationTables = <<a, b, c>>
  BY DEF OrganizationTables
<1>2. CreatesNth(a, 1) /\ CreatesNth(b, 2) /\ CreatesNth(c, 3)
  BY FoundationNth, Zenon
<1> HIDE DEF a, b, c
<1>3. QED  BY <1>1, <1>2

LEMMA UsersAt == \A i \in 1..4 : CreatesNth(UserTables[i], 3 + i)
<1> DEFINE a == Create("roles", {"companies"}, {"company_id, name"})
           b == Create("users", {"companies"}, {"email"})
           c == Create("audit_logs", {"companies", "users"}, {})
           d == Create("password_reset_tokens", {"users"}, {"token_hash"})
<1>1. UserTables = <<a, b, c, d>>
  BY DEF UserTables
<1>2. CreatesNth(a, 4) /\ CreatesNth(b, 5) /\ CreatesNth(c, 6) /\ CreatesNth(d, 7)
  BY FoundationNth, Zenon
<1> HIDE DEF a, b, c, d
<1>3. QED  BY <1>1, <1>2

LEMMA LinksAt == \A i \in 1..5 : CreatesNth(LinkTables[i], 7 + i)
<1> DEFINE a == Create("refresh_tokens", {"users"}, {"token_hash"})
           b == Create("role_permissions", {"permissions", "roles"}, {"role_id, permission_id"})
           c == Create("user_branches", {"branches", "users"}, {"user_id, branch_id"})
           d == Create("user_roles", {"roles", "users"}, {"user_id, role_id"})
           e == Create("warehouses", {"branches", "companies"}, {})
<1>1. LinkTables = <<a, b, c, d, e>>
  BY DEF LinkTables
<1>2. /\ CreatesNth(a, 8) /\ CreatesNth(b, 9) /\ CreatesNth(c, 10)
      /\ CreatesNth(d, 11) /\ CreatesNth(e, 12)
  BY FoundationNth, Zenon
<1> HIDE DEF a, b, c, d, e
<1>3. QED  BY <1>1, <1>2

LEMMA CatalogueAt == \A i \in 1..7 : CreatesNth(CatalogueTables[i], 12 + i)
<1> DEFINE a == Create("brands", {"companies"}, {"company_id, name"})
           b == Create("categories", {"companies", "categories"}, {"company_id, name"})
           c == Create("units", {"companies"}, {"company_id, abbreviation"})
           d == Create("products", {"units", "brands", "categories", "companies"},
                       {"company_id, sku"})
           e == Create("product_images", {"companies", "products"}, {})
           f == Create("product_variants", {"companies", "products"}, {"company_id, sku"})
           g == Create("product_barcodes", {"companies", "product_variants"},
                       {"company_id, barcode"})
<1>1. CatalogueTables = <<a, b, c, d, e, f, g>>
  BY DEF CatalogueTables
<1>2. /\ CreatesNth(a, 13) /\ CreatesNth(b, 14) /\ CreatesNth(c, 15) /\ CreatesNth(d, 16)
      /\ CreatesNth(e, 17) /\ CreatesNth(f, 18) /\ CreatesNth(g, 19)
  BY CatalogueNth, Zenon
<1> HIDE DEF a, b, c, d, e, f, g
<1>3. QED  BY <1>1, <1>2

LEMMA InventoryAt == \A i \in 1..3 : CreatesNth(InventoryTables[i], 19 + i)
<1> DEFINE a == Create("stock_levels", {"companies", "product_variants", "warehouses"},
                       {"company_id, warehouse_id, product_variant_id"})
           b == Create("stock_transfers", {"companies", "warehouses", "product_variants"}, {})
           c == Create("stock_transactions",
                       {"branches", "companies", "product_variants", "stock_transfers", "warehouses"},
                       {})
<1>1. InventoryTables = <<a, b, c>>
  BY DEF InventoryTables
<1>2. CreatesNth(a, 20) /\ CreatesNth(b, 21) /\ CreatesNth(c, 22)
  BY InventoryNth, Zenon
<1> HIDE DEF a, b, c
<1>3. QED  BY <1>1, <1>2

\* The scripts that create tables: each creates the next ones in the order, the
\* first then adds what it deferred.
LEMMA TablesUp ==
  /\ \A i \in 1..12 : CreatesNth(Revisions[1].up[i], i)
  /\ \A i \in 1..4 : Revisions[1].up[12 + i] = AddReference(Deferred[i][1], Deferred[i][2])
  /\ \A i \in 1..7 : CreatesNth(Revisions[3].up[i], 12 + i)
  /\ \A i \in 1..3 : CreatesNth(Revisions[6].up[i], 19 + i)
<1> DEFINE tables == OrganizationTables \o UserTables
           linked == tables \o LinkTables
<1>1. IsScript(OrganizationTables) /\ Len(OrganizationTables) = 3
  BY Tuple3, Zenon DEF OrganizationTables
<1>2. IsScript(UserTables) /\ Len(UserTables) = 4
  BY Tuple4, Zenon DEF UserTables
<1>3. IsScript(LinkTables) /\ Len(LinkTables) = 5
  BY Tuple5, Zenon DEF LinkTables
<1>4. /\ IsScript(BackReferences)
      /\ \A i \in 1..4 : BackReferences[i] = AddReference(Deferred[i][1], Deferred[i][2])
  <2>1. IsScript(BackReferences)
    BY Tuple4, Zenon DEF BackReferences
  <2>2. QED  BY <2>1, DeferredAt DEF BackReferences
<1>5. IsScript(tables) /\ Len(tables) = 7 /\ \A i \in 1..7 : CreatesNth(tables[i], i)
  <2>1. IsScript(tables) /\ Len(tables) = Len(OrganizationTables) + Len(UserTables)
    BY <1>1, <1>2, Concatenation, Zenon
  <2>2. Joins(tables, OrganizationTables, UserTables)
    BY <1>1, <1>2, Appended, Zenon
  <2> HIDE DEF tables
  <2>3. \A i \in 1..7 : i \in 1..3 \/ (i - 3 \in 1..4 /\ i = 3 + (i - 3))
    OBVIOUS
  <2>4. \A i \in 1..3 : CreatesNth(tables[i], i)
    BY <1>1, <2>2, OrganizationAt DEF Joins
  <2>5. \A i \in 1..4 : CreatesNth(tables[3 + i], 3 + i)
    BY <1>1, <1>2, <2>2, UsersAt DEF Joins
  <2>6. QED  BY <1>1, <1>2, <2>1, <2>3, <2>4, <2>5
<1> HIDE DEF tables
<1>6. IsScript(linked) /\ Len(linked) = 12 /\ \A i \in 1..12 : CreatesNth(linked[i], i)
  <2>1. IsScript(linked) /\ Len(linked) = Len(tables) + Len(LinkTables)
    BY <1>3, <1>5, Concatenation, Zenon
  <2>2. Joins(linked, tables, LinkTables)
    BY <1>3, <1>5, Appended, Zenon
  <2> HIDE DEF linked
  <2>3. \A i \in 1..12 : i \in 1..7 \/ (i - 7 \in 1..5 /\ i = 7 + (i - 7))
    OBVIOUS
  <2>4. \A i \in 1..7 : CreatesNth(linked[i], i)
    BY <1>5, <2>2 DEF Joins
  <2>5. \A i \in 1..5 : CreatesNth(linked[7 + i], 7 + i)
    BY <1>3, <1>5, <2>2, LinksAt DEF Joins
  <2>6. QED  BY <1>3, <1>5, <2>1, <2>3, <2>4, <2>5
<1>7. Revisions[1].up = linked \o BackReferences
  BY Chain DEF tables
<1> HIDE DEF linked
<1>8. Joins(Revisions[1].up, linked, BackReferences)
  BY <1>4, <1>6, <1>7, Appended, Zenon
<1>9. Len(BackReferences) = 4
  BY Tuple4, Zenon DEF BackReferences
<1>10. \A i \in 1..12 : CreatesNth(Revisions[1].up[i], i)
  BY <1>6, <1>8 DEF Joins
<1>11. \A i \in 1..4 : Revisions[1].up[12 + i] = AddReference(Deferred[i][1], Deferred[i][2])
  BY <1>4, <1>6, <1>8, <1>9 DEF Joins
<1>12. QED  BY <1>10, <1>11, Chain, CatalogueAt, InventoryAt, Zenon

\* The scripts that drop them go the other way.
LEMMA TablesDown ==
  /\ \A i \in 1..4 : FoundationDrops[i] = DropReference(Deferred[5 - i][1], Deferred[5 - i][2])
  /\ \A i \in 1..12 : FoundationDrops[4 + i] = Drop(TableOrder[13 - i])
  /\ \A i \in 1..7 : CatalogueDrops[i] = Drop(TableOrder[20 - i])
  /\ \A i \in 1..3 : InventoryDrops[i] = Drop(TableOrder[23 - i])
<1> DEFINE dropped ==
      << "warehouses", "user_roles", "user_branches", "role_permissions",
         "refresh_tokens", "password_reset_tokens", "audit_logs", "users",
         "roles", "branches", "permissions", "companies" >>
           last == DropAll(dropped)
<1>1. IsScript(dropped) /\ Len(dropped) = 12
  BY Tuple12, Zenon
<1>2. \A i \in 1..12 : dropped[i] = TableOrder[13 - i]
  BY TableAt
<1>3. FoundationDrops = DropBackReferences \o last
  BY DEF FoundationDrops
<1> HIDE DEF dropped
<1>4. IsScript(last) /\ Len(last) = 12 /\ \A i \in 1..12 : last[i] = Drop(TableOrder[13 - i])
  <2>1. IsScript(last) /\ Len(last) = Len(dropped)
    BY <1>1, Dropping, Zenon
  <2>2. \A i \in 1..Len(dropped) : last[i] = Drop(dropped[i])
    BY <1>1, DroppingAt, Zenon
  <2>3. QED  BY <1>1, <1>2, <2>1, <2>2
<1> HIDE DEF last
<1>5. IsScript(DropBackReferences) /\ Len(DropBackReferences) = 4
  BY Tuple4, Zenon DEF DropBackReferences
<1>6. \A i \in 1..4 : DropBackReferences[i] = DropReference(Deferred[5 - i][1], Deferred[5 - i][2])
  BY DeferredAt DEF DropBackReferences
<1>7. Joins(FoundationDrops, DropBackReferences, last)
  BY <1>3, <1>4, <1>5, Appended, Zenon
<1>8. \A i \in 1..4 : FoundationDrops[i] = DropReference(Deferred[5 - i][1], Deferred[5 - i][2])
  BY <1>5, <1>6, <1>7 DEF Joins
<1>9. \A i \in 1..12 : FoundationDrops[4 + i] = Drop(TableOrder[13 - i])
  BY <1>4, <1>5, <1>7 DEF Joins
<1>10. \A i \in 1..7 : CatalogueDrops[i] = Drop(TableOrder[20 - i])
  <2> DEFINE tables == << "product_barcodes", "product_variants", "product_images", "products",
                          "units", "categories", "brands" >>
  <2>1. IsScript(tables) /\ Len(tables) = 7
    BY Tuple7, Zenon
  <2>2. \A i \in 1..7 : tables[i] = TableOrder[20 - i]
    BY TableAt
  <2>3. CatalogueDrops = DropAll(tables)
    BY DEF CatalogueDrops
  <2> HIDE DEF tables
  <2>4. \A i \in 1..Len(tables) : DropAll(tables)[i] = Drop(tables[i])
    BY <2>1, DroppingAt, Zenon
  <2>5. QED  BY <2>1, <2>2, <2>3, <2>4
<1>11. \A i \in 1..3 : InventoryDrops[i] = Drop(TableOrder[23 - i])
  <2> DEFINE tables == << "stock_transactions", "stock_transfers", "stock_levels" >>
  <2>1. IsScript(tables) /\ Len(tables) = 3
    BY Tuple3, Zenon
  <2>2. \A i \in 1..3 : tables[i] = TableOrder[23 - i]
    BY TableAt
  <2>3. InventoryDrops = DropAll(tables)
    BY DEF InventoryDrops
  <2> HIDE DEF tables
  <2>4. \A i \in 1..Len(tables) : DropAll(tables)[i] = Drop(tables[i])
    BY <2>1, DroppingAt, Zenon
  <2>5. QED  BY <2>1, <2>2, <2>3, <2>4
<1>12. QED  BY <1>8, <1>9, <1>10, <1>11

-----------------------------------------------------------------------------
\* Which tables, references and rows statements make.

LEMMA PairMade ==
  ASSUME NEW tag, NEW other, NEW A, ArePairs(A), NEW a, NEW b
  PROVE  <<tag, a, b>> \in Tagged(other, A) <=> tag = other /\ <<a, b>> \in A
<1>1. CASE tag = other
  BY <1>1, TaggedPair
<1>2. CASE tag # other
  <2>1. <<tag, a, b>>[1] = tag
    OBVIOUS
  <2>2. QED  BY <1>2, <2>1, TagOf
<1>3. QED  BY <1>1, <1>2

LEMMA MakesWhat ==
  ASSUME NEW s, s.do \in Adding, NEW a, NEW b
  PROVE  /\ <<"table", a, b>> \in Makes(s) <=> s.do = "create" /\ a = s.table /\ b = s.table
         /\ <<"reference", a, b>> \in Makes(s) <=>
              /\ a = s.table
              /\ \/ s.do = "create" /\ b \in s.refs
                 \/ s.do = "addReference" /\ b = s.ref
         /\ <<"row", a, b>> \in Makes(s) <=>
              s.do \in {"insert", "insertMissing"} /\ a = s.table /\ b \in s.rows
<1> DEFINE same == {<<s.table, s.table>>}
           refs == {s.table} \X s.refs
           keys == {s.table} \X s.keys
           ref == {<<s.table, s.ref>>}
           rows == {s.table} \X s.rows
<1>1. ArePairs(same) /\ ArePairs(refs) /\ ArePairs(keys) /\ ArePairs(ref) /\ ArePairs(rows)
  BY DEF ArePairs
<1>2. /\ <<a, b>> \in same <=> a = s.table /\ b = s.table
      /\ <<a, b>> \in refs <=> a = s.table /\ b \in s.refs
      /\ <<a, b>> \in ref <=> a = s.table /\ b = s.ref
      /\ <<a, b>> \in rows <=> a = s.table /\ b \in s.rows
  OBVIOUS
<1>3. Makes(s) = CASE s.do = "create" -> Tagged("table", same) \union Tagged("reference", refs)
                                           \union Tagged("key", keys)
                   [] s.do = "addReference" -> Tagged("reference", ref)
                   [] s.do \in {"insert", "insertMissing"} -> Tagged("row", rows)
                   [] OTHER -> {}
  BY DEF Makes
<1> HIDE DEF same, refs, keys, ref, rows
<1>4. \A tag : /\ <<tag, a, b>> \in Tagged("table", same) <=> tag = "table" /\ <<a, b>> \in same
               /\ <<tag, a, b>> \in Tagged("reference", refs) <=> tag = "reference" /\ <<a, b>> \in refs
               /\ <<tag, a, b>> \in Tagged("key", keys) <=> tag = "key" /\ <<a, b>> \in keys
               /\ <<tag, a, b>> \in Tagged("reference", ref) <=> tag = "reference" /\ <<a, b>> \in ref
               /\ <<tag, a, b>> \in Tagged("row", rows) <=> tag = "row" /\ <<a, b>> \in rows
  BY <1>1, PairMade, Zenon
<1>5. CASE s.do = "create"
  <2>1. Makes(s) = Tagged("table", same) \union Tagged("reference", refs) \union Tagged("key", keys)
    BY <1>3, <1>5
  <2>2. QED  BY <1>2, <1>4, <1>5, <2>1
<1>6. CASE s.do = "addReference"
  <2>1. Makes(s) = Tagged("reference", ref)
    BY <1>3, <1>6
  <2>2. QED  BY <1>2, <1>4, <1>6, <2>1
<1>7. CASE s.do \in {"insert", "insertMissing"}
  <2>1. Makes(s) = Tagged("row", rows)
    BY <1>3, <1>7
  <2>2. QED  BY <1>2, <1>4, <1>7, <2>1
<1>8. CASE s.do = "lookUp"
  <2>1. Makes(s) = {}
    BY <1>3, <1>8
  <2>2. QED  BY <1>8, <2>1
<1>9. QED  BY <1>5, <1>6, <1>7, <1>8 DEF Adding

LEMMA MakesTable ==
  ASSUME NEW s, s.do \in Adding
  PROVE  \A t : <<"table", t, t>> \in Makes(s) <=> s.do = "create" /\ t = s.table
BY MakesWhat

\* A pair is of what a script has made before a statement when an earlier one
\* makes it.
LEMMA BeforeWhich ==
  ASSUME NEW script, NEW n, NEW x
  PROVE  x \in MadeBefore(script, n) <=> \E i \in 1..(n - 1) : x \in Makes(script[i])
BY DEF MadeBefore

\* The first of the scripts that make tables also adds references.
LEMMA TableStatement ==
  ASSUME NEW v \in {1, 3, 6}, NEW i \in 1..Len(Revisions[v].up)
  PROVE  /\ Revisions[v].up[i].do \in Adding
         /\ i <= Creates(v) => CreatesNth(Revisions[v].up[i], Before(v) + i)
         /\ i > Creates(v) => /\ v = 1 /\ i - 12 \in 1..4
                              /\ Revisions[v].up[i] =
                                   AddReference(Deferred[i - 12][1], Deferred[i - 12][2])
<1>1. Revisions[v].up[i].do \in Adding
  <2>1. v \in 1..7
    OBVIOUS
  <2>2. QED  BY <2>1, Ups, StatementIs DEF UpStatement
<1>2. CASE v = 1
  <2>1. i \in 1..16 /\ Creates(v) = 12 /\ Before(v) + i = i
    <3>1. i \in 1..16
      BY <1>2, Foundation, Zenon
    <3>2. QED  BY <1>2, <3>1 DEF Creates, Before
  <2>2. i <= 12 => i \in 1..12
    BY <2>1
  <2>3. i > 12 => i - 12 \in 1..4 /\ i = 12 + (i - 12)
    BY <2>1
  <2>4. i \in 1..12 => CreatesNth(Revisions[1].up[i], i)
    BY TablesUp, Zenon
  <2>5. i - 12 \in 1..4 => Revisions[1].up[12 + (i - 12)] =
                             AddReference(Deferred[i - 12][1], Deferred[i - 12][2])
    BY TablesUp, Zenon
  <2>6. CASE i <= 12
    BY <1>1, <1>2, <2>1, <2>2, <2>4, <2>6
  <2>7. CASE i > 12
    <3>1. i - 12 \in 1..4 /\ i = 12 + (i - 12) /\ ~(i <= 12)
      BY <2>1, <2>3, <2>7
    <3>2. Revisions[1].up[i] = AddReference(Deferred[i - 12][1], Deferred[i - 12][2])
      BY <2>5, <3>1, Zenon
    <3>3. QED  BY <1>1, <1>2, <2>1, <2>7, <3>1, <3>2, Zenon
  <2>8. QED  BY <2>1, <2>6, <2>7
<1>3. CASE v = 3
  <2>0. i \in 1..7
    BY <1>3, Growing, Zenon
  <2>1. i \in 1..7 /\ Before(v) = 12 /\ Creates(v) = 7
    BY <1>3, <2>0 DEF Creates, Before
  <2>2. CreatesNth(Revisions[3].up[i], 12 + i)
    BY <2>1, TablesUp, Zenon
  <2>3. ~(i > 7)
    BY <2>1
  <2>4. QED  BY <1>1, <1>3, <2>1, <2>2, <2>3, Zenon
<1>4. CASE v = 6
  <2>0. i \in 1..3
    BY <1>4, Growing, Zenon
  <2>1. i \in 1..3 /\ Before(v) = 19 /\ Creates(v) = 3
    BY <1>4, <2>0 DEF Creates, Before
  <2>2. CreatesNth(Revisions[6].up[i], 19 + i)
    BY <2>1, TablesUp, Zenon
  <2>3. ~(i > 3)
    BY <2>1
  <2>4. QED  BY <1>1, <1>4, <2>1, <2>2, <2>3, Zenon
<1>5. QED  BY <1>2, <1>3, <1>4

LEMMA Sizes ==
  ASSUME NEW v \in {1, 3, 6}
  PROVE  /\ Len(Revisions[v].up) = IF v = 1 THEN 16 ELSE Creates(v)
         /\ v = 1 => Before(v) = 0 /\ Creates(v) = 12
         /\ v = 3 => Before(v) = 12 /\ Creates(v) = 7
         /\ v = 6 => Before(v) = 19 /\ Creates(v) = 3
<1>1. v = 1 => Len(Revisions[v].up) = 16
  BY Foundation, Zenon
<1>2. v = 3 => Len(Revisions[v].up) = 7
  BY Growing, Zenon
<1>3. v = 6 => Len(Revisions[v].up) = 3
  BY Growing, Zenon
<1>4. /\ v = 1 => Before(v) = 0 /\ Creates(v) = 12
      /\ v = 3 => Before(v) = 12 /\ Creates(v) = 7
      /\ v = 6 => Before(v) = 19 /\ Creates(v) = 3
  BY DEF Before, Creates
<1>5. v = 1 \/ v = 3 \/ v = 6
  OBVIOUS
<1> DEFINE l == Len(Revisions[v].up)
           c == Creates(v)
<1>6. (v = 1 => l = 16) /\ (v = 3 => l = c) /\ (v = 6 => l = c)
  BY <1>1, <1>2, <1>3, <1>4, Zenon
<1> HIDE DEF l, c
<1>7. l = IF v = 1 THEN 16 ELSE c
  BY <1>5, <1>6
<1>8. QED  BY <1>4, <1>7 DEF l, c

\* The tables that are there before a statement of such a script.
LEMMA TablesBefore ==
  ASSUME NEW v \in {1, 3, 6}, NEW n \in 1..(Len(Revisions[v].up) + 1), NEW t
  PROVE  <<"table", t, t>> \in MadeBefore(Revisions[v].up, n) <=>
           \E i \in 1..22 : /\ t = TableOrder[i] /\ Before(v) < i
                            /\ i < Before(v) + n /\ i <= Before(v) + Creates(v)
<1> DEFINE script == Revisions[v].up
           b == Before(v)
           c == Creates(v)
           l == Len(script)
<1>0. b \in 0..19 /\ c \in 1..12 /\ b + c <= 22 /\ l \in 1..16 /\ n \in 1..(l + 1)
  <2>1. /\ v = 1 \/ v = 3 \/ v = 6
        /\ v = 1 => b = 0 /\ c = 12 /\ l = 16
        /\ v = 3 => b = 12 /\ c = 7 /\ l = 7
        /\ v = 6 => b = 19 /\ c = 3 /\ l = 3
    BY Sizes
  <2>2. n \in 1..(l + 1)
    OBVIOUS
  <2> HIDE DEF b, c, l
  <2>3. QED  BY <2>1, <2>2
<1>1. \A i \in 1..l :
        <<"table", t, t>> \in Makes(script[i]) <=> i <= c /\ t = TableOrder[b + i]
  <2>1. TAKE i \in 1..l
  <2>2. script[i].do \in Adding
    BY TableStatement
  <2>3. <<"table", t, t>> \in Makes(script[i]) <=> script[i].do = "create" /\ t = script[i].table
    BY <2>2, MakesTable, Zenon
  <2>4. CASE i <= c
    <3>1. CreatesNth(script[i], b + i)
      BY <2>4, TableStatement, Zenon
    <3>2. QED  BY <2>3, <2>4, <3>1, Zenon DEF CreatesNth
  <2>5. CASE ~(i <= c)
    <3>1. i > c
      BY <1>0, <2>5
    <3>2. script[i] = AddReference(Deferred[i - 12][1], Deferred[i - 12][2])
      BY <3>1, TableStatement, Zenon
    <3>x. script[i].do = "addReference"
      BY <3>2 DEF AddReference
    <3>3. QED  BY <2>3, <2>5, <3>x
  <2>6. QED  BY <2>4, <2>5
<1>2. <<"table", t, t>> \in MadeBefore(script, n) <=>
        \E i \in 1..(n - 1) : <<"table", t, t>> \in Makes(script[i])
  BY BeforeWhich, Zenon
<1> HIDE DEF script, b, c, l
<1>3. <<"table", t, t>> \in MadeBefore(script, n) <=>
        \E i \in 1..(n - 1) : i <= c /\ t = TableOrder[b + i]
  <2>1. \A i \in 1..(n - 1) : i \in 1..l
    BY <1>0
  <2>2. QED  BY <1>1, <1>2, <2>1
<1>4. ASSUME NEW i \in 1..(n - 1), i <= c, t = TableOrder[b + i]
      PROVE  \E j \in 1..22 : t = TableOrder[j] /\ b < j /\ j < b + n /\ j <= b + c
  <2>1. b + i \in 1..22 /\ b < b + i /\ b + i < b + n /\ b + i <= b + c
    BY <1>0, <1>4
  <2>2. QED  BY <1>4, <2>1
<1>5. ASSUME NEW j \in 1..22, t = TableOrder[j], b < j, j < b + n, j <= b + c
      PROVE  \E i \in 1..(n - 1) : i <= c /\ t = TableOrder[b + i]
  <2>1. j - b \in 1..(n - 1) /\ b + (j - b) = j /\ j - b <= c
    BY <1>0, <1>5
  <2>2. QED  BY <1>5, <2>1
<1>6. QED  BY <1>3, <1>4, <1>5 DEF script, b, c

-----------------------------------------------------------------------------
\* How many tables a revision has.
Upto(v) == IF v = 0 THEN 0 ELSE IF v < 3 THEN 12 ELSE IF v < 6 THEN 19 ELSE 22

LEMMA UptoIs ==
  /\ Upto(0) = 0 /\ Upto(1) = 12 /\ Upto(2) = 12 /\ Upto(3) = 19
  /\ Upto(4) = 19 /\ Upto(5) = 19 /\ Upto(6) = 22 /\ Upto(7) = 22
BY DEF Upto

LEMMA SeedsMakeRows ==
  ASSUME NEW v \in {2, 4, 5, 7}, NEW x \in MadeBy(Revisions[v].up)
  PROVE  x[1] = "row"
<1>1. CASE v = 2
  BY <1>1, SeedScripts DEF IsRow
<1>2. CASE v = 4
  BY <1>2, SeedScripts DEF IsRow
<1>3. CASE v = 5
  BY <1>3, SeedScripts DEF IsRow
<1>4. CASE v = 7
  BY <1>4, SeedScripts DEF IsRow
<1>5. QED  BY <1>1, <1>2, <1>3, <1>4

LEMMA TablesOfScript ==
  ASSUME NEW v \in {1, 3, 6}, NEW t
  PROVE  <<"table", t, t>> \in MadeBy(Revisions[v].up) <=>
           \E i \in 1..22 : t = TableOrder[i] /\ Before(v) < i /\ i <= Before(v) + Creates(v)
<1> DEFINE script == Revisions[v].up
           b == Before(v)
           c == Creates(v)
           l == Len(script)
           n == l + 1
<1>1. IsScript(script) /\ Len(script) \in 1..16
  <2>1. v \in 1..7
    OBVIOUS
  <2>2. QED  BY <2>1, Ups, Zenon
<1>2. n \in Nat /\ n \in 1..(Len(script) + 1)
  BY <1>1
<1>3. MadeBefore(script, n) = MadeBy(script)
  BY <1>1, <1>2, AfterLast, Zenon
<1>4. b \in 0..19 /\ c \in 1..12 /\ n > c
  <2>1. /\ v = 1 \/ v = 3 \/ v = 6
        /\ v = 1 => b = 0 /\ c = 12 /\ l = 16
        /\ v = 3 => b = 12 /\ c = 7 /\ l = 7
        /\ v = 6 => b = 19 /\ c = 3 /\ l = 3
    BY Sizes
  <2> HIDE DEF b, c, l
  <2>2. QED  BY <2>1
<1>5. <<"table", t, t>> \in MadeBefore(script, n) <=>
        \E i \in 1..22 : t = TableOrder[i] /\ b < i /\ i < b + n /\ i <= b + c
  BY <1>2, TablesBefore, Zenon
<1> HIDE DEF b, c, l, n, script
<1>6. \A i \in 1..22 : i <= b + c => i < b + n
  BY <1>2, <1>4
<1>7. QED  BY <1>3, <1>5, <1>6 DEF script, b, c

LEMMA TablesMade ==
  ASSUME NEW v \in 0..7, NEW t
  PROVE  <<"table", t, t>> \in Made[v] <=> t \in FirstTables(Upto(v))
<1> DEFINE x == <<"table", t, t>>
           Right(u) == x \in Made[u] <=> t \in FirstTables(Upto(u))
<1>1. Right(0)
  BY MadeStep, UptoIs DEF FirstTables
<1>2. x[1] # "row"
  OBVIOUS
<1> HIDE DEF x
<1>3. ASSUME NEW u \in {2, 4, 5, 7}
      PROVE  Right(u - 1) => Right(u)
  <2>1. x \notin MadeBy(Revisions[u].up)
    BY <1>2, SeedsMakeRows
  <2>2. u \in 1..7
    OBVIOUS
  <2>3. x \in Made[u] <=> x \in Made[u - 1]
    BY <2>1, <2>2, MadeStep
  <2>4. Upto(u) = Upto(u - 1)
    BY UptoIs
  <2>5. QED  BY <2>3, <2>4
<1>4. ASSUME NEW u \in {1, 3, 6}
      PROVE  Right(u - 1) => Right(u)
  <2>1. x \in MadeBy(Revisions[u].up) <=>
          \E i \in 1..22 : t = TableOrder[i] /\ Before(u) < i /\ i <= Before(u) + Creates(u)
    BY TablesOfScript DEF x
  <2>2. u \in 1..7
    OBVIOUS
  <2>3. x \in Made[u] <=> x \in Made[u - 1] \/ x \in MadeBy(Revisions[u].up)
    BY <2>2, MadeStep
  <2> DEFINE b == Before(u)
             c == Creates(u)
             before == Upto(u - 1)
             after == Upto(u)
  <2>4. b \in 0..22 /\ after = b + c /\ before = b /\ c \in 1..12 /\ after <= 22
    BY Sizes, UptoIs DEF Before, Creates
  <2>5. x \in MadeBy(Revisions[u].up) <=> \E i \in 1..22 : t = TableOrder[i] /\ b < i /\ i <= b + c
    BY <2>1
  <2> HIDE DEF b, c, before, after
  <2>6. t \in FirstTables(after) <=>
          t \in FirstTables(before) \/ \E i \in 1..22 : t = TableOrder[i] /\ b < i /\ i <= b + c
    BY <2>4 DEF FirstTables
  <2>7. QED  BY <2>3, <2>5, <2>6 DEF before, after
<1> HIDE DEF Right
<1>5. Right(1)
  BY <1>1, <1>4
<1>6. Right(2)
  BY <1>3, <1>5
<1>7. Right(3)
  BY <1>4, <1>6
<1>8. Right(4)
  BY <1>3, <1>7
<1>9. Right(5)
  BY <1>3, <1>8
<1>10. Right(6)
  BY <1>4, <1>9
<1>11. Right(7)
  BY <1>3, <1>10
<1>12. QED  BY <1>1, <1>5, <1>6, <1>7, <1>8, <1>9, <1>10, <1>11 DEF Right, x

\* A reference is to a table created no later, or was deferred.
Backwards(a, b) == \E i \in 1..22 : \E j \in 1..i : a = TableOrder[i] /\ b = TableOrder[j]
IsDeferred(a, b) == \E k \in 1..4 : a = Deferred[k][1] /\ b = Deferred[k][2]

LEMMA MakesReference ==
  ASSUME NEW s, s.do \in Adding
  PROVE  \A a, b : <<"reference", a, b>> \in Makes(s) <=>
           /\ a = s.table
           /\ \/ s.do = "create" /\ b \in s.refs
              \/ s.do = "addReference" /\ b = s.ref
BY MakesWhat

LEMMA ReferencesOfScript ==
  ASSUME NEW v \in {1, 3, 6}, NEW a, NEW b, <<"reference", a, b>> \in MadeBy(Revisions[v].up)
  PROVE  Backwards(a, b) \/ IsDeferred(a, b)
<1> DEFINE script == Revisions[v].up
<1>1. PICK i \in DOMAIN script : <<"reference", a, b>> \in Makes(script[i])
  BY DEF MadeBy
<1>2. i \in 1..Len(script)
  <2>1. v \in 1..7
    OBVIOUS
  <2>2. IsScript(script)
    BY <2>1, Ups, Zenon
  <2>3. QED  BY <2>2 DEF IsScript
<1>3. script[i].do \in Adding
  BY <1>2, TableStatement
<1>4. /\ a = script[i].table
      /\ \/ script[i].do = "create" /\ b \in script[i].refs
         \/ script[i].do = "addReference" /\ b = script[i].ref
  BY <1>1, <1>3, MakesReference, Zenon
<1>5. Creates(v) \in Nat /\ Before(v) \in Nat /\ Before(v) + Creates(v) <= 22
  BY Sizes
<1>6. CASE i <= Creates(v)
  <2>1. CreatesNth(script[i], Before(v) + i)
    BY <1>2, <1>6, TableStatement, Zenon
  <2> DEFINE before == Before(v)
             c == Creates(v)
             k == before + i
  <2>0. before \in Nat /\ c \in Nat /\ before + c <= 22 /\ i <= c /\ i \in Nat /\ i >= 1
    BY <1>2, <1>5, <1>6
  <2> HIDE DEF before, c
  <2>2. k \in 1..22
    BY <2>0
  <2> USE DEF before
  <2> HIDE DEF k
  <2>3. a = TableOrder[k] /\ b \in FirstTables(k)
    BY <1>4, <2>1 DEF CreatesNth, k
  <2>4. QED  BY <2>2, <2>3 DEF Backwards, FirstTables
<1>7. CASE i > Creates(v)
  <2>1. i - 12 \in 1..4 /\ script[i] = AddReference(Deferred[i - 12][1], Deferred[i - 12][2])
    BY <1>2, <1>7, TableStatement, Zenon
  <2>2. /\ script[i].do = "addReference" /\ script[i].table = Deferred[i - 12][1]
        /\ script[i].ref = Deferred[i - 12][2]
    BY <2>1 DEF AddReference
  <2>3. a = Deferred[i - 12][1] /\ b = Deferred[i - 12][2]
    BY <1>4, <2>2
  <2>4. QED  BY <2>1, <2>3 DEF IsDeferred
<1>8. QED  BY <1>2, <1>5, <1>6, <1>7

LEMMA ReferencesMade ==
  ASSUME NEW v \in 0..7, NEW a, NEW b, <<"reference", a, b>> \in Made[v]
  PROVE  Backwards(a, b) \/ IsDeferred(a, b)
<1> DEFINE x == <<"reference", a, b>>
<1>1. x[1] # "row"
  OBVIOUS
<1>2. Made[v] = UNION {MadeBy(Revisions[u].up) : u \in 1..v}
  BY Chain DEF Made
<1> HIDE DEF x
<1>3. PICK u \in 1..v : x \in MadeBy(Revisions[u].up)
  BY <1>2 DEF x
<1>4. u \in {1, 3, 6} \/ u \in {2, 4, 5, 7}
  OBVIOUS
<1>5. u \in {1, 3, 6}
  BY <1>1, <1>3, <1>4, SeedsMakeRows
<1>6. QED  BY <1>3, <1>5, ReferencesOfScript DEF x

LEMMA DeferredMade ==
  ASSUME NEW k \in 1..4
  PROVE  <<"reference", Deferred[k][1], Deferred[k][2]>> \in Made[1]
<1> DEFINE s == AddReference(Deferred[k][1], Deferred[k][2])
<1>1. Revisions[1].up[12 + k] = s
  BY TablesUp
<1>2. s.do \in Adding /\ s.do = "addReference" /\ s.table = Deferred[k][1] /\ s.ref = Deferred[k][2]
  BY DEF AddReference, Adding
<1> HIDE DEF s
<1>3. <<"reference", Deferred[k][1], Deferred[k][2]>> \in Makes(s)
  BY <1>2, MakesReference
<1>4. 12 + k \in DOMAIN Revisions[1].up
  <2>1. IsScript(Revisions[1].up) /\ Len(Revisions[1].up) = 16
    BY Foundation, Zenon
  <2>2. DOMAIN Revisions[1].up = 1..16
    BY <2>1 DEF IsScript
  <2>3. QED  BY <2>2
<1>5. Makes(s) \subseteq MadeBy(Revisions[1].up)
  BY <1>1, <1>4 DEF MadeBy
<1>6. MadeBy(Revisions[1].up) \subseteq Made[1]
  BY MadeStep
<1>7. QED  BY <1>3, <1>5, <1>6

-----------------------------------------------------------------------------
\* The scripts that create and drop tables do not fail.

LEMMA DeferredTables ==
  /\ \A k \in 1..4 : /\ Deferred[k][1] \in FirstTables(12) /\ Deferred[k][2] \in FirstTables(12)
                     /\ Deferred[k][1] \notin {"role_permissions", "user_roles", "products"}
  /\ \A k, m \in 1..4 : Deferred[k][1] = Deferred[m][1] /\ Deferred[k][2] = Deferred[m][2] => k = m
<1>1. /\ TableOrder[3] \in FirstTables(12) /\ TableOrder[12] \in FirstTables(12)
      /\ TableOrder[5] \in FirstTables(12) /\ TableOrder[8] \in FirstTables(12)
  BY DEF FirstTables
<1>2. {"branches", "warehouses", "users", "refresh_tokens"} \subseteq FirstTables(12)
  BY <1>1, TableAt
<1>3. \A k \in 1..4 : k = 1 \/ k = 2 \/ k = 3 \/ k = 4
  OBVIOUS
<1>4. QED  BY <1>2, <1>3, DeferredAt

\* What a database has from scripts, told by what they make.
LEMMA HasWhat ==
  ASSUME NEW d, Sound(d), NEW least, Has(d, least)
  PROVE  /\ \A t : t \in d.tables <=> <<"table", t, t>> \in least
         /\ \A a, b : <<a, b>> \in d.references <=> <<"reference", a, b>> \in least
         /\ \A t, r : <<"row", t, r>> \in least => r \in d.rows[t]
<1>1. \A a, b, tag : <<tag, a, b>>[1] = tag
  OBVIOUS
<1>2. /\ \A a, b : <<"table", a, b>> \notin Extra /\ <<"reference", a, b>> \notin Extra
  BY <1>1, ExtraRows
<1>3. least \subseteq Content(d) /\ Content(d) \subseteq least \union Extra
  BY DEF Has
<1>4. QED  BY <1>2, <1>3, ContentOf

LEMMA FirstTablesAre ==
  ASSUME NEW k \in 0..22, NEW t
  PROVE  t \in FirstTables(k) <=> \E i \in 1..22 : t = TableOrder[i] /\ i <= k
BY DEF FirstTables

LEMMA NextTable ==
  ASSUME NEW k \in 1..22
  PROVE  /\ TableOrder[k] \notin FirstTables(k - 1) /\ TableOrder[k] \in Names
         /\ FirstTables(k) = FirstTables(k - 1) \union {TableOrder[k]}
<1>1. 1..k = (1..(k - 1)) \union {k} /\ k \notin 1..(k - 1) /\ 1..k \subseteq 1..22
  OBVIOUS
<1>2. TableOrder[k] \notin FirstTables(k - 1)
  BY <1>1, Order DEF FirstTables
<1>3. FirstTables(k) = FirstTables(k - 1) \union {TableOrder[k]}
  BY <1>1 DEF FirstTables
<1>4. TableOrder[k] \in Names
  BY Order DEF FirstTables
<1>5. QED  BY <1>2, <1>3, <1>4

LEMMA TableScriptSucceeds ==
  ASSUME NEW d, Sound(d), ~Dangling(d), NEW v \in {1, 3, 6}, NEW n \in 1..Len(Revisions[v].up),
         Has(d, Made[v - 1] \union MadeBefore(Revisions[v].up, n))
  PROVE  ~Fails(d, Revisions[v].up[n])
<1> DEFINE script == Revisions[v].up
           least == Made[v - 1] \union MadeBefore(script, n)
           b == Before(v)
           c == Creates(v)
           l == Len(script)
           s == script[n]
<1>0. b \in 0..19 /\ c \in 1..12 /\ b + c <= 22 /\ l \in 1..16 /\ n \in 1..l
      /\ Upto(v - 1) = b /\ v - 1 \in 0..7
  <2>1. /\ v = 1 \/ v = 3 \/ v = 6
        /\ v = 1 => b = 0 /\ c = 12 /\ l = 16
        /\ v = 3 => b = 12 /\ c = 7 /\ l = 7
        /\ v = 6 => b = 19 /\ c = 3 /\ l = 3
    BY Sizes
  <2>2. /\ v = 1 => v - 1 = 0 /\ Upto(v - 1) = 0
        /\ v = 3 => v - 1 = 2 /\ Upto(v - 1) = 12
        /\ v = 6 => v - 1 = 5 /\ Upto(v - 1) = 19
    BY UptoIs
  <2> HIDE DEF b, c, l
  <2>3. n \in 1..l
    BY DEF l
  <2>4. QED  BY <2>1, <2>2, <2>3
<1>1. \A t : t \in d.tables <=>
        \E i \in 1..22 : t = TableOrder[i] /\ i < b + n /\ i <= b + c
  <2>1. TAKE t
  <2>2. t \in d.tables <=> <<"table", t, t>> \in least
    BY HasWhat
  <2>3. <<"table", t, t>> \in Made[v - 1] <=> t \in FirstTables(b)
    BY <1>0, TablesMade
  <2>4. n \in 1..(Len(script) + 1)
    <3> HIDE DEF b, c
    <3>1. l \in 1..16 /\ n \in 1..l
      BY <1>0
    <3> HIDE DEF l
    <3>2. n \in 1..(l + 1)
      BY <3>1
    <3>3. QED  BY <3>2 DEF l
  <2>5. <<"table", t, t>> \in MadeBefore(script, n) <=>
          \E i \in 1..22 : t = TableOrder[i] /\ b < i /\ i < b + n /\ i <= b + c
    BY <2>4, TablesBefore, Zenon
  <2> HIDE DEF b, c, l, s
  <2>6. t \in FirstTables(b) <=> \E i \in 1..22 : t = TableOrder[i] /\ i <= b
    <3>1. b \in 0..22
      BY <1>0
    <3>2. QED  BY <3>1, FirstTablesAre
  <2>7. \A i \in 1..22 : i < b + n /\ i <= b + c <=> i <= b \/ (b < i /\ i < b + n /\ i <= b + c)
    BY <1>0
  <2>8. t \in d.tables <=> t \in FirstTables(b) \/
          \E i \in 1..22 : t = TableOrder[i] /\ b < i /\ i < b + n /\ i <= b + c
    BY <2>2, <2>3, <2>5
  <2>9. QED  BY <2>6, <2>7, <2>8
<1>2. CASE n <= c
  <2> DEFINE k == b + n
  <2>1. CreatesNth(s, k)
    BY <1>2, TableStatement, Zenon
  <2> HIDE DEF b, c, l, s
  <2>2. k \in 1..22 /\ k - 1 \in 0..22 /\ \A i \in 1..22 : i < b + n /\ i <= b + c <=> i <= k - 1
    <3>1. b \in 0..19 /\ c \in 1..12 /\ b + c <= 22 /\ n \in 1..16 /\ n <= c
      BY <1>0, <1>2
    <3>2. k \in 1..22 /\ k - 1 \in 0..22
      BY <3>1
    <3>3. \A i \in 1..22 : (i < b + n /\ i <= b + c) <=> i <= k - 1
      BY <3>1
    <3>4. QED  BY <3>2, <3>3
  <2>3. \A t : t \in d.tables <=> \E i \in 1..22 : t = TableOrder[i] /\ i <= k - 1
    BY <1>1, <2>2
  <2> HIDE DEF k
  <2>4. \A t : t \in d.tables <=> t \in FirstTables(k - 1)
    BY <2>2, <2>3, FirstTablesAre
  <2>5. /\ TableOrder[k] \notin d.tables /\ TableOrder[k] \in Names
        /\ FirstTables(k) \subseteq d.tables \union {TableOrder[k]}
    BY <2>2, <2>4, NextTable
  <2>6. s.do = "create" /\ s.table = TableOrder[k] /\ s.refs \subseteq FirstTables(k)
    BY <2>1 DEF CreatesNth
  <2>7. s.refs \subseteq d.tables \union {s.table}
    BY <2>5, <2>6
  <2>8. QED  BY <2>5, <2>6, <2>7, CreateSucceeds DEF s
<1>3. CASE n > c
  <2> DEFINE m == n - 12
  <2>1. v = 1 /\ m \in 1..4 /\ s = AddReference(Deferred[m][1], Deferred[m][2])
    BY <1>3, TableStatement, Zenon
  <2>2. b = 0 /\ c = 12
    BY <2>1, Sizes
  <2>3. n = 12 + m
    BY <1>0
  <2>4. \A t \in FirstTables(12) : t \in d.tables
    <3>1. \A i \in 1..12 : i \in 1..22 /\ i < b + n /\ i <= b + c
      BY <2>1, <2>2, <2>3
    <3>2. QED  BY <1>1, <3>1 DEF FirstTables
  <2>5. s.do = "addReference" /\ s.table = Deferred[m][1] /\ s.ref = Deferred[m][2]
    BY <2>1 DEF AddReference
  <2>6. <<"reference", Deferred[m][1], Deferred[m][2]>> \notin least
    <3> DEFINE x == <<"reference", Deferred[m][1], Deferred[m][2]>>
    <3>1. x \notin Made[v - 1]
      BY <2>1, MadeStep
    <3>2. ASSUME NEW i \in 1..(n - 1), x \in Makes(script[i])
          PROVE  FALSE
      <4>1. i \in 1..Len(script) /\ (i <= Creates(v) \/ i > Creates(v)) /\ i < n
        <5>1. n \in 1..l /\ l \in 1..16 /\ c = 12
          BY <1>0, <2>2
        <5> HIDE DEF l, c
        <5>2. i \in 1..l /\ (i <= c \/ i > c) /\ i < n
          BY <5>1
        <5>3. QED  BY <5>2 DEF l, c
      <4>2. script[i].do \in Adding
        BY <4>1, TableStatement, Zenon
      <4>3. /\ Deferred[m][1] = script[i].table
            /\ \/ script[i].do = "create" /\ Deferred[m][2] \in script[i].refs
               \/ script[i].do = "addReference" /\ Deferred[m][2] = script[i].ref
        BY <3>2, <4>2, MakesReference, Zenon
      <4>4. CASE i <= Creates(v)
        <5>1. CreatesNth(script[i], Before(v) + i)
          BY <4>1, <4>4, TableStatement, Zenon
        <5>2. QED  BY <2>1, <4>3, <5>1 DEF CreatesNth
      <4>5. CASE i > Creates(v)
        <5>1. /\ i - 12 \in 1..4
              /\ script[i] = AddReference(Deferred[i - 12][1], Deferred[i - 12][2])
          BY <4>1, <4>5, TableStatement, Zenon
        <5>2. script[i].do = "addReference" /\ script[i].table = Deferred[i - 12][1]
              /\ script[i].ref = Deferred[i - 12][2]
          BY <5>1 DEF AddReference
        <5>3. Deferred[i - 12][1] = Deferred[m][1] /\ Deferred[i - 12][2] = Deferred[m][2]
          BY <4>3, <5>2
        <5>4. i - 12 = m
          BY <2>1, <5>1, <5>3, DeferredTables, Zenon
        <5>5. QED  BY <2>3, <4>1, <5>4
      <4>6. QED  BY <4>1, <4>4, <4>5
    <3>3. x \notin MadeBefore(script, n)
      BY <3>2, BeforeWhich, Zenon
    <3>4. QED  BY <3>1, <3>3
  <2>7. <<Deferred[m][1], Deferred[m][2]>> \notin d.references
    BY <2>6, HasWhat
  <2>8. /\ Deferred[m][1] \in d.tables /\ Deferred[m][2] \in d.tables
        /\ s.table \notin {"role_permissions", "user_roles", "products"}
    BY <2>1, <2>4, <2>5, DeferredTables
  <2> HIDE DEF s
  <2>9. ~Fails(d, s)
    BY <2>5, <2>7, <2>8, AddReferenceSucceeds
  <2>10. QED  BY <2>9 DEF s
<1>4. QED
  <2>1. n \in 1..16 /\ c \in 1..12
    <3> HIDE DEF b, c, l
    <3>1. QED  BY <1>0
  <2> HIDE DEF c
  <2>2. n <= c \/ n > c
    BY <2>1
  <2>3. QED  BY <1>2, <1>3, <2>2

\* How many references a script drops before it drops tables; it drops the
\* table From(v) - i with its statement i.
References(v) == IF v = 1 THEN 4 ELSE 0
From(v) == IF v = 1 THEN 17 ELSE IF v = 3 THEN 20 ELSE 23

LEMMA DropSizes ==
  ASSUME NEW v \in {1, 3, 6}
  PROVE  /\ v = 1 => References(v) = 4 /\ From(v) = 17 /\ Upto(v) = 12
                     /\ Len(Revisions[v].down) = 16
         /\ v = 3 => References(v) = 0 /\ From(v) = 20 /\ Upto(v) = 19
                     /\ Len(Revisions[v].down) = 7
         /\ v = 6 => References(v) = 0 /\ From(v) = 23 /\ Upto(v) = 22
                     /\ Len(Revisions[v].down) = 3
<1>1. /\ v = 1 => References(v) = 4 /\ From(v) = 17
      /\ v = 3 => References(v) = 0 /\ From(v) = 20
      /\ v = 6 => References(v) = 0 /\ From(v) = 23
  BY DEF References, From
<1>2. v = 1 => Len(Revisions[v].down) = 16
  BY Foundation, Chain, Zenon
<1>3. v = 3 => Len(Revisions[v].down) = 7
  BY Growing, Zenon
<1>4. v = 6 => Len(Revisions[v].down) = 3
  BY Growing, Zenon
<1>5. QED  BY <1>1, <1>2, <1>3, <1>4, UptoIs, Zenon

LEMMA DropStatement ==
  ASSUME NEW v \in {1, 3, 6}, NEW i \in 1..Len(Revisions[v].down)
  PROVE  /\ i <= References(v) =>
              /\ v = 1 /\ 5 - i \in 1..4
              /\ Revisions[v].down[i] = DropReference(Deferred[5 - i][1], Deferred[5 - i][2])
         /\ i > References(v) =>
              From(v) - i \in 1..Upto(v) /\ Revisions[v].down[i] = Drop(TableOrder[From(v) - i])
<1>1. CASE v = 1
  <2>1. i \in 1..16 /\ References(v) = 4 /\ From(v) = 17 /\ Upto(v) = 12
    <3>1. Len(Revisions[v].down) = 16
      BY <1>1, DropSizes, Zenon
    <3>2. i \in 1..16
      BY <3>1, Zenon
    <3>3. QED  BY <1>1, <3>2, DropSizes
  <2>2. CASE i <= 4
    <3>1. i \in 1..4 /\ 5 - i \in 1..4 /\ ~(i > 4)
      BY <2>1, <2>2
    <3>2. Revisions[1].down[i] = DropReference(Deferred[5 - i][1], Deferred[5 - i][2])
      BY <3>1, TablesDown, Chain, Zenon
    <3>3. QED  BY <1>1, <2>1, <3>1, <3>2, Zenon
  <2>3. CASE i > 4
    <3>1. i - 4 \in 1..12 /\ 4 + (i - 4) = i /\ 13 - (i - 4) = 17 - i /\ 17 - i \in 1..12
          /\ ~(i <= 4)
      BY <2>1, <2>3
    <3>2. FoundationDrops[4 + (i - 4)] = Drop(TableOrder[13 - (i - 4)])
      BY <3>1, TablesDown, Zenon
    <3>3. Revisions[1].down[i] = Drop(TableOrder[17 - i])
      BY <3>1, <3>2, Chain, Zenon
    <3>4. QED  BY <1>1, <2>1, <3>1, <3>3, Zenon
  <2>4. QED  BY <2>1, <2>2, <2>3
<1>2. CASE v = 3
  <2>1. Len(Revisions[v].down) = 7 /\ References(v) = 0 /\ From(v) = 20 /\ Upto(v) = 19
    BY <1>2, DropSizes, Zenon
  <2>2. i \in 1..7
    BY <2>1, Zenon
  <2>3. 20 - i \in 1..19 /\ ~(i <= 0)
    BY <2>2
  <2>4. Revisions[3].down[i] = Drop(TableOrder[20 - i])
    BY <2>2, TablesDown, Chain, Zenon
  <2>5. QED  BY <1>2, <2>1, <2>3, <2>4, Zenon
<1>3. CASE v = 6
  <2>1. Len(Revisions[v].down) = 3 /\ References(v) = 0 /\ From(v) = 23 /\ Upto(v) = 22
    BY <1>3, DropSizes, Zenon
  <2>2. i \in 1..3
    BY <2>1, Zenon
  <2>3. 23 - i \in 1..22 /\ ~(i <= 0)
    BY <2>2
  <2>4. Revisions[6].down[i] = Drop(TableOrder[23 - i])
    BY <2>2, TablesDown, Chain, Zenon
  <2>5. QED  BY <1>3, <2>1, <2>3, <2>4, Zenon
<1>4. QED  BY <1>1, <1>2, <1>3

\* What a database has while a downgrade script runs.
Reduced(d, v, n) ==
  /\ \A x \in Made[v] : RemovedBefore(Revisions[v].down, n, x) \/ x \in Content(d)
  /\ \A x \in Content(d) :
       x \in Made[v] \union Extra /\ ~RemovedBefore(Revisions[v].down, n, x)

LEMMA ReducedWhat ==
  ASSUME NEW d, Sound(d), NEW v \in 1..7, NEW n, Reduced(d, v, n)
  PROVE  /\ \A t : t \in d.tables <=> /\ <<"table", t, t>> \in Made[v]
                                      /\ ~RemovedBefore(Revisions[v].down, n, <<"table", t, t>>)
         /\ \A a, b : <<a, b>> \in d.references <=>
                        /\ <<"reference", a, b>> \in Made[v]
                        /\ ~RemovedBefore(Revisions[v].down, n, <<"reference", a, b>>)
<1>1. \A a, b, tag : <<tag, a, b>>[1] = tag
  OBVIOUS
<1>2. \A a, b : <<"table", a, b>> \notin Extra /\ <<"reference", a, b>> \notin Extra
  BY <1>1, ExtraRows
<1>3. \A a, b : /\ <<"table", a, b>> \in Content(d) <=>
                     /\ <<"table", a, b>> \in Made[v]
                     /\ ~RemovedBefore(Revisions[v].down, n, <<"table", a, b>>)
                /\ <<"reference", a, b>> \in Content(d) <=>
                     /\ <<"reference", a, b>> \in Made[v]
                     /\ ~RemovedBefore(Revisions[v].down, n, <<"reference", a, b>>)
  BY <1>2 DEF Reduced
<1>4. QED  BY <1>3, ContentOf

\* The tables that are left.
LEMMA TablesLeft ==
  ASSUME NEW d, Sound(d), NEW v \in {1, 3, 6}, NEW n \in 1..Len(Revisions[v].down),
         Reduced(d, v, n), NEW j \in 1..Upto(v)
  PROVE  TableOrder[j] \in d.tables <=> n <= References(v) \/ j <= From(v) - n
<1> DEFINE script == Revisions[v].down
           r == References(v)
           f == From(v)
           u == Upto(v)
           l == Len(script)
           t == TableOrder[j]
           x == <<"table", t, t>>
<1>1. /\ r \in 0..4 /\ f = u + 1 + r /\ u \in 12..22 /\ l \in 1..16 /\ n \in 1..l
      /\ j \in 1..u
  <2>1. /\ v = 1 \/ v = 3 \/ v = 6
        /\ v = 1 => r = 4 /\ f = 17 /\ u = 12 /\ l = 16
        /\ v = 3 => r = 0 /\ f = 20 /\ u = 19 /\ l = 7
        /\ v = 6 => r = 0 /\ f = 23 /\ u = 22 /\ l = 3
    BY DropSizes
  <2>2. n \in 1..l /\ j \in 1..u
    OBVIOUS
  <2> HIDE DEF r, f, u, l
  <2>3. QED  BY <2>1, <2>2
<1>2. x \in Made[v]
  <2>1. v \in 0..7
    OBVIOUS
  <2>2. t \in FirstTables(u)
    BY DEF FirstTables
  <2>3. QED  BY <2>1, <2>2, TablesMade, Zenon
<1>3. t \in d.tables <=> ~RemovedBefore(script, n, x)
  <2>1. v \in 1..7
    OBVIOUS
  <2>2. QED  BY <1>2, <2>1, ReducedWhat, Zenon
<1>4. ASSUME NEW i \in 1..(n - 1)
      PROVE  Removes(script[i], x) <=> i > r /\ j = f - i
  <2>1. i \in 1..l /\ (i <= r \/ i > r) /\ ~(i <= r /\ i > r)
    <3> HIDE DEF r, l, f, u
    <3>1. n \in 1..16 /\ n \in 1..l /\ l \in 1..16 /\ r \in 0..4
      BY <1>1
    <3>2. QED  BY <3>1
  <2>2. x[1] = "table" /\ x[2] = t
    OBVIOUS
  <2>3. CASE i <= r
    <3>1. script[i] = DropReference(Deferred[5 - i][1], Deferred[5 - i][2])
      BY <2>1, <2>3, DropStatement, Zenon
    <3>2. script[i].do = "dropReference"
      BY <3>1 DEF DropReference
    <3>3. ~Removes(script[i], x)
      BY <2>2, <3>2 DEF Removes
    <3>4. QED  BY <2>1, <2>3, <3>3
  <2>4. CASE i > r
    <3>1. f - i \in 1..u /\ script[i] = Drop(TableOrder[f - i])
      BY <2>1, <2>4, DropStatement, Zenon
    <3>2. script[i].do = "drop" /\ script[i].table = TableOrder[f - i]
      BY <3>1 DEF Drop
    <3>3. Removes(script[i], x) <=> t = TableOrder[f - i]
      BY <2>2, <3>2 DEF Removes
    <3>4. f - i \in 1..22 /\ j \in 1..22
      <4>1. u \in 12..22 /\ j \in 1..u /\ f - i \in 1..u
        BY <1>1, <3>1
      <4> DEFINE k == f - i
      <4> HIDE DEF k
      <4>a. k \in 1..u
        BY <4>1 DEF k
      <4> HIDE DEF u, f, l, r
      <4>2. k \in 1..22 /\ j \in 1..22
        BY <4>1, <4>a
      <4>3. QED  BY <4>2 DEF k
    <3>5. t = TableOrder[f - i] <=> j = f - i
      BY <3>4, Order, Zenon
    <3>6. QED  BY <2>4, <3>3, <3>5, Zenon
  <2>5. QED  BY <2>1, <2>3, <2>4
<1>5. RemovedBefore(script, n, x) <=> \E i \in 1..(n - 1) : i > r /\ j = f - i
  BY <1>4 DEF RemovedBefore
<1> HIDE DEF r, f, u, l, script, x, t
<1>6. (\E i \in 1..(n - 1) : i > r /\ j = f - i) <=> ~(n <= r \/ j <= f - n)
  <2>1. /\ r \in 0..4 /\ f = u + 1 + r /\ u \in 12..22 /\ n \in 1..16 /\ j \in 1..u
    BY <1>1
  <2>2. ASSUME NEW i \in 1..(n - 1), i > r, j = f - i
        PROVE  ~(n <= r \/ j <= f - n)
    BY <2>1, <2>2
  <2>3. ASSUME ~(n <= r \/ j <= f - n)
        PROVE  \E i \in 1..(n - 1) : i > r /\ j = f - i
    <3>1. f - j \in 1..(n - 1) /\ f - j > r /\ j = f - (f - j)
      BY <2>1, <2>3
    <3>2. QED  BY <3>1
  <2>4. QED  BY <2>2, <2>3
<1>7. QED  BY <1>3, <1>5, <1>6 DEF t, r, f

\* A reference that was deferred is there until its own statement.
LEMMA DeferredThere ==
  ASSUME NEW d, Sound(d), NEW n \in 1..4, Reduced(d, 1, n)
  PROVE  <<Deferred[5 - n][1], Deferred[5 - n][2]>> \in d.references
<1> DEFINE m == 5 - n
           x == <<"reference", Deferred[m][1], Deferred[m][2]>>
<1>1. m \in 1..4
  OBVIOUS
<1>2. x \in Made[1]
  BY <1>1, DeferredMade, Zenon
<1>3. ASSUME NEW i \in 1..(n - 1), Removes(Revisions[1].down[i], x)
      PROVE  FALSE
  <2>1. i \in 1..4 /\ i # n /\ 5 - i \in 1..4 /\ i \in 1..16
    OBVIOUS
  <2>2. Revisions[1].down[i] = DropReference(Deferred[5 - i][1], Deferred[5 - i][2])
    BY <2>1, TablesDown, Chain, Zenon
  <2>3. /\ Revisions[1].down[i].do = "dropReference"
        /\ Revisions[1].down[i].table = Deferred[5 - i][1]
        /\ Revisions[1].down[i].ref = Deferred[5 - i][2]
    BY <2>2 DEF DropReference
  <2>4. x[2] = Deferred[m][1] /\ x[3] = Deferred[m][2]
    OBVIOUS
  <2>5. Deferred[5 - i][1] = Deferred[m][1] /\ Deferred[5 - i][2] = Deferred[m][2]
    BY <1>3, <2>3, <2>4 DEF Removes
  <2>6. 5 - i = m
    BY <1>1, <2>1, <2>5, DeferredTables, Zenon
  <2>7. QED  BY <2>1, <2>6
<1>4. ~RemovedBefore(Revisions[1].down, n, x)
  BY <1>3 DEF RemovedBefore
<1>5. QED  BY <1>2, <1>4, ReducedWhat

LEMMA DeferredGone ==
  ASSUME NEW d, Sound(d), NEW n \in 5..16, Reduced(d, 1, n), NEW k \in 1..4
  PROVE  <<Deferred[k][1], Deferred[k][2]>> \notin d.references
<1> DEFINE i == 5 - k
           x == <<"reference", Deferred[k][1], Deferred[k][2]>>
<1>1. i \in 1..4 /\ 5 - i = k /\ i \in 1..(n - 1)
  OBVIOUS
<1>2. Revisions[1].down[i] = DropReference(Deferred[5 - i][1], Deferred[5 - i][2])
  BY <1>1, TablesDown, Chain, Zenon
<1>3. /\ Revisions[1].down[i].do = "dropReference"
      /\ Revisions[1].down[i].table = Deferred[k][1]
      /\ Revisions[1].down[i].ref = Deferred[k][2]
  BY <1>1, <1>2 DEF DropReference
<1>4. Removes(Revisions[1].down[i], x)
  BY <1>3 DEF Removes
<1>5. RemovedBefore(Revisions[1].down, n, x)
  BY <1>1, <1>4 DEF RemovedBefore
<1>6. QED  BY <1>5, ReducedWhat

\* When a table is dropped, only it may refer to itself.
LEMMA NothingRefersToIt ==
  ASSUME NEW d, Sound(d), NEW v \in {1, 3, 6}, NEW n \in 1..Len(Revisions[v].down),
         Reduced(d, v, n), n > References(v), NEW f \in d.references,
         f[2] = TableOrder[From(v) - n]
  PROVE  f[1] = f[2]
<1> DEFINE m == From(v) - n
<1>1. /\ v \in 0..7 /\ v \in 1..7
      /\ f = <<f[1], f[2]>> /\ f[1] \in d.tables
  BY DEF Sound
<1>2. <<"reference", f[1], f[2]>> \in Made[v]
  BY <1>1, ReducedWhat
<1>3. Upto(v) \in 12..22 /\ m \in 1..Upto(v)
  <2>1. m \in 1..Upto(v)
    BY DropStatement, Zenon
  <2>2. QED  BY <2>1, DropSizes
<1>4. m \in 1..22 /\ (v # 1 => m > 12)
  <2> DEFINE from == From(v)
             l == Len(Revisions[v].down)
             u == Upto(v)
  <2>1. /\ v = 3 => from = 20 /\ l = 7
        /\ v = 6 => from = 23 /\ l = 3
        /\ v = 1 \/ v = 3 \/ v = 6
        /\ u \in 12..22 /\ m \in 1..u /\ n \in 1..l /\ m = from - n
    BY <1>3, DropSizes
  <2>2. m \in 1..22
    <3>1. u \in 12..22 /\ m \in 1..u
      BY <2>1
    <3> HIDE DEF u, m
    <3>2. QED  BY <3>1
  <2> HIDE DEF from, l, m, u
  <2>3. v = 3 => m > 12
    BY <2>1
  <2>4. v = 6 => m > 12
    BY <2>1
  <2>5. QED  BY <2>1, <2>2, <2>3, <2>4
<1>5. CASE Backwards(f[1], f[2])
  <2>0. PICK i \in 1..22 : \E j \in 1..i : f[1] = TableOrder[i] /\ f[2] = TableOrder[j]
    BY <1>5 DEF Backwards
  <2>1. PICK j \in 1..i : f[1] = TableOrder[i] /\ f[2] = TableOrder[j]
    BY <2>0
  <2>2. j \in 1..22 /\ TableOrder[j] = TableOrder[m]
    BY <2>1
  <2>3. j = m
    BY <1>4, <2>2, Order, Zenon
  <2>4. i <= Upto(v)
    <3>1. <<"table", f[1], f[1]>> \in Made[v]
      BY <1>1, ReducedWhat
    <3>2. f[1] \in FirstTables(Upto(v))
      BY <1>1, <3>1, TablesMade
    <3>3. PICK h \in 1..Upto(v) : f[1] = TableOrder[h]
      BY <3>2 DEF FirstTables
    <3>4. h \in 1..22
      <4> DEFINE u == Upto(v)
      <4>1. u \in 12..22 /\ h \in 1..u
        BY <1>3, <3>3
      <4> HIDE DEF u
      <4>2. QED  BY <4>1
    <3>5. TableOrder[h] = TableOrder[i]
      BY <2>1, <3>3
    <3>6. h = i
      BY <3>4, <3>5, Order, Zenon
    <3>7. QED  BY <1>3, <3>3, <3>6
  <2>5. i \in 1..Upto(v)
    BY <1>3, <2>1, <2>4
  <2>6. TableOrder[i] \in d.tables
    BY <1>1, <2>1
  <2>7. n <= References(v) \/ i <= m
    BY <2>5, <2>6, TablesLeft, Zenon
  <2>8. ~(n <= References(v))
    <3>1. References(v) \in 0..4 /\ Len(Revisions[v].down) \in 1..16
      BY DropSizes
    <3>2. QED  BY <3>1
  <2>9. i = m
    <3> HIDE DEF m
    <3>1. QED  BY <1>4, <2>1, <2>3, <2>7, <2>8
  <2>10. QED  BY <2>1, <2>9
<1>6. CASE IsDeferred(f[1], f[2])
  <2>1. PICK k \in 1..4 : f[1] = Deferred[k][1] /\ f[2] = Deferred[k][2]
    BY <1>6 DEF IsDeferred
  <2>2. CASE v = 1
    <3>1. Len(Revisions[v].down) = 16 /\ References(v) = 4
      BY <2>2, DropSizes, Zenon
    <3>2. n \in 5..16
      BY <3>1
    <3>3. Reduced(d, 1, n)
      BY <2>2
    <3>4. <<Deferred[k][1], Deferred[k][2]>> \notin d.references
      BY <3>2, <3>3, DeferredGone, Zenon
    <3>5. QED  BY <1>1, <2>1, <3>4
  <2>3. CASE v # 1
    <3>1. TableOrder[m] \in FirstTables(12)
      BY <2>1, DeferredTables
    <3>2. PICK h \in 1..12 : TableOrder[m] = TableOrder[h]
      BY <3>1 DEF FirstTables
    <3>3. h \in 1..22
      BY <3>2
    <3>4. h = m
      BY <1>4, <3>2, <3>3, Order, Zenon
    <3> HIDE DEF m
    <3>5. QED  BY <1>4, <2>3, <3>2, <3>4
  <2>4. QED  BY <2>2, <2>3
<1>7. QED  BY <1>1, <1>2, <1>5, <1>6, ReferencesMade

LEMMA DropScriptSucceeds ==
  ASSUME NEW d, Sound(d), ~Dangling(d), NEW v \in {1, 3, 6},
         NEW n \in 1..Len(Revisions[v].down), Reduced(d, v, n)
  PROVE  ~Fails(d, Revisions[v].down[n])
<1> DEFINE s == Revisions[v].down[n]
<1>1. References(v) \in 0..4 /\ Len(Revisions[v].down) \in 1..16
  BY DropSizes
<1>2. n \in 1..16 /\ (n <= References(v) \/ n > References(v))
  <2> DEFINE l == Len(Revisions[v].down)
             r == References(v)
  <2>1. l \in 1..16 /\ r \in 0..4 /\ n \in 1..l
    BY <1>1
  <2> HIDE DEF l, r
  <2>2. n \in 1..16 /\ (n <= r \/ n > r)
    BY <2>1
  <2>3. QED  BY <2>2 DEF r
<1>3. CASE n <= References(v)
  <2>1. v = 1 /\ s = DropReference(Deferred[5 - n][1], Deferred[5 - n][2])
    BY <1>3, DropStatement, Zenon
  <2>2. n \in 1..4
    BY <1>1, <1>2, <1>3
  <2>3. Reduced(d, 1, n)
    BY <2>1
  <2>4. <<Deferred[5 - n][1], Deferred[5 - n][2]>> \in d.references
    BY <2>2, <2>3, DeferredThere, Zenon
  <2>5. /\ s.do = "dropReference" /\ s.table = Deferred[5 - n][1]
        /\ s.ref = Deferred[5 - n][2]
    BY <2>1 DEF DropReference
  <2> HIDE DEF s
  <2>6. ~Fails(d, s)
    BY <2>4, <2>5, DropReferenceSucceeds
  <2>7. QED  BY <2>6 DEF s
<1>4. CASE n > References(v)
  <2> DEFINE m == From(v) - n
  <2>1. m \in 1..Upto(v) /\ s = Drop(TableOrder[m])
    BY <1>4, DropStatement, Zenon
  <2>2. s.do = "drop" /\ s.table = TableOrder[m]
    BY <2>1 DEF Drop
  <2>3. TableOrder[m] \in d.tables
    <3>1. m <= From(v) - n
      <4>1. Upto(v) \in Nat
        BY DropSizes
      <4>2. QED  BY <2>1, <4>1
    <3>2. TableOrder[m] \in d.tables <=> n <= References(v) \/ m <= From(v) - n
      BY <2>1, TablesLeft, Zenon
    <3>3. QED  BY <3>1, <3>2
  <2>4. \A f \in d.references : f[2] = TableOrder[m] => f[1] = f[2]
    BY <1>4, NothingRefersToIt, Zenon
  <2> HIDE DEF m, s
  <2>5. \A f \in d.references : f[2] = s.table => f[1] = s.table
    BY <2>2, <2>4
  <2>6. ~Fails(d, s)
    BY <2>2, <2>3, <2>5, DropSucceeds
  <2>7. QED  BY <2>6 DEF s
<1>5. QED  BY <1>2, <1>3, <1>4

-----------------------------------------------------------------------------
\* The seeds.

LEMMA SeedUpAt ==
  /\ Revisions[2].up[1] = Insert("permissions", {"identity"})
  /\ Revisions[2].up[2] = Insert("roles", AllRoles)
  /\ Revisions[2].up[3] = Insert("role_permissions", DefaultGrants)
  /\ Revisions[4].up[1] = Insert("units", {"default"})
  /\ Revisions[5].up[1] = Insert("permissions", {"catalogue"})
  /\ Revisions[5].up[2] = LookUp("roles", AllRoles)
  /\ Revisions[5].up[3] = Insert("role_permissions", CatalogueGrants)
  /\ Revisions[7].up[1] = InsertMissing("permissions", {"inventory"})
  /\ Revisions[7].up[2] = LookUp("roles", {SuperAdmin, "Admin", "Manager"})
  /\ Revisions[7].up[3] = InsertMissing("role_permissions", InventoryGrants)
<1>1. \A a, b, c : <<a, b, c>>[1] = a /\ <<a, b, c>>[2] = b /\ <<a, b, c>>[3] = c
  OBVIOUS
<1>2. \A a : <<a>>[1] = a
  OBVIOUS
<1>3. /\ RolesSeed[1] = Insert("permissions", {"identity"}) /\ RolesSeed[2] = Insert("roles", AllRoles)
      /\ RolesSeed[3] = Insert("role_permissions", DefaultGrants)
  BY <1>1, Zenon DEF RolesSeed
<1>4. UnitsSeed[1] = Insert("units", {"default"})
  BY <1>2, Zenon DEF UnitsSeed
<1>5. /\ CatalogueSeed[1] = Insert("permissions", {"catalogue"})
      /\ CatalogueSeed[2] = LookUp("roles", AllRoles)
      /\ CatalogueSeed[3] = Insert("role_permissions", CatalogueGrants)
  BY <1>1, Zenon DEF CatalogueSeed
<1>6. /\ InventorySeed[1] = InsertMissing("permissions", {"inventory"})
      /\ InventorySeed[2] = LookUp("roles", {SuperAdmin, "Admin", "Manager"})
      /\ InventorySeed[3] = InsertMissing("role_permissions", InventoryGrants)
  BY <1>1, Zenon DEF InventorySeed
<1>7. QED  BY <1>3, <1>4, <1>5, <1>6, Chain, Zenon

LEMMA SeedDownAt ==
  /\ Revisions[2].down[1] = Delete("role_permissions", AllRoles \X {"identity", "catalogue", "inventory"})
  /\ Revisions[2].down[2] = Delete("roles", AllRoles)
  /\ Revisions[2].down[3] = Delete("permissions", {"identity"})
  /\ Revisions[4].down[1] = Delete("units", {"default"})
  /\ Revisions[5].down[1] = Delete("role_permissions", AllRoles \X {"catalogue"})
  /\ Revisions[5].down[2] = Delete("permissions", {"catalogue"})
  /\ Revisions[7].down[1] = Delete("role_permissions", AllRoles \X {"inventory"})
  /\ Revisions[7].down[2] = Delete("permissions", {"inventory"})
<1>1. \A a, b, c : <<a, b, c>>[1] = a /\ <<a, b, c>>[2] = b /\ <<a, b, c>>[3] = c
  OBVIOUS
<1>2. \A a, b : <<a, b>>[1] = a /\ <<a, b>>[2] = b
  OBVIOUS
<1>3. \A a : <<a>>[1] = a
  OBVIOUS
<1>4. /\ RolesUnseed[1] = Delete("role_permissions", AllRoles \X {"identity", "catalogue", "inventory"})
      /\ RolesUnseed[2] = Delete("roles", AllRoles)
      /\ RolesUnseed[3] = Delete("permissions", {"identity"})
  BY <1>1, Zenon DEF RolesUnseed
<1>5. UnitsUnseed[1] = Delete("units", {"default"})
  BY <1>3, Zenon DEF UnitsUnseed
<1>6. /\ CatalogueUnseed[1] = Delete("role_permissions", AllRoles \X {"catalogue"})
      /\ CatalogueUnseed[2] = Delete("permissions", {"catalogue"})
  BY <1>2, Zenon DEF CatalogueUnseed
<1>7. /\ InventoryUnseed[1] = Delete("role_permissions", AllRoles \X {"inventory"})
      /\ InventoryUnseed[2] = Delete("permissions", {"inventory"})
  BY <1>2, Zenon DEF InventoryUnseed
<1>8. QED  BY <1>4, <1>5, <1>6, <1>7, Chain, Zenon

LEMMA Grants ==
  /\ DefaultGrants \subseteq AllRoles \X {"identity"}
  /\ CatalogueGrants \subseteq AllRoles \X {"catalogue"}
  /\ InventoryGrants \subseteq AllRoles \X {"inventory"}
  /\ \A row \in DefaultGrants \union CatalogueGrants \union InventoryGrants : row[1] \in AllRoles
  /\ {SuperAdmin, "Admin", "Manager"} \subseteq AllRoles
BY DEF DefaultGrants, CatalogueGrants, InventoryGrants, AllRoles, SuperAdmin

LEMMA MakesRow ==
  ASSUME NEW s, s.do \in Adding
  PROVE  \A t, r : <<"row", t, r>> \in Makes(s) <=>
                     s.do \in {"insert", "insertMissing"} /\ t = s.table /\ r \in s.rows
BY MakesWhat

\* The rows of the last seed, and those that a revision has, seed by seed.
LateRow(t, r) ==
  \/ t = "permissions" /\ r = "inventory"
  \/ t = "role_permissions" /\ r \in AllRoles \X {"inventory"}

SeedRow(v, t, r) ==
  \/ v >= 2 /\ \/ t = "permissions" /\ r = "identity"
               \/ t = "roles" /\ r \in AllRoles
               \/ t = "role_permissions" /\ r \in AllRoles \X {"identity"}
  \/ v >= 4 /\ t = "units" /\ r = "default"
  \/ v >= 5 /\ \/ t = "permissions" /\ r = "catalogue"
               \/ t = "role_permissions" /\ r \in AllRoles \X {"catalogue"}
  \/ v >= 7 /\ LateRow(t, r)

LEMMA RowsMade ==
  ASSUME NEW v \in 0..7, NEW t, NEW r, <<"row", t, r>> \in Made[v]
  PROVE  SeedRow(v, t, r)
<1> DEFINE x == <<"row", t, r>>
<1>1. v # 0
  BY MadeStep
<1>2. v \in 1..7
  BY <1>1
<1>3. Bound(v, x)
  BY <1>2, MadeBound
<1>4. x[1] = "row" /\ x[2] = t /\ x[3] = r
  OBVIOUS
<1> HIDE DEF x
<1>5. QED  BY <1>3, <1>4 DEF Bound, IsPart, IsRow, SeedRow, LateRow

LEMMA RowsExtra ==
  ASSUME NEW t, NEW r, <<"row", t, r>> \in Extra
  PROVE  LateRow(t, r)
<1> DEFINE x == <<"row", t, r>>
<1>1. x[2] = t /\ x[3] = r
  OBVIOUS
<1>2. x \in MadeBy(Revisions[7].up)
  BY ExtraRows
<1> HIDE DEF x
<1>3. QED  BY <1>1, <1>2, SeedScripts DEF IsRow, LateRow

\* The tables of seeded rows are there when their seeds run.
LEMMA SeededAreFirst ==
  /\ {"permissions", "roles", "role_permissions"} \subseteq FirstTables(12)
  /\ {"permissions", "roles", "role_permissions"} \subseteq FirstTables(19)
  /\ {"permissions", "roles", "role_permissions"} \subseteq FirstTables(22)
  /\ "units" \in FirstTables(19)
<1>1. /\ \A i \in 1..12 : TableOrder[i] \in FirstTables(12) /\ TableOrder[i] \in FirstTables(22)
      /\ \A i \in 1..19 : TableOrder[i] \in FirstTables(19)
  BY DEF FirstTables
<1>2. 2 \in 1..12 /\ 4 \in 1..12 /\ 9 \in 1..12 /\ 2 \in 1..19 /\ 4 \in 1..19 /\ 9 \in 1..19
      /\ 15 \in 1..19
  OBVIOUS
<1>3. QED  BY <1>1, <1>2, TableAt

LEMMA RolesMade ==
  ASSUME NEW v \in 2..7, NEW r \in AllRoles
  PROVE  <<"row", "roles", r>> \in Made[v]
<1> DEFINE s == Insert("roles", AllRoles)
<1>1. s.do \in Adding /\ s.do = "insert" /\ s.table = "roles" /\ s.rows = AllRoles
  BY DEF Insert, Adding
<1>2. Revisions[2].up[2] = s /\ 2 \in DOMAIN Revisions[2].up
  <2>1. IsScript(Revisions[2].up) /\ Len(Revisions[2].up) = 3
    BY Seeding
  <2>2. QED  BY <2>1, SeedUpAt DEF IsScript
<1>3. Makes(s) \subseteq MadeBy(Revisions[2].up)
  BY <1>2 DEF MadeBy
<1> HIDE DEF s
<1>4. <<"row", "roles", r>> \in Makes(s)
  BY <1>1, MakesRow
<1>5. Made[v] = UNION {MadeBy(Revisions[u].up) : u \in 1..v}
  BY Chain DEF Made
<1>6. 2 \in 1..v
  OBVIOUS
<1>7. QED  BY <1>3, <1>4, <1>5, <1>6

\* A seed finds its tables, none of its rows, and the rows it points to.
LEMMA SeedInserts ==
  ASSUME NEW d, Sound(d), ~Dangling(d), NEW least, Has(d, least),
         NEW t \in SeededTables, <<"table", t, t>> \in least, NEW rows, NEW s,
         \/ /\ s = Insert(t, rows)
            /\ \A r \in rows : <<"row", t, r>> \notin least /\ ~LateRow(t, r)
         \/ s = InsertMissing(t, rows),
         t = "role_permissions" => \A row \in rows : /\ <<"row", "roles", row[1]>> \in least
                                                     /\ <<"row", "permissions", row[2]>> \in least
  PROVE  ~Fails(d, s)
<1>1. t \in d.tables
  BY HasWhat
<1>2. s.do \in {"insert", "insertMissing"} /\ s.table = t /\ s.rows = rows
  BY DEF Insert, InsertMissing
<1>3. s.do = "insert" => rows \intersect d.rows[t] = {}
  <2>1. ASSUME s.do = "insert", NEW r \in rows, r \in d.rows[t]
        PROVE  FALSE
    <3>1. <<"row", t, r>> \notin least /\ ~LateRow(t, r)
      BY <2>1 DEF InsertMissing
    <3>2. <<"row", t, r>> \in Content(d)
      BY <2>1, ContentOf
    <3>3. <<"row", t, r>> \in Extra
      BY <3>1, <3>2 DEF Has
    <3>4. QED  BY <3>1, <3>3, RowsExtra
  <2>2. QED  BY <2>1
<1>4. t = "role_permissions" => \A row \in rows : /\ row[1] \in d.rows["roles"]
                                                  /\ row[2] \in d.rows["permissions"]
  BY HasWhat
<1>5. QED  BY <1>1, <1>2, <1>3, <1>4, InsertSucceeds

\* What the earlier statements of a seed have made.
LEMMA SeedSoFar ==
  ASSUME NEW v \in {2, 4, 5, 7}
  PROVE  /\ MadeBefore(Revisions[v].up, 1) = {}
         /\ MadeBefore(Revisions[v].up, 2) = Makes(Revisions[v].up[1])
         /\ MadeBefore(Revisions[v].up, 3) =
              Makes(Revisions[v].up[1]) \union Makes(Revisions[v].up[2])
<1>1. 1..(1 - 1) = {} /\ 1..(2 - 1) = {1} /\ 1..(3 - 1) = {1, 2}
  OBVIOUS
<1>2. QED  BY <1>1 DEF MadeBefore

LEMMA InsertMakes ==
  ASSUME NEW u, NEW rows, NEW s, s = Insert(u, rows) \/ s = InsertMissing(u, rows)
  PROVE  \A t, r : <<"row", t, r>> \in Makes(s) <=> t = u /\ r \in rows
<1>1. s.do \in Adding /\ s.do \in {"insert", "insertMissing"} /\ s.table = u /\ s.rows = rows
  BY DEF Insert, InsertMissing, Adding
<1>2. QED  BY <1>1, MakesRow

LEMMA SeedTablesThere ==
  ASSUME NEW v \in {2, 4, 5, 7}, NEW u \in {v - 1, v}
  PROVE  /\ <<"table", "permissions", "permissions">> \in Made[u]
         /\ <<"table", "roles", "roles">> \in Made[u]
         /\ <<"table", "role_permissions", "role_permissions">> \in Made[u]
         /\ v = 4 => <<"table", "units", "units">> \in Made[u]
<1>1. u \in 1..7 /\ u \in 0..7 /\ (v = 4 => u = 3 \/ u = 4)
  OBVIOUS
<1>2. Upto(u) \in {12, 19, 22} /\ (v = 4 => Upto(u) = 19)
  BY <1>1, UptoIs
<1>3. QED  BY <1>1, <1>2, SeededAreFirst, TablesMade

LEMMA RolesSeedSucceeds ==
  ASSUME NEW d, Sound(d), ~Dangling(d), NEW n \in 1..3,
         Has(d, Made[1] \union MadeBefore(Revisions[2].up, n))
  PROVE  ~Fails(d, Revisions[2].up[n])
<1> DEFINE least == Made[1] \union MadeBefore(Revisions[2].up, n)
<1>1. /\ <<"table", "permissions", "permissions">> \in least
      /\ <<"table", "roles", "roles">> \in least
      /\ <<"table", "role_permissions", "role_permissions">> \in least
  BY SeedTablesThere
<1>2. \A t, r : <<"row", t, r>> \notin Made[1]
  <2>1. \A t, r : <<"row", t, r>> \in Made[1] => SeedRow(1, t, r)
    BY RowsMade
  <2>2. \A t, r : ~SeedRow(1, t, r)
    BY DEF SeedRow
  <2>3. QED  BY <2>1, <2>2
<1> DEFINE m1 == Makes(Revisions[2].up[1])
           m2 == Makes(Revisions[2].up[2])
<1>3. /\ \A t, r : <<"row", t, r>> \in m1 <=> t = "permissions" /\ r \in {"identity"}
      /\ \A t, r : <<"row", t, r>> \in m2 <=> t = "roles" /\ r \in AllRoles
  BY InsertMakes, SeedUpAt
<1>4. /\ n = 1 => least = Made[1]
      /\ n = 2 => least = Made[1] \union m1
      /\ n = 3 => least = Made[1] \union m1 \union m2
  BY SeedSoFar
<1> HIDE DEF m1, m2, least
<1>5. {"permissions", "roles", "role_permissions"} \subseteq SeededTables
  BY DEF SeededTables
<1>6. Has(d, least)
  BY DEF least
<1>7. CASE n = 1
  <2>1. \A r \in {"identity"} : <<"row", "permissions", r>> \notin least /\ ~LateRow("permissions", r)
    BY <1>2, <1>4, <1>7 DEF LateRow
  <2> DEFINE rows == {"identity"}
             t == "permissions"
  <2>2. \A r \in rows : <<"row", t, r>> \notin least /\ ~LateRow(t, r)
    BY <2>1
  <2>3. Revisions[2].up[n] = Insert(t, rows)
    BY <1>7, SeedUpAt
  <2>4. t \in SeededTables /\ <<"table", t, t>> \in least /\ t # "role_permissions"
    BY <1>1, <1>5
  <2> HIDE DEF t, rows
  <2>5. QED  BY <1>6, <2>2, <2>3, <2>4, SeedInserts
<1>8. CASE n = 2
  <2> DEFINE t == "roles"
  <2>1. \A r \in AllRoles : <<"row", t, r>> \notin least /\ ~LateRow(t, r)
    BY <1>2, <1>3, <1>4, <1>8 DEF LateRow
  <2>2. Revisions[2].up[n] = Insert(t, AllRoles)
    BY <1>8, SeedUpAt
  <2>3. t \in SeededTables /\ <<"table", t, t>> \in least /\ t # "role_permissions"
    BY <1>1, <1>5
  <2> HIDE DEF t
  <2>4. QED  BY <1>6, <2>1, <2>2, <2>3, SeedInserts
<1>9. CASE n = 3
  <2> DEFINE t == "role_permissions"
  <2>1. \A r \in DefaultGrants : r[1] \in AllRoles /\ r[2] = "identity"
    BY DEF DefaultGrants, AllRoles
  <2>2. \A r \in DefaultGrants : <<"row", t, r>> \notin least /\ ~LateRow(t, r)
    BY <1>2, <1>3, <1>4, <1>9, <2>1 DEF LateRow
  <2>3. \A r \in DefaultGrants : <<"row", "roles", r[1]>> \in least /\ <<"row", "permissions", r[2]>> \in least
    BY <1>3, <1>4, <1>9, <2>1
  <2>4. Revisions[2].up[n] = Insert(t, DefaultGrants)
    BY <1>9, SeedUpAt
  <2>5. t \in SeededTables /\ <<"table", t, t>> \in least
    BY <1>1, <1>5
  <2> HIDE DEF t
  <2>6. QED  BY <1>6, <2>2, <2>3, <2>4, <2>5, SeedInserts
<1>10. QED  BY <1>7, <1>8, <1>9

LEMMA UnitsSeedSucceeds ==
  ASSUME NEW d, Sound(d), ~Dangling(d), Has(d, Made[3] \union MadeBefore(Revisions[4].up, 1))
  PROVE  ~Fails(d, Revisions[4].up[1])
<1> DEFINE rows == {"default"}
           t == "units"
<1>1. Has(d, Made[3])
  BY SeedSoFar
<1>2. \A r \in rows : <<"row", t, r>> \notin Made[3] /\ ~LateRow(t, r)
  <2>1. \A r : <<"row", t, r>> \in Made[3] => SeedRow(3, t, r)
    BY RowsMade
  <2>2. \A r : ~SeedRow(3, t, r) /\ ~LateRow(t, r)
    BY DEF SeedRow, LateRow
  <2>3. QED  BY <2>1, <2>2
<1>3. t \in SeededTables /\ <<"table", t, t>> \in Made[3] /\ t # "role_permissions"
  BY SeedTablesThere DEF SeededTables
<1>4. Revisions[4].up[1] = Insert(t, rows)
  BY SeedUpAt
<1> HIDE DEF t, rows
<1>5. QED  BY <1>1, <1>2, <1>3, <1>4, SeedInserts

\* The seeds of the catalogue and of the inventory look the roles up.
LEMMA LaterSeedSucceeds ==
  ASSUME NEW d, Sound(d), ~Dangling(d), NEW v \in {5, 7}, NEW n \in 1..3,
         Has(d, Made[v - 1] \union MadeBefore(Revisions[v].up, n))
  PROVE  ~Fails(d, Revisions[v].up[n])
<1> DEFINE least == Made[v - 1] \union MadeBefore(Revisions[v].up, n)
           p == IF v = 5 THEN "catalogue" ELSE "inventory"
           grants == IF v = 5 THEN CatalogueGrants ELSE InventoryGrants
           sought == IF v = 5 THEN AllRoles ELSE {SuperAdmin, "Admin", "Manager"}
           m1 == Makes(Revisions[v].up[1])
           m2 == Makes(Revisions[v].up[2])
           permitted == {p}
<1>1. /\ <<"table", "permissions", "permissions">> \in least
      /\ <<"table", "roles", "roles">> \in least
      /\ <<"table", "role_permissions", "role_permissions">> \in least
  BY SeedTablesThere
<1>2. /\ \/ v = 5 /\ Revisions[v].up[1] = Insert("permissions", permitted)
         \/ v = 7 /\ Revisions[v].up[1] = InsertMissing("permissions", permitted)
      /\ Revisions[v].up[2] = LookUp("roles", sought)
      /\ \/ v = 5 /\ Revisions[v].up[3] = Insert("role_permissions", grants)
         \/ v = 7 /\ Revisions[v].up[3] = InsertMissing("role_permissions", grants)
  <2>1. CASE v = 5
    BY <2>1, SeedUpAt
  <2>2. CASE v = 7
    BY <2>2, SeedUpAt
  <2>3. QED  BY <2>1, <2>2
<1>3. sought \subseteq AllRoles /\ \A row \in grants : row[1] \in AllRoles /\ row[2] = p
  BY Grants DEF CatalogueGrants, InventoryGrants, AllRoles, SuperAdmin
<1>4. v = 5 => /\ \A t, r : <<"row", t, r>> \in Made[v - 1] => SeedRow(4, t, r)
               /\ p = "catalogue"
  BY RowsMade
<1>5. \A r \in AllRoles : <<"row", "roles", r>> \in Made[v - 1]
  <2>1. v - 1 \in 2..7
    OBVIOUS
  <2>2. QED  BY <2>1, RolesMade
<1>6. /\ n = 1 => least = Made[v - 1]
      /\ n = 2 => least = Made[v - 1] \union m1
      /\ n = 3 => least = Made[v - 1] \union m1 \union m2
  BY SeedSoFar
<1> HIDE DEF permitted, grants, sought
<1>7. /\ \A t, r : <<"row", t, r>> \in m1 <=> t = "permissions" /\ r \in permitted
      /\ m2 = {}
  BY <1>2, InsertMakes, MakesRows
<1>8. Has(d, least) /\ {"permissions", "roles", "role_permissions"} \subseteq SeededTables
  BY DEF SeededTables
<1> HIDE DEF m1, m2, least, p
<1>9. CASE n = 1
  <2> DEFINE t == "permissions"
  <2>1. v = 5 => \A r \in permitted : <<"row", t, r>> \notin least /\ ~LateRow(t, r)
    BY <1>4, <1>6, <1>9 DEF SeedRow, LateRow, permitted
  <2>2. t \in SeededTables /\ <<"table", t, t>> \in least /\ t # "role_permissions"
    BY <1>1, <1>8
  <2>3. \/ v = 5 /\ Revisions[v].up[n] = Insert(t, permitted)
        \/ v = 7 /\ Revisions[v].up[n] = InsertMissing(t, permitted)
    BY <1>2, <1>9
  <2> HIDE DEF t
  <2>4. QED  BY <1>8, <2>1, <2>2, <2>3, SeedInserts
<1>10. CASE n = 2
  <2>1. "roles" \in d.tables /\ \A r \in AllRoles : r \in d.rows["roles"]
    BY <1>1, <1>5, <1>6, <1>8, <1>10, HasWhat
  <2>2. /\ Revisions[v].up[n].do = "lookUp" /\ Revisions[v].up[n].table = "roles"
        /\ Revisions[v].up[n].rows = sought
    BY <1>2, <1>10 DEF LookUp
  <2>3. sought \subseteq d.rows["roles"]
    BY <1>3, <2>1
  <2>4. QED  BY <2>1, <2>2, <2>3, LookUpSucceeds
<1>11. CASE n = 3
  <2> DEFINE t == "role_permissions"
  <2>1. v = 5 => \A r \in grants : <<"row", t, r>> \notin least /\ ~LateRow(t, r)
    <3>1. ASSUME v = 5, NEW r \in grants
          PROVE  ~SeedRow(4, t, r) /\ ~LateRow(t, r)
      BY <1>3, <1>4, <3>1 DEF SeedRow, LateRow
    <3>2. QED  BY <1>4, <1>6, <1>7, <1>11, <3>1
  <2>2. \A r \in grants : <<"row", "roles", r[1]>> \in least /\ <<"row", "permissions", r[2]>> \in least
    BY <1>3, <1>5, <1>6, <1>7, <1>11 DEF permitted
  <2>3. t \in SeededTables /\ <<"table", t, t>> \in least
    BY <1>1, <1>8
  <2>4. \/ v = 5 /\ Revisions[v].up[n] = Insert(t, grants)
        \/ v = 7 /\ Revisions[v].up[n] = InsertMissing(t, grants)
    BY <1>2, <1>11
  <2> HIDE DEF t
  <2>5. QED  BY <1>8, <2>1, <2>2, <2>3, <2>4, SeedInserts
<1>12. QED  BY <1>9, <1>10, <1>11

\* A downgrade of a seed takes the grants away before it takes what they grant,
\* and to whom.
LEMMA SeedTablesStay ==
  ASSUME NEW d, Sound(d), NEW v \in {2, 4, 5, 7}, NEW n \in 1..Len(Revisions[v].down),
         Reduced(d, v, n)
  PROVE  {"permissions", "roles", "role_permissions"} \subseteq d.tables
         /\ (v = 4 => "units" \in d.tables)
<1>1. \A t, i : i \in 1..(n - 1) => ~Removes(Revisions[v].down[i], <<"table", t, t>>)
  <2>1. SUFFICES ASSUME NEW t, NEW i \in 1..(n - 1)
                 PROVE  ~Removes(Revisions[v].down[i], <<"table", t, t>>)
    OBVIOUS
  <2>2. Len(Revisions[v].down) \in 1..3
    BY Unseeding
  <2>3. i \in 1..Len(Revisions[v].down)
    BY <2>2
  <2>4. Revisions[v].down[i] \in ToSet(Revisions[v].down)
    <3>1. IsScript(Revisions[v].down)
      BY Unseeding
    <3>2. QED  BY <2>3, <3>1, StatementIs, Zenon
  <2>5. \A s \in ToSet(Revisions[v].down) : s.do = "delete"
    BY Unseeding DEF Delete
  <2>6. <<"table", t, t>>[1] = "table"
    OBVIOUS
  <2>7. QED  BY <2>4, <2>5, <2>6 DEF Removes
<1>2. \A t : ~RemovedBefore(Revisions[v].down, n, <<"table", t, t>>)
  BY <1>1 DEF RemovedBefore
<1>3. v \in 1..7
  OBVIOUS
<1>4. \A t : <<"table", t, t>> \in Made[v] => t \in d.tables
  BY <1>2, <1>3, ReducedWhat
<1>5. QED  BY <1>4, SeedTablesThere

LEMMA RowsLeft ==
  ASSUME NEW d, Sound(d), NEW v \in 1..7, NEW n, Reduced(d, v, n),
         NEW t \in SeededTables, NEW r \in d.rows[t]
  PROVE  /\ SeedRow(v, t, r) \/ LateRow(t, r)
         /\ ~RemovedBefore(Revisions[v].down, n, <<"row", t, r>>)
<1>1. <<"row", t, r>> \in Content(d)
  BY ContentOf
<1>2. <<"row", t, r>> \in Made[v] \/ <<"row", t, r>> \in Extra
  BY <1>1 DEF Reduced
<1>3. QED  BY <1>1, <1>2, RowsMade, RowsExtra DEF Reduced

\* Once the first statement has run, nobody is granted what is to go.
LEMMA GrantsGone ==
  ASSUME NEW d, Sound(d), NEW v \in {2, 5, 7}, NEW n \in 2..Len(Revisions[v].down),
         Reduced(d, v, n), NEW grants,
         Revisions[v].down[1] = Delete("role_permissions", grants),
         NEW row \in d.rows["role_permissions"]
  PROVE  row \notin grants
<1> DEFINE x == <<"row", "role_permissions", row>>
<1>1. v \in 1..7 /\ "role_permissions" \in SeededTables
  BY DEF SeededTables
<1>2. ~RemovedBefore(Revisions[v].down, n, x)
  BY <1>1, RowsLeft
<1>3. 1 \in 1..(n - 1)
  OBVIOUS
<1>4. ~Removes(Delete("role_permissions", grants), x)
  BY <1>2, <1>3 DEF RemovedBefore
<1>5. x[1] = "row" /\ x[2] = "role_permissions" /\ x[3] = row
  OBVIOUS
<1> HIDE DEF x
<1>6. QED  BY <1>4, <1>5, MakesRows DEF IsRow

\* A statement may take rows away that no row points to.
LEMMA DeleteUnpointed ==
  ASSUME NEW d, Sound(d), ~Dangling(d), NEW t \in SeededTables, t \in d.tables, NEW rows,
         NEW s, s = Delete(t, rows),
         t = "roles" => /\ d.rows["user_roles"] = {}
                        /\ \A row \in d.rows["role_permissions"] : row[1] \notin rows,
         t = "permissions" => \A row \in d.rows["role_permissions"] : row[2] \notin rows,
         t = "units" => d.rows["products"] = {}
  PROVE  ~Fails(d, s)
<1>1. s.do = "delete" /\ s.table = t /\ s.rows = rows
  BY DEF Delete
<1>2. ASSUME NEW u, NEW row, NEW p, Points(d, u, row, p), p[1] = t, p[2] \in rows
      PROVE  FALSE
  <2>1. u \in RowTables /\ row \in d.rows[u] /\ t # "users"
    BY <1>2 DEF Points, SeededTables
  <2>2. QED  BY <1>2, <2>1, PointsWhere
<1>3. QED  BY <1>1, <1>2, DeleteSucceeds

LEMMA RolesUnseedSucceeds ==
  ASSUME NEW d, Sound(d), ~Dangling(d), NEW n \in 1..3, Reduced(d, 2, n),
         d.rows["user_roles"] = {}
  PROVE  ~Fails(d, Revisions[2].down[n])
<1> DEFINE grants == AllRoles \X {"identity", "catalogue", "inventory"}
<1>1. Len(Revisions[2].down) = 3
  BY Unseeding
<1>2. {"permissions", "roles", "role_permissions"} \subseteq d.tables
  BY <1>1, SeedTablesStay
<1>3. {"permissions", "roles", "role_permissions"} \subseteq SeededTables
  BY DEF SeededTables
<1>4. ASSUME n \in 2..3, NEW row \in d.rows["role_permissions"]
      PROVE  FALSE
  <2>1. Revisions[2].down[1] = Delete("role_permissions", grants)
    BY SeedDownAt
  <2>2. row \notin grants
    <3>1. n \in 2..Len(Revisions[2].down)
      BY <1>1, <1>4
    <3> HIDE DEF grants
    <3>2. QED  BY <1>4, <2>1, <3>1, GrantsGone
  <2>3. SeedRow(2, "role_permissions", row) \/ LateRow("role_permissions", row)
    <3>1. 2 \in 1..7 /\ "role_permissions" \in SeededTables
      BY <1>3
    <3>2. QED  BY <1>4, <3>1, RowsLeft
  <2>4. QED  BY <2>2, <2>3 DEF SeedRow, LateRow
<1>5. CASE n = 1
  <2>1. Revisions[2].down[n] = Delete("role_permissions", grants)
    BY <1>5, SeedDownAt
  <2> HIDE DEF grants
  <2>2. QED  BY <1>2, <1>3, <2>1, DeleteUnpointed
<1>6. CASE n = 2
  <2>1. Revisions[2].down[n] = Delete("roles", AllRoles)
    BY <1>6, SeedDownAt
  <2>2. QED  BY <1>2, <1>3, <1>4, <1>6, <2>1, DeleteUnpointed
<1>7. CASE n = 3
  <2> DEFINE rows == {"identity"}
  <2>1. Revisions[2].down[n] = Delete("permissions", rows)
    BY <1>7, SeedDownAt
  <2> HIDE DEF rows
  <2>2. QED  BY <1>2, <1>3, <1>4, <1>7, <2>1, DeleteUnpointed
<1>8. QED  BY <1>5, <1>6, <1>7

LEMMA UnitsUnseedSucceeds ==
  ASSUME NEW d, Sound(d), ~Dangling(d), Reduced(d, 4, 1), d.rows["products"] = {}
  PROVE  ~Fails(d, Revisions[4].down[1])
<1> DEFINE rows == {"default"}
<1>1. "units" \in d.tables /\ "units" \in SeededTables
  <2>1. 1 \in 1..Len(Revisions[4].down)
    BY Unseeding
  <2>2. QED  BY <2>1, SeedTablesStay DEF SeededTables
<1>2. Revisions[4].down[1] = Delete("units", rows)
  BY SeedDownAt
<1> HIDE DEF rows
<1>3. QED  BY <1>1, <1>2, DeleteUnpointed

LEMMA LaterUnseedSucceeds ==
  ASSUME NEW d, Sound(d), ~Dangling(d), NEW v \in {5, 7}, NEW n \in 1..2, Reduced(d, v, n)
  PROVE  ~Fails(d, Revisions[v].down[n])
<1> DEFINE p == IF v = 5 THEN "catalogue" ELSE "inventory"
           permitted == {p}
           grants == AllRoles \X permitted
<1>1. Len(Revisions[v].down) = 2
  BY Unseeding
<1>2. {"permissions", "roles", "role_permissions"} \subseteq d.tables
  BY <1>1, SeedTablesStay
<1>3. {"permissions", "roles", "role_permissions"} \subseteq SeededTables /\ v \in 1..7
  BY DEF SeededTables
<1>4. /\ Revisions[v].down[1] = Delete("role_permissions", grants)
      /\ Revisions[v].down[2] = Delete("permissions", permitted)
  <2>1. CASE v = 5
    BY <2>1, SeedDownAt
  <2>2. CASE v = 7
    BY <2>2, SeedDownAt
  <2>3. QED  BY <2>1, <2>2
<1>5. ASSUME n = 2, NEW row \in d.rows["role_permissions"]
      PROVE  row[2] \notin permitted
  <2>1. row \notin grants
    <3>1. n \in 2..Len(Revisions[v].down)
      BY <1>1, <1>5
    <3> HIDE DEF grants
    <3>2. QED  BY <1>4, <1>5, <3>1, GrantsGone
  <2>2. SeedRow(v, "role_permissions", row) \/ LateRow("role_permissions", row)
    BY <1>3, <1>5, RowsLeft
  <2>3. row = <<row[1], row[2]>> /\ row[1] \in AllRoles
    BY <2>2 DEF SeedRow, LateRow
  <2>4. QED  BY <2>1, <2>3
<1> HIDE DEF grants, permitted
<1>6. CASE n = 1
  BY <1>2, <1>3, <1>4, <1>6, DeleteUnpointed
<1>7. CASE n = 2
  BY <1>2, <1>3, <1>4, <1>5, <1>7, DeleteUnpointed
<1>8. QED  BY <1>6, <1>7

-----------------------------------------------------------------------------
\* No row dangles, committed or not: the other half of the invariant.
NoDangling == ~Dangling(db) /\ ~Dangling(work)

LEMMA DanglesAlike ==
  ASSUME NEW d, NEW e, e.rows = d.rows, e.references = d.references
  PROVE  Dangling(e) <=> Dangling(d)
BY DEF Dangling

LEMMA OtherVersionWhole ==
  ASSUME NEW d, Sound(d), ~Dangling(d), NEW v
  PROVE  ~Dangling([d EXCEPT !.version = v])
<1> DEFINE e == [d EXCEPT !.version = v]
<1>1. d = Database(d.version, d.tables, d.references, d.keys, d.rows)
  BY Parts DEF Sound
<1>2. e.rows = d.rows /\ e.references = d.references
  BY <1>1 DEF Database
<1>3. QED  BY <1>2, DanglesAlike

\* Rows that are written with what they point to.
LEMMA WrittenWhole ==
  ASSUME NEW d, Sound(d), ~Dangling(d), NEW rows,
         \A t \in RowTables : \A row \in rows[t] : \A p \in PointsTo(t, row) :
           p[1] \in RowTables /\ (p[2] \in rows[p[1]] \/ p[2] \in d.rows[p[1]])
  PROVE  ~Dangling(Written(d, rows))
<1> DEFINE e == Written(d, rows)
<1>1. d = Database(d.version, d.tables, d.references, d.keys, d.rows)
  BY Parts DEF Sound
<1>2. e.references = d.references /\ e.rows = [t \in RowTables |-> d.rows[t] \union rows[t]]
  BY <1>1 DEF Database, Written
<1> HIDE DEF e
<1>3. ASSUME NEW t, NEW row, NEW p, Points(e, t, row, p), <<t, p[1]>> \in e.references
      PROVE  p[2] \in e.rows[p[1]]
  <2>1. t \in RowTables /\ p \in PointsTo(t, row) /\ (row \in d.rows[t] \/ row \in rows[t])
    BY <1>2, <1>3 DEF Points
  <2>2. p[1] \in RowTables
    BY <1>3, PointsWhere DEF RowTables
  <2>3. CASE row \in d.rows[t]
    <3>1. Points(d, t, row, p)
      BY <2>1, <2>3 DEF Points
    <3>2. p[2] \in d.rows[p[1]]
      BY <1>2, <1>3, <3>1, WholeThen
    <3>3. QED  BY <1>2, <2>2, <3>2
  <2>4. CASE row \in rows[t]
    <3>1. p[2] \in rows[p[1]] \/ p[2] \in d.rows[p[1]]
      BY <2>1, <2>4
    <3>2. QED  BY <1>2, <2>2, <3>1
  <2>5. QED  BY <2>1, <2>3, <2>4
<1>4. QED  BY <1>3, WholeIf DEF e

\* Users come with the roles they hold, which are there.
LEMMA UsersWhole ==
  ASSUME IInv, NoDangling, NEW u, NEW held, NEW roles,
         \A row \in held : row[1] = u /\ row[2] \in roles,
         roles \subseteq db.rows.roles, roles \subseteq work.rows.roles,
         Write([NoRows EXCEPT !.users = {u}, !.user_roles = held])
  PROVE  NoDangling'
<1> DEFINE W == [NoRows EXCEPT !.users = {u}, !.user_roles = held]
<1>1. W = [t \in RowTables |-> IF t = "users" THEN {u} ELSE IF t = "user_roles" THEN held ELSE {}]
  BY DEF NoRows
<1>2. db' = Written(db, W) /\ work' = Written(work, W) /\ Sound(db) /\ Sound(work)
  BY DEF Write, Written, IInv
<1> HIDE DEF W
<1>3. ASSUME NEW t \in RowTables, NEW row \in W[t], NEW p \in PointsTo(t, row)
      PROVE  p[1] \in RowTables /\ (p[2] \in W[p[1]] \/ (p[1] = "roles" /\ p[2] \in roles))
  <2>1. CASE t = "user_roles"
    <3>1. row \in held
      BY <1>1, <2>1
    <3>2. p = <<"users", row[1]>> \/ p = <<"roles", row[2]>>
      BY <1>3, <2>1 DEF PointsTo
    <3>3. "users" \in RowTables /\ "roles" \in RowTables /\ W["users"] = {u}
      BY <1>1 DEF RowTables
    <3>4. QED  BY <3>1, <3>2, <3>3
  <2>2. CASE t # "user_roles"
    <3>1. t = "users"
      BY <1>1, <1>3, <2>2
    <3>2. QED  BY <1>3, <3>1 DEF PointsTo
  <2>3. QED  BY <2>1, <2>2
<1>4. ~Dangling(Written(db, W))
  BY <1>2, <1>3, WrittenWhole DEF NoDangling
<1>5. ~Dangling(Written(work, W))
  BY <1>2, <1>3, WrittenWhole DEF NoDangling
<1>6. QED  BY <1>2, <1>4, <1>5 DEF NoDangling

LEMMA UseWhole ==
  ASSUME IInv, NoDangling, Use
  PROVE  NoDangling'
<1>1. ASSUME NEW u \in Users, SignUp(u)
      PROVE  NoDangling'
  <2> DEFINE held == {<<u, SuperAdmin>>}
             roles == {SuperAdmin}
  <2>1. Free(OwnedTables) /\ SuperAdmin \in db.rows.roles
        /\ Write([NoRows EXCEPT !.users = {u}, !.user_roles = held])
    BY <1>1 DEF SignUp
  <2>2. "roles" \in OwnedTables /\ "roles" \in RowTables
    BY DEF OwnedTables, RowTables
  <2>3. roles \subseteq db.rows.roles /\ roles \subseteq work.rows.roles
    BY <2>1, <2>2, FreeTables
  <2>4. \A row \in held : row[1] = u /\ row[2] \in roles
    OBVIOUS
  <2> HIDE DEF held, roles
  <2>5. QED  BY <2>1, <2>3, <2>4, UsersWhole
<1>2. ASSUME NEW u \in Users, NEW roles \in SUBSET AllRoles, AddUser(u, roles)
      PROVE  NoDangling'
  <2> DEFINE held == {<<u, r>> : r \in roles}
             T == {"companies", "branches", "users", "user_branches", "user_roles", "roles"}
  <2>1. /\ Free(T) /\ roles \subseteq db.rows.roles
        /\ Write([NoRows EXCEPT !.users = {u}, !.user_roles = held])
    BY <1>2 DEF AddUser
  <2>2. "roles" \in T /\ "roles" \in RowTables
    BY DEF RowTables
  <2>3. \A row \in held : row[1] = u /\ row[2] \in roles
    OBVIOUS
  <2> HIDE DEF held, T
  <2>4. roles \subseteq work.rows.roles
    BY <2>1, <2>2, FreeTables
  <2>5. QED  BY <2>1, <2>3, <2>4, UsersWhole
<1>3. ASSUME NEW p \in Products, AddProduct(p)
      PROVE  NoDangling'
  <2> DEFINE W == [NoRows EXCEPT !.products = {<<p, "default">>}]
             T == {"companies", "units", "products", "product_variants"}
  <2>1. Free(T) /\ Write(W) /\ "default" \in db.rows.units
    BY <1>3 DEF AddProduct
  <2>2. "units" \in T /\ "units" \in RowTables
    BY DEF RowTables
  <2> HIDE DEF T
  <2>3. "default" \in work.rows.units
    BY <2>1, <2>2, FreeTables
  <2>4. W = [t \in RowTables |-> IF t = "products" THEN {<<p, "default">>} ELSE {}]
    BY DEF NoRows
  <2>5. db' = Written(db, W) /\ work' = Written(work, W) /\ Sound(db) /\ Sound(work)
    BY <2>1 DEF Write, Written, IInv
  <2> HIDE DEF W
  <2>6. ASSUME NEW t \in RowTables, NEW row \in W[t], NEW q \in PointsTo(t, row)
        PROVE  q[1] = "units" /\ q[2] = "default"
    <3>1. t = "products" /\ row = <<p, "default">>
      BY <2>4, <2>6
    <3>2. QED  BY <2>6, <3>1 DEF PointsTo
  <2>7. ~Dangling(Written(db, W))
    BY <2>1, <2>2, <2>5, <2>6, WrittenWhole DEF NoDangling
  <2>8. ~Dangling(Written(work, W))
    BY <2>2, <2>3, <2>5, <2>6, WrittenWhole DEF NoDangling
  <2>9. QED  BY <2>5, <2>7, <2>8 DEF NoDangling
<1>4. QED  BY <1>1, <1>2, <1>3 DEF Use

LEMMA NoDanglingKept ==
  ASSUME IInv, NoDangling, [Next]_vars
  PROVE  NoDangling'
<1>1. Sound(db) /\ Sound(work)
  BY DEF IInv
<1>2. CASE Use
  BY <1>2, UseWhole
<1>3. CASE Execute
  BY <1>3 DEF Execute, Fails, NoDangling
<1>4. CASE NextRevision
  <2>1. PICK v : work' = [work EXCEPT !.version = v]
    BY <1>4 DEF NextRevision
  <2>2. db' = db
    BY <1>4 DEF NextRevision
  <2>3. QED  BY <1>1, <2>1, <2>2, OtherVersionWhole DEF NoDangling
<1>5. CASE Restamp
  <2>1. db' = [db EXCEPT !.version = Latest - 1] /\ work' = db'
    BY <1>5 DEF Restamp
  <2>2. QED  BY <1>1, <2>1, OtherVersionWhole DEF NoDangling
<1>6. CASE (db' = db \/ db' = work) /\ (work' = db \/ work' = work)
  BY <1>6 DEF NoDangling
<1>7. QED
  BY <1>2, <1>3, <1>4, <1>5, <1>6
     DEF Next, Migrate, Begin, Raise, Crash, RollBack, Commit, vars

LEMMA NoDanglingAtFirst == Init => NoDangling
<1> SUFFICES ASSUME Init
             PROVE  NoDangling
  OBVIOUS
<1>1. db = EmptyDatabase /\ work = EmptyDatabase
  BY DEF Init
<1>2. \A t \in RowTables : EmptyDatabase.rows[t] = {}
  BY DEF EmptyDatabase
<1>3. ~Dangling(EmptyDatabase)
  BY <1>2 DEF Dangling
<1>4. QED  BY <1>1, <1>3 DEF NoDangling

LEMMA StatementsSucceed ==
  ASSUME IInv, NoDangling, InScript, Fails(work, Script[at])
  PROVE  /\ run.dir = "down"
         /\ \/ work.version = 2 /\ work.rows.user_roles # {}
            \/ work.version = 4 /\ work.rows.products # {}
<1>1. /\ Course /\ Sound(work) /\ ~Dangling(work) /\ Progress /\ Running /\ at <= Len(Script)
  BY DEF IInv, NoDangling, InScript
<1>2. /\ at \in 1..(Len(Script) + 1) /\ work.version \in 0..7
      /\ \/ /\ run.dir = "up" /\ work.version + 1 \in 1..7
            /\ Script = Revisions[work.version + 1].up
         \/ /\ run.dir = "down" /\ work.version \in 1..7
            /\ Script = Revisions[work.version].down
  BY <1>1, ScriptIs
<1> DEFINE l == Len(Script)
<1>3. l \in 1..16
  BY <1>2, Ups, Downs
<1>4. at \in 1..Len(Script)
  <2>1. at \in 1..(l + 1) /\ at <= l
    BY <1>1, <1>2
  <2> HIDE DEF l
  <2>2. at \in 1..l
    BY <1>3, <2>1
  <2>3. QED  BY <2>2 DEF l
<1> HIDE DEF l
<1>5. CASE run.dir = "up"
  <2> DEFINE v == work.version + 1
  <2>1. v \in 1..7 /\ Script = Revisions[v].up /\ work.version = v - 1
    BY <1>2, <1>5
  <2>2. Has(work, Made[v - 1] \union MadeBefore(Revisions[v].up, at))
    BY <1>1, <1>5, <2>1 DEF Progress
  <2>3. at \in 1..Len(Revisions[v].up)
    BY <1>4, <2>1
  <2> HIDE DEF v
  <2>4. v \notin {1, 3, 6}
    BY <1>1, <2>1, <2>2, <2>3, TableScriptSucceeds
  <2>5. CASE v = 2
    <3>0. Len(Revisions[2].up) = 3
      BY Seeding
    <3>1. at \in 1..3 /\ v - 1 = 1
      BY <2>3, <2>5, <3>0
    <3>2. QED  BY <1>1, <2>1, <2>2, <2>5, <3>1, RolesSeedSucceeds
  <2>6. CASE v = 4
    <3>1. at = 1 /\ v - 1 = 3
      BY <2>3, <2>6, Seeding
    <3>2. QED  BY <1>1, <2>1, <2>2, <2>6, <3>1, UnitsSeedSucceeds
  <2>7. CASE v \in {5, 7}
    <3>1. at \in 1..3
      BY <2>3, <2>7, Seeding
    <3>2. QED  BY <1>1, <2>1, <2>2, <2>7, <3>1, LaterSeedSucceeds
  <2>8. QED  BY <2>1, <2>4, <2>5, <2>6, <2>7
<1>6. CASE run.dir = "down"
  <2> DEFINE v == work.version
  <2>1. v \in 1..7 /\ Script = Revisions[v].down
    BY <1>2, <1>6
  <2>2. Reduced(work, v, at)
    BY <1>1, <1>6, <2>1 DEF Progress, Reduced
  <2>3. at \in 1..Len(Revisions[v].down)
    BY <1>4, <2>1
  <2> HIDE DEF v
  <2>4. v \notin {1, 3, 6}
    BY <1>1, <2>1, <2>2, <2>3, DropScriptSucceeds
  <2>5. CASE v = 2
    <3>1. at \in 1..3
      BY <2>3, <2>5, Unseeding
    <3>2. work.rows["user_roles"] # {}
      BY <1>1, <2>1, <2>2, <2>5, <3>1, RolesUnseedSucceeds
    <3>3. QED  BY <1>6, <2>5, <3>2 DEF v
  <2>6. CASE v = 4
    <3>1. at = 1
      BY <2>3, <2>6, Unseeding
    <3>2. work.rows["products"] # {}
      BY <1>1, <2>1, <2>2, <2>6, <3>1, UnitsUnseedSucceeds
    <3>3. QED  BY <1>6, <2>6, <3>2 DEF v
  <2>7. CASE v \in {5, 7}
    <3>1. at \in 1..2
      BY <2>3, <2>7, Unseeding
    <3>2. QED  BY <1>1, <2>1, <2>2, <2>7, <3>1, LaterUnseedSucceeds
  <2>8. QED  BY <2>1, <2>4, <2>5, <2>6, <2>7
<1>7. QED  BY <1>2, <1>5, <1>6

\* No row ever breaks a foreign key, in the committed database or in that of a
\* run: a row points to one that is there wherever a reference says so.
THEOREM RowsPointToRows == Spec => []NoDangling
<1>1. IInv /\ NoDangling /\ [Next]_vars => NoDangling'
  BY NoDanglingKept
<1>2. QED  BY <1>1, Invariance, NoDanglingAtFirst, PTL DEF Spec

\* Nothing makes a run fail but a downgrade over a seed that is in use: each
\* statement finds the tables, references and rows it needs, at whatever point
\* of its script, and makes none that is already there.
THEOREM FailsOnlyInUse == Spec => []RunsFailOnlyInUse
<1>1. IInv /\ NoDangling => RunsFailOnlyInUse
  BY StatementsSucceed DEF RunsFailOnlyInUse
<1>2. QED  BY <1>1, Invariance, RowsPointToRows, PTL
=============================================================================
