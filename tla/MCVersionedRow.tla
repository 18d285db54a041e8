--------------------------- MODULE MCVersionedRow ---------------------------
(***************************************************************************)
(* Small instances of VersionedRow: a variant whose requests all carry a   *)
(* version, and a user or a product with plain writes beside them.         *)
(***************************************************************************)
EXTENDS VersionedRow, TLC

CONSTANTS r1, r2, r3, r4

ThreeRequests == {r1, r2, r3}
FourRequests == {r1, r2, r3, r4}

Update(change) == [kind |-> "update", change |-> change]

\* A variant: size and color make its name, the price does not.
VariantColumns == {"size", "color", "price"}
VariantNameColumns == {"size", "color"}
VariantValues == {0, 1, 2}
VariantFields == [c \in VariantColumns |-> 0]
VariantCalls == {Update(<< >>), Update([size |-> 1]), Update([color |-> 1]),
                 Update([price |-> 1]), Update([size |-> 2, color |-> 2])}

NoNameColumns == {}

\* A user: an update may also enable or disable; "account" calls disable the
\* user or set the password.
UserColumns == {"full_name", "is_active", "password"}
UserCalls == {Update([full_name |-> 2]), Update([full_name |-> 0, is_active |-> 1]),
              [kind |-> "account", change |-> [is_active |-> 0]],
              [kind |-> "account", change |-> [password |-> 2]]}

\* A product without variants yet.
ProductColumns == {"name", "has_variants"}
ProductCalls == {Update([name |-> 1]), Update([name |-> 2]),
                 [kind |-> "add_variant", change |-> [has_variants |-> 1]]}

\* The requests of a run are all about the user or all about the product.
PlainColumns == UserColumns \union ProductColumns
PlainFields == [c \in PlainColumns |-> IF c \in UserColumns THEN 1 ELSE 0]
PlainCalls == UserCalls \union ProductCalls

PlainInit ==
  /\ Init
  /\ \/ \A r \in Requests : call[r] \in UserCalls
     \/ \A r \in Requests : call[r] \in ProductCalls

PlainSpec == PlainInit /\ [][Next]_vars

RequestSymmetry == Permutations(FourRequests)
=============================================================================
