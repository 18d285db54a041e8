------------------------------ MODULE MCSessions ------------------------------
(***************************************************************************)
(* A small instance of Sessions: one user with an ended session, two open  *)
(* ones and a reset link; two failed sign-ins lock the account for a unit  *)
(* of time, in which links and the sessions of the beginning expire; three *)
(* requests make any of the calls.                                         *)
(***************************************************************************)
EXTENDS Sessions

CONSTANTS u1, g0, g1, g2, k1

MCRequests == 1..3
MCUsers == {u1}
MCPasswords == {"old", "new"}
MCGiven == {g0, g1, g2}
MCGivenOpen == {g1, g2}
MCGivenLinks == {k1}
MCOwner == [x \in MCGiven \union MCGivenLinks |-> u1]

\* The session of the second request has the smallest key.
MCKeyOrder == [t \in MCGiven \union MCRequests |->
                 CASE t = 2 -> 1 [] t = g2 -> 2 [] t = g1 -> 3 [] t = 1 -> 4
                   [] t = 3 -> 5 [] t = g0 -> 6]

MCCall(kind, user, target, password, new) ==
  [kind |-> kind, user |-> user, target |-> target, password |-> password, new |-> new]

About(kind, user) == MCCall(kind, user, g1, "old", "new")
On(kind, target) == MCCall(kind, u1, target, "old", "new")

MCCalls ==
  {MCCall("login", u1, g1, p, p) : p \in MCPasswords}
  \union {About("login", NoUser)}
  \union {On("refresh", t) : t \in {g0, g1, 1}}
  \union {On(kind, g1) : kind \in {"logout", "revoke_session"}}
  \union {On("reset_password", l) : l \in {k1, 1}}
  \union {About(kind, u1) : kind \in {"forgot_password", "change_password",
                                      "admin_reset_password", "disable"} \union Updates}
=============================================================================
