--------------------------- MODULE SessionRegister ---------------------------
(***************************************************************************)
(* What the authentication service promises about the sessions of its      *)
(* users: a session is opened once, with a sign-in or in place of one that *)
(* it ends, and what has ended is never open again.  The session that is   *)
(* replaced may have ended already: two refreshes of one session that run  *)
(* at the same time both take place.                                       *)
(***************************************************************************)
CONSTANTS SessionIds, Given, GivenOpen

VARIABLES
  opened,   \* the sessions that were ever opened
  open      \* those of them that have not ended

vars == <<opened, open>>

Init == opened = Given /\ open = GivenOpen

SignIn(t) ==
  /\ t \notin opened
  /\ opened' = opened \union {t}
  /\ open' = open \union {t}

Rotate(old, t) ==
  /\ old \in opened /\ t \notin opened
  /\ opened' = opened \union {t}
  /\ open' = (open \ {old}) \union {t}

End(ended) ==
  /\ ended \subseteq opened
  /\ UNCHANGED opened
  /\ open' = open \ ended

Next ==
  \/ \E ended \in SUBSET SessionIds : End(ended)
  \/ \E t \in SessionIds : SignIn(t) \/ \E old \in SessionIds : Rotate(old, t)

Spec == Init /\ [][Next]_vars
=============================================================================
