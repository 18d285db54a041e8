---------------------------- MODULE SessionsProofs ----------------------------
(***************************************************************************)
(* Proofs about Sessions, for any number of requests, users and sessions:  *)
(* type correctness, the causes of the failed-attempt counter, the records *)
(* of refused sign-ins, the chains of exchanged sessions, the reach of     *)
(* ending all sessions, that the service implements SessionRegister, and   *)
(* that requests never wait for each other in a circle.                    *)
(***************************************************************************)
EXTENDS Sessions, FiniteFacts, TLAPS

\* Every row of a token has its user, and only such a row.
RowsOwned ==
  /\ \A t \in SessionIds : /\ session[t].state = "none" <=> session[t].user = NoUser
                           /\ session[t].state = "none" => session[t].heir = NoSession
  /\ \A l \in LinkIds : link[l].state = "none" <=> link[l].user = NoUser

\* What the phase of a request tells of its call and of what it has read.
Course(r) ==
  LET kind == call[r].kind
      state == found[r].state
  IN  /\ phase[r] = "new" => state = "none" /\ listed[r] = {}
      /\ phase[r] \in Open => UserOf(r) \in Users
      /\ phase[r] = "account" => kind = "reset_password" \/ (kind = "refresh" /\ state = "open")
      /\ phase[r] = "lock_account" =>
           kind \in {"login", "reset_password", "change_password", "admin_reset_password", "disable"}
                   \union Updates
      /\ phase[r] = "lock_link" => kind = "reset_password"
      /\ phase[r] = "list" => kind \in {"reset_password", "revoke_session"} \/ Reused(r)
      /\ phase[r] = "lock_sessions" =>
           kind \in {"logout", "refresh", "revoke_session", "reset_password"}
      /\ kind = "logout" /\ phase[r] \in Open => state = "open"
      /\ kind = "refresh" /\ phase[r] \in Open => state \in {"open", "ended"}
      /\ kind = "refresh" /\ phase[r] = "done" => state = "open"
      /\ kind = "reset_password" /\ phase[r] \in Open \union {"done"} => state = "fresh"
      /\ kind = "login" /\ phase[r] = "done" => ~Wrong(call[r], saw[r])
      /\ Disables(r) /\ phase[r] = "done" => call[r].user \in Users

TypeInv == TypeOK /\ RowsOwned /\ \A r \in Requests : Course(r)

\* What a request has read of tokens is still there.
Reads(r) ==
  /\ found[r].state # "none" =>
       /\ call[r].kind \in {"logout", "refresh"} =>
            /\ session[call[r].target].state # "none"
            /\ session[call[r].target].user = found[r].user
            /\ call[r].target \in Requests => call[r].target < r
       /\ call[r].kind = "reset_password" => link[call[r].target].state # "none"
  /\ \A t \in listed[r] : session[t].state # "none" /\ session[t].user = UserOf(r)
  /\ call[r].kind = "revoke_session" /\ phase[r] \in {"lock_sessions", "commit"}
       => call[r].target \in listed[r]

\* What the tables and the log have of a request.
Issued(r) ==
  /\ session[r].state # "none" => phase[r] = "done" /\ Issues(r) /\ session[r].user = UserOf(r)
  /\ link[r].state # "none" => phase[r] = "done"
  /\ \A e \in audit : e.by = r =>
       /\ phase[r] \in {"done", "refused"}
       /\ e.user = UserOf(r) /\ e.event \in AuditEvents(r)

\* Whom a request has disabled is so still, or was enabled again.
StaysOut(r) == ~account[call[r].user].active \/ EnabledSince(r)

\* A request that has found its user disabled does not write so.
SawDisabled(r) ==
  call[r].kind = "disable" /\ phase[r] \in {"lock_account", "commit"} /\ ~saw[r].active
    => StaysOut(r)

\* What a request that has ended well has done.
Effects(r) ==
  phase[r] = "done" =>
    /\ call[r].kind = "reset_password" => link[call[r].target].state = "used"
    /\ call[r].kind = "refresh" => session[call[r].target].state = "ended"
    /\ Disables(r) => StaysOut(r)

\* Requests begin in the order of their numbers.
InTurn == \A r, s \in Requests : s < r /\ phase[r] # "new" => phase[s] # "new"

\* What had committed before a request began has ended.
Earlier(r) == \A s \in before[r] : phase[s] \in {"done", "refused"}

\* A sign-in has read a counter that the log accounts for.
Counted(r) ==
  call[r].kind = "login" /\ phase[r] \in Open =>
    saw[r].failed <= Cardinality(FailuresOf(call[r].user))

\* Between the list and the commit no session comes to be missing in the list
\* that was there before the request began.
Listing(r) ==
  EndsAll(r) /\ phase[r] \in {"lock_sessions", "commit"} =>
    \A t \in Given \union before[r] :
      session[t].state = "open" /\ session[t].user = UserOf(r) => t \in listed[r]

\* What a request has read tells it from those that had committed before.
Once(r) ==
  \A s \in before[r] : phase[s] = "done" =>
    /\ call[s].kind = "reset_password" /\ call[r].kind = "reset_password" /\ found[r].state = "fresh"
         => call[r].target # call[s].target
    /\ call[s].kind = "refresh" /\ call[r].kind = "refresh" /\ found[r].state = "open"
         => call[r].target # call[s].target
    /\ Disables(s) /\ Issues(r)
       /\ phase[r] \in {"lock_account", "lock_sessions", "commit", "done"}
         => UserOf(r) # call[s].user \/ EnabledSince(s)

\* The inductive invariant.
Request(r) ==
  /\ Course(r) /\ Reads(r) /\ Issued(r) /\ SawDisabled(r) /\ Effects(r)
  /\ Earlier(r) /\ Counted(r) /\ Listing(r) /\ Once(r)

SessionsInv ==
  /\ TypeOK /\ IsFiniteSet(audit) /\ RowsOwned /\ InTurn /\ CounterHasCauses
  /\ \A r \in Requests : Request(r)

\* What a commit may do to the tables as another request sees them.
Grow ==
  /\ \A t \in SessionIds :
       /\ session[t].state # "none" => session'[t].state # "none"
                                      /\ session'[t].user = session[t].user
       /\ session[t].state = "ended" => session'[t].state = "ended"
       /\ session'[t].state = "open" => session[t].state = "open"
                                        \/ (t \in Requests /\ phase[t] = "commit")
  /\ \A l \in LinkIds :
       /\ link[l].state # "none" => link'[l].state # "none"
       /\ link[l].state = "used" => link'[l].state = "used"
  /\ audit \subseteq audit'

-----------------------------------------------------------------------------
\* The calls are calls, and their targets are what their kinds are about.
LEMMA CallFacts ==
  ASSUME NEW c \in Calls
  PROVE  /\ c.kind \in Kinds /\ c.user \in Users \union {NoUser}
         /\ c.password \in Passwords /\ c.new \in Passwords
         /\ c.target \in SessionIds \union LinkIds
         /\ c.kind = "reset_password" => c.target \in LinkIds
         /\ c.kind # "reset_password" => c.target \in SessionIds
<1>1. c \in CallType
  BY SessionsAssumption
<1>2. c.kind = "reset_password" => c.target \in LinkIds
  BY SessionsAssumption
<1>3. c.kind # "reset_password" => c.target \in SessionIds
  BY SessionsAssumption
<1>4. QED
  BY <1>1, <1>2, <1>3 DEF CallType

\* What the requests do that take their next step alone.
Act(r) == (\E c \in Calls : FirstStatement(r, c)) \/ Statement(r) \/ Lose(r)

\* The local state of a request is as it was.
Same(s) ==
  /\ call'[s] = call[s] /\ phase'[s] = phase[s] /\ saw'[s] = saw[s] /\ found'[s] = found[s]
  /\ listed'[s] = listed[s] /\ stamp'[s] = stamp[s] /\ before'[s] = before[s]

\* A request's step changes nothing of what another one knows.
LEMMA OthersKeep ==
  ASSUME TypeOK, NEW r \in Requests, Act(r), NEW s \in Requests, s # r
  PROVE  Same(s)
<1> USE DEF TypeOK, Same, Begin, Goto, Lock, ReadAccount
<1>1. ASSUME NEW c \in Calls, FetchSession(r, c) PROVE Same(s)
  BY <1>1 DEF FetchSession
<1>2. ASSUME NEW c \in Calls, FetchLink(r, c) PROVE Same(s)
  BY <1>2 DEF FetchLink
<1>3. ASSUME NEW c \in Calls, FetchUser(r, c) PROVE Same(s)
  BY <1>3 DEF FetchUser
<1>4. ASSUME NEW c \in Calls, UnknownUser(r, c) \/ BeginUpdate(r, c) PROVE Same(s)
  BY <1>4 DEF UnknownUser, BeginUpdate
<1>4a. ASSUME NEW c \in Calls, RefuseToken(r, c) PROVE Same(s)
  BY <1>4a DEF RefuseToken
<1>6a. ASSUME Conflict(r) PROVE Same(s)
  BY <1>6a DEF Conflict
<1>5. ASSUME FetchOwner(r) PROVE Same(s)
  BY <1>5 DEF FetchOwner
<1>6. ASSUME LockAccount(r) PROVE Same(s)
  BY <1>6 DEF LockAccount
<1>7. ASSUME LockLink(r) PROVE Same(s)
  BY <1>7 DEF LockLink
<1>8. ASSUME ListOpen(r) PROVE Same(s)
  BY <1>8 DEF ListOpen
<1>9. ASSUME LockSession(r) PROVE Same(s)
  BY <1>9 DEF LockSession
<1>10. ASSUME Commit(r) PROVE Same(s)
  BY <1>10 DEF Commit
<1>11. ASSUME Lose(r) PROVE Same(s)
  BY <1>11 DEF Lose
<1>12. QED
  BY <1>1, <1>2, <1>3, <1>4, <1>5, <1>6, <1>7, <1>8, <1>9, <1>10, <1>11, <1>4a, <1>6a
     DEF Act, FirstStatement, Statement

\* What the phase of a request tells depends on that request alone.
LEMMA CourseSame ==
  ASSUME NEW s \in Requests, Course(s), Same(s)
  PROVE  Course(s)'
BY DEF Course, Same, UserOf, Reused, Wrong, Disables

\* The invariant holds in the beginning.
LEMMA TypeInit == Init => TypeInv
<1> SUFFICES ASSUME Init PROVE TypeInv
  OBVIOUS
<1> USE SessionsAssumption DEF Init
<1>1. NewAccount \in AccountType /\ NoRow \in SessionType /\ NoLink \in LinkType
  BY DEF NewAccount, NoRow, NoLink, AccountType, SessionType, LinkType
<1>2. session \in [SessionIds -> SessionType]
  BY <1>1 DEF SessionType, SessionIds
<1>3. link \in [LinkIds -> LinkType]
  BY <1>1 DEF LinkType, LinkIds
<1>4. NoCall \in Calls
  BY DEF NoCall
<1>5. TypeOK
  BY <1>1, <1>2, <1>3, <1>4 DEF TypeOK
<1>6. RowsOwned
  BY DEF RowsOwned, NoRow, NoLink, SessionIds, LinkIds
<1>7. ASSUME NEW r \in Requests PROVE Course(r)
  BY DEF Course, NoRow, Open
<1>8. QED
  BY <1>5, <1>6, <1>7 DEF TypeInv

\* What a SELECT of the user leads to.
LEMMA AfterAccountFacts ==
  ASSUME NEW c \in Calls, NEW a
  PROVE  /\ AfterAccount(c, a) \in {"refused", "lock_account", "lock_link", "commit",
                                    "lock_sessions", "list"}
         /\ AfterAccount(c, a) = "lock_link" <=> c.kind = "reset_password"
         /\ c.kind = "refresh" => AfterAccount(c, a) \in {"lock_sessions", "refused"}
         /\ AfterAccount(c, a) = "lock_account" => c.kind \notin {"refresh", "revoke_session", "forgot_password",
                                                                 "reset_password"}
         /\ AfterAccount(c, a) = "list" => c.kind = "revoke_session"
         /\ AfterAccount(c, a) = "lock_sessions" => c.kind = "refresh" /\ a.active
BY DEF AfterAccount

\* What the SELECT of a session leads to.
LEMMA AfterSessionFacts ==
  ASSUME NEW c \in Calls, NEW row, c.kind \in {"logout", "refresh"}
  PROVE  /\ AfterSession(c, row) \in {"lock_sessions", "done", "list", "account", "refused"}
         /\ AfterSession(c, row) = "lock_sessions" => c.kind = "logout" /\ row.state = "open"
         /\ AfterSession(c, row) = "done" => c.kind = "logout"
         /\ AfterSession(c, row) = "list" => c.kind = "refresh" /\ row.state = "ended"
         /\ AfterSession(c, row) = "account" => c.kind = "refresh" /\ row.state = "open"
BY DEF AfterSession

\* A request that is beginning has a call, whose user or token it reads.
LEMMA CourseBegins ==
  ASSUME TypeInv, NEW r \in Requests, NEW c \in Calls, FirstStatement(r, c)
  PROVE  Course(r)'
<1>1. phase[r] = "new" /\ call'[r] = c
  BY DEF FirstStatement, RefuseToken, FetchSession, FetchLink, FetchUser,
       BeginUpdate, UnknownUser, Begin, TypeInv, TypeOK
<1>2. found[r].state = "none" /\ listed[r] = {}
  BY <1>1 DEF TypeInv, Course
<1>3. c.kind \in Kinds /\ c.user \in Users \union {NoUser}
  BY CallFacts
<1>4. CASE FetchSession(r, c)
  <2>1. c.kind \in {"logout", "refresh"} /\ c.target \in SessionIds
    BY <1>4, CallFacts DEF FetchSession
  <2>2. found'[r] = session[c.target] /\ phase'[r] = AfterSession(c, session[c.target])
    BY <1>4 DEF FetchSession, TypeInv, TypeOK, Goto
  <2>3. session[c.target].state # "none" => session[c.target].user \in Users
    BY <2>1 DEF TypeInv, TypeOK, RowsOwned, SessionType
  <2>4. QED
    BY <1>1, <2>1, <2>2, <2>3, AfterSessionFacts DEF Course, Open, UserOf, Reused, Disables
<1>5. CASE FetchLink(r, c)
  <2>1. c.kind = "reset_password" /\ c.target \in LinkIds
    BY <1>5, CallFacts DEF FetchLink
  <2>2. found'[r] = link[c.target] /\ phase'[r] = IF Usable(link[c.target]) THEN "account" ELSE "refused"
    BY <1>5 DEF FetchLink, TypeInv, TypeOK, Goto
  <2>3. link[c.target].state = "fresh" => link[c.target].user \in Users
    BY <2>1 DEF TypeInv, TypeOK, RowsOwned, LinkType
  <2>4. QED
    BY <1>1, <2>1, <2>2, <2>3 DEF Course, Open, UserOf, Usable, Disables
<1>6. CASE FetchUser(r, c)
  <2>1. c.kind \in Kinds \ ({"logout", "refresh", "reset_password"} \union Updates)
        /\ c.user \in Users
    BY <1>3, <1>6 DEF FetchUser
  <2>2. found'[r] = found[r] /\ phase'[r] = AfterAccount(c, account[c.user])
    BY <1>6 DEF FetchUser, ReadAccount, TypeInv, TypeOK, Goto
  <2>3. QED
    BY <1>1, <1>2, <2>1, <2>2, AfterAccountFacts DEF Course, Open, UserOf, Kinds, Disables, Updates
<1>7. CASE UnknownUser(r, c)
  <2>1. c.kind \in Kinds \ {"logout", "refresh", "reset_password"}
    BY <1>3, <1>7 DEF UnknownUser
  <2>2. found'[r] = found[r] /\ phase'[r] = IF c.kind = "forgot_password" THEN "done" ELSE "refused"
    BY <1>7 DEF UnknownUser, TypeInv, TypeOK, Goto
  <2>3. QED
    BY <1>1, <1>2, <2>1, <2>2 DEF Course, Open, UserOf, Kinds, Disables
<1>8. CASE BeginUpdate(r, c)
  <2>1. c.kind \in Updates /\ c.user \in Users
    BY <1>8 DEF BeginUpdate
  <2>2. found'[r] = found[r] /\ phase'[r] = "lock_account"
    BY <1>8 DEF BeginUpdate, TypeInv, TypeOK, Goto
  <2>3. QED
    BY <1>1, <1>2, <2>1, <2>2 DEF Course, Open, UserOf, Updates
<1>9. CASE RefuseToken(r, c)
  <2>1. c.kind = "refresh" /\ found'[r] = found[r] /\ phase'[r] = "refused"
    BY <1>9 DEF RefuseToken, TypeInv, TypeOK, Goto
  <2>2. QED
    BY <1>1, <1>2, <2>1 DEF Course, Open
<1>10. QED
  BY <1>4, <1>5, <1>6, <1>7, <1>8, <1>9 DEF FirstStatement

\* The later statements of a request.
LEMMA CourseGoesOn ==
  ASSUME TypeInv, NEW r \in Requests, Statement(r)
  PROVE  Course(r)'
<1> USE DEF Goto
<1>0. Course(r) /\ call[r].kind \in Kinds
  BY CallFacts DEF TypeInv, TypeOK
<1>1. CASE FetchOwner(r)
  <2>1. /\ phase[r] = "account" /\ call'[r] = call[r] /\ found'[r] = found[r]
        /\ phase'[r] = AfterAccount(call[r], account[found[r].user])
    BY <1>1 DEF FetchOwner, ReadAccount, TypeInv, TypeOK
  <2>2. call[r] \in Calls
    BY DEF TypeInv, TypeOK
  <2>3. QED
    BY <1>0, <2>1, <2>2, AfterAccountFacts DEF Course, Open, UserOf, Reused
<1>2. CASE LockAccount(r)
  <2>1. /\ phase[r] = "lock_account" /\ call'[r] = call[r] /\ found'[r] = found[r]
        /\ phase'[r] = IF call[r].kind = "reset_password" THEN "list" ELSE "commit"
    BY <1>2 DEF LockAccount, TypeInv, TypeOK
  <2>2. QED
    BY <1>0, <2>1 DEF Course, Open, UserOf, Updates
<1>3. CASE LockLink(r)
  <2>1. /\ phase[r] = "lock_link" /\ call'[r] = call[r] /\ found'[r] = found[r]
        /\ phase'[r] = "lock_account"
    BY <1>3 DEF LockLink, TypeInv, TypeOK
  <2>2. QED
    BY <1>0, <2>1 DEF Course, Open, UserOf
<1>2a. CASE Conflict(r)
  <2>1. /\ phase[r] = "lock_account" /\ call[r].kind \in Updates /\ call'[r] = call[r]
        /\ found'[r] = found[r] /\ phase'[r] = "refused"
    BY <1>2a DEF Conflict, TypeInv, TypeOK
  <2>2. QED
    BY <1>0, <2>1 DEF Course, Open
<1>4. CASE ListOpen(r)
  <2>1. /\ phase[r] = "list" /\ call'[r] = call[r] /\ found'[r] = found[r]
        /\ phase'[r] \in {"lock_sessions", "commit", "refused"}
    BY <1>4 DEF ListOpen, TypeInv, TypeOK
  <2>2. QED
    BY <1>0, <2>1 DEF Course, Open, UserOf, Reused
<1>5. CASE LockSession(r)
  <2>1. /\ phase[r] = "lock_sessions" /\ call'[r] = call[r] /\ found'[r] = found[r]
        /\ phase'[r] \in {"lock_sessions", "commit"}
    BY <1>5 DEF LockSession, TypeInv, TypeOK
  <2>2. QED
    BY <1>0, <2>1 DEF Course, Open, UserOf, Reused
<1>6. CASE Commit(r)
  <2>1. /\ phase[r] = "commit" /\ call'[r] = call[r] /\ found'[r] = found[r] /\ saw'[r] = saw[r]
        /\ phase'[r] = IF RefusedAfterCommit(r) THEN "refused" ELSE "done"
    BY <1>6 DEF Commit, TypeInv, TypeOK
  <2>2. QED
    BY <1>0, <2>1 DEF Course, Open, UserOf, Reused, RefusedAfterCommit, Disables
<1>7. QED
  BY <1>1, <1>2, <1>3, <1>4, <1>5, <1>6, <1>2a DEF Statement

\* A request whose connection is lost has read nothing that counts.
LEMMA CourseLost ==
  ASSUME TypeInv, NEW r \in Requests, Lose(r)
  PROVE  Course(r)'
<1>1. phase'[r] = "lost" /\ found'[r] = NoRow
  BY DEF Lose, Goto, TypeInv, TypeOK
<1>2. QED
  BY <1>1 DEF Course, Open

\* What a commit makes of the tables has the types of the tables.
LEMMA CommitTypes ==
  ASSUME TypeInv, NEW r \in Requests, Commit(r)
  PROVE  /\ account' \in [Users -> AccountType]
         /\ session' \in [SessionIds -> SessionType]
         /\ link' \in [LinkIds -> LinkType]
         /\ audit' \subseteq AuditType
<1> USE DEF Commit, TypeInv, TypeOK
<1>1. UserOf(r) \in Users
  BY DEF Course, Open
<1>2. /\ call[r].new \in Passwords /\ stamp[r] + Life \in Nat /\ stamp[r] + LinkLife \in Nat
      /\ stamp[r] + Lockout \in Nat
  BY CallFacts, SessionsAssumption
<1>3. saw[r].failed + 1 \in Nat
  BY DEF AccountType
<1>4. ASSUME NEW a \in AccountType PROVE NewAccountRow(r, a) \in AccountType
  <2>1. AfterFailure(r, a) \in AccountType
    BY <1>2, <1>3 DEF AfterFailure, FailedOnce, LockedUntil, AccountType
  <2>2. AfterSuccess(r, a) \in AccountType
    BY DEF AfterSuccess, AccountType
  <2>3. [a EXCEPT !.password = call[r].new] \in AccountType
    BY <1>2 DEF AccountType
  <2>4. \A on \in BOOLEAN : [a EXCEPT !.active = on] \in AccountType
    BY DEF AccountType
  <2>5. (a.active /\ ~saw[r].active) \in BOOLEAN
    OBVIOUS
  <2>6. [a EXCEPT !.active = a.active /\ ~saw[r].active] \in AccountType
    BY <2>4, <2>5
  <2>7. [a EXCEPT !.active = (call[r].kind = "activate")] \in AccountType
    BY <2>4
  <2>8. QED
    BY <2>1, <2>2, <2>3, <2>6, <2>7 DEF NewAccountRow
<1>5. account' \in [Users -> AccountType]
  BY <1>4
<1>6. NewSession(r) \in SessionType
  BY <1>1, <1>2 DEF NewSession, SessionType
<1>7. ASSUME NEW t \in SessionIds PROVE EndedBy(r, session[t]) \in SessionType
  <2>1. session[t] \in SessionType /\ r \in SessionIds
    BY DEF SessionIds
  <2>2. QED
    BY <2>1 DEF EndedBy, SessionType
<1>8. session' \in [SessionIds -> SessionType]
  BY <1>6, <1>7 DEF NewSessions
<1>9. link' \in [LinkIds -> LinkType]
  BY <1>1, <1>2 DEF NewLinks, LinkType
<1>10. AuditEvents(r) \subseteq Events
  BY DEF AuditEvents, Events
<1>11. audit' \subseteq AuditType
  BY <1>1, <1>10 DEF AuditType
<1>12. QED
  BY <1>5, <1>8, <1>9, <1>11

\* The rows that a request ends are sessions.
LEMMA ToEndType ==
  ASSUME TypeInv, NEW r \in Requests
  PROVE  ToEnd(r) \subseteq SessionIds
<1>1. call[r].kind # "reset_password" => call[r].target \in SessionIds
  BY CallFacts DEF TypeInv, TypeOK
<1>2. listed[r] \subseteq SessionIds
  BY DEF TypeInv, TypeOK
<1>3. QED
  BY <1>1, <1>2 DEF ToEnd

\* A first statement keeps the types.
LEMMA TypeBegins ==
  ASSUME TypeInv, NEW r \in Requests, NEW c \in Calls, FirstStatement(r, c)
  PROVE  TypeOK'
<1> USE DEF TypeInv, TypeOK, Begin, Goto, tables, Open, Ended
<1>1. c.target \in SessionIds \/ c.kind = "reset_password"
  BY CallFacts
<1>2. c.target \in LinkIds \/ c.kind # "reset_password"
  BY CallFacts
<1>3. CASE FetchSession(r, c)
  BY <1>1, <1>3, AfterSessionFacts DEF FetchSession
<1>4. CASE FetchLink(r, c)
  BY <1>2, <1>4 DEF FetchLink
<1>5. CASE FetchUser(r, c)
  BY <1>5, AfterAccountFacts DEF FetchUser, ReadAccount
<1>6. CASE UnknownUser(r, c) \/ BeginUpdate(r, c)
  BY <1>6 DEF UnknownUser, BeginUpdate
<1>7. CASE RefuseToken(r, c)
  BY <1>7 DEF RefuseToken
<1>8. QED
  BY <1>3, <1>4, <1>5, <1>6, <1>7 DEF FirstStatement

\* So do the later ones.
LEMMA TypeGoesOn ==
  ASSUME TypeInv, NEW r \in Requests, Statement(r)
  PROVE  TypeOK'
<1> USE DEF TypeInv, TypeOK, Goto, Lock, tables, Open, Ended
<1>0. Course(r) /\ call[r] \in Calls
  OBVIOUS
<1>1. CASE FetchOwner(r)
  <2>1. found[r].user \in Users
    BY <1>0, <1>1 DEF FetchOwner, Course, UserOf
  <2>2. AfterAccount(call[r], account[found[r].user]) \in Open \union Ended
    BY <1>0, AfterAccountFacts
  <2>3. QED
    BY <1>1, <2>1, <2>2 DEF FetchOwner, ReadAccount
<1>2. CASE LockAccount(r)
  <2>1. Row("users", UserOf(r)) \in Rows
    BY <1>0, <1>2 DEF LockAccount, Course, Row, Rows
  <2>2. QED
    BY <1>2, <2>1 DEF LockAccount
<1>3. CASE LockLink(r)
  <2>1. Row("links", call[r].target) \in Rows
    BY <1>0, <1>3, CallFacts DEF LockLink, Course, Row, Rows
  <2>2. QED
    BY <1>3, <2>1 DEF LockLink
<1>4. CASE ListOpen(r)
  BY <1>4 DEF ListOpen, OpenSessions
<1>5. CASE LockSession(r)
  <2>1. PICK t \in Unlocked(r) : Lock(r, Row("sessions", t))
                                 /\ Goto(r, IF Unlocked(r) = {t} THEN "commit" ELSE "lock_sessions")
    BY <1>5 DEF LockSession
  <2>2. Row("sessions", t) \in Rows
    BY ToEndType DEF Unlocked, Row, Rows
  <2>3. QED
    BY <1>5, <2>1, <2>2 DEF LockSession
<1>6. CASE Commit(r)
  BY <1>6, CommitTypes DEF Commit
<1>7. CASE Conflict(r)
  BY <1>7 DEF Conflict
<1>8. QED
  BY <1>1, <1>2, <1>3, <1>4, <1>5, <1>6, <1>7 DEF Statement

\* And so does the loss of a connection.
LEMMA TypeLost ==
  ASSUME TypeInv, NEW r \in Requests, Lose(r)
  PROVE  TypeOK'
<1>1. NewAccount \in AccountType /\ NoRow \in SessionType /\ NoCall \in Calls
  BY SessionsAssumption DEF NewAccount, NoRow, NoCall, AccountType, SessionType
<1>2. QED
  BY <1>1 DEF TypeInv, TypeOK, Lose, Goto, tables, Ended

\* Only a commit changes the tables.
LEMMA TablesKept ==
  ASSUME NEW r \in Requests, Act(r), ~Commit(r)
  PROVE  UNCHANGED tables
BY DEF Act, FirstStatement, Statement, RefuseToken, FetchSession, FetchLink, FetchUser,
       BeginUpdate, UnknownUser,
       ReadAccount, FetchOwner, LockLink, LockAccount, Conflict, ListOpen, LockSession, Lose

-----------------------------------------------------------------------------
\* The inductive invariant gives the facts that the types need.
LEMMA InvHasTypes == SessionsInv => TypeInv
BY DEF SessionsInv, TypeInv, Request

\* What a request is about to end are sessions of its user.
LEMMA Ending ==
  ASSUME SessionsInv, NEW r \in Requests, phase[r] \in {"lock_sessions", "commit"},
         NEW t \in ToEnd(r)
  PROVE  t \in SessionIds /\ session[t].state # "none" /\ session[t].user = UserOf(r)
<1>1. Course(r) /\ Reads(r)
  BY DEF SessionsInv, Request
<1>2. t \in SessionIds
  BY InvHasTypes, ToEndType
<1>3. CASE Reused(r) \/ call[r].kind = "reset_password"
  BY <1>1, <1>2, <1>3 DEF ToEnd, Reads
<1>4. CASE ~Reused(r) /\ call[r].kind \in {"logout", "refresh", "revoke_session"}
  BY <1>1, <1>2, <1>4 DEF ToEnd, Reads, Course, UserOf, Open
<1>5. QED
  BY <1>2, <1>3, <1>4 DEF ToEnd

\* The sessions after a commit.
LEMMA CommitSessions ==
  ASSUME SessionsInv, NEW r \in Requests, Commit(r), NEW t \in SessionIds
  PROVE  /\ t = r /\ Issues(r) => session'[t] = NewSession(r) /\ session[t].state = "none"
         /\ t \in ToEnd(r) =>
              /\ t # r
              /\ session[t].state # "none" /\ session[t].user = UserOf(r)
              /\ session'[t].state = "ended" /\ session'[t].user = session[t].user
              /\ session'[t].heir = IF Issues(r) THEN r ELSE session[t].heir
         /\ ~(t = r /\ Issues(r)) /\ t \notin ToEnd(r) => session'[t] = session[t]
<1>1. phase[r] = "commit" /\ session' = NewSessions(r)
  BY DEF Commit
<1>2. session[r].state = "none"
  BY <1>1 DEF SessionsInv, Request, Issued, TypeOK, SessionType, SessionIds
<1>3. t \in ToEnd(r) => t # r /\ session[t].state # "none" /\ session[t].user = UserOf(r)
  BY <1>1, <1>2, Ending
<1>4. session[t] \in SessionType
  BY DEF SessionsInv, TypeOK
<1>5. session'[t] = IF t = r /\ Issues(r) THEN NewSession(r)
                    ELSE IF t \in ToEnd(r) THEN EndedBy(r, session[t]) ELSE session[t]
  BY <1>1 DEF NewSessions
<1>6. EndedBy(r, session[t]).state = "ended" /\ EndedBy(r, session[t]).user = session[t].user
      /\ EndedBy(r, session[t]).heir = IF Issues(r) THEN r ELSE session[t].heir
  BY <1>4 DEF EndedBy, SessionType
<1>7. QED
  BY <1>2, <1>3, <1>5, <1>6

\* The links after a commit.
LEMMA CommitLinks ==
  ASSUME SessionsInv, NEW r \in Requests, Commit(r), NEW l \in LinkIds
  PROVE  /\ call[r].kind = "forgot_password" /\ l = r =>
              /\ link[l].state = "none"
              /\ link'[l].state = "fresh" /\ link'[l].user = UserOf(r)
         /\ call[r].kind = "reset_password" /\ l = call[r].target =>
              link[l].state # "none" /\ link'[l].state = "used" /\ link'[l].user = link[l].user
         /\ ~(call[r].kind = "forgot_password" /\ l = r)
            /\ ~(call[r].kind = "reset_password" /\ l = call[r].target) => link'[l] = link[l]
<1>1. phase[r] = "commit" /\ link' = NewLinks(r)
  BY DEF Commit
<1>2. link[r].state = "none"
  BY <1>1 DEF SessionsInv, Request, Issued
<1>3. call[r].kind = "reset_password" => link[call[r].target].state # "none"
  BY <1>1 DEF SessionsInv, Request, Reads, Course, Open
<1>4. link[l] \in LinkType
  BY DEF SessionsInv, TypeOK
<1>5. QED
  BY <1>1, <1>2, <1>3, <1>4 DEF NewLinks, LinkType

\* A commit makes a sign-in's row of users, or sets single columns.
LEMMA CommitAccounts ==
  ASSUME SessionsInv, NEW r \in Requests, Commit(r), NEW u \in Users
  PROVE  /\ u # UserOf(r) => account'[u] = account[u]
         /\ ~account[u].active /\ (u = UserOf(r) => call[r].kind # "activate") => ~account'[u].active
         /\ u = UserOf(r) /\ call[r].kind = "disable" /\ saw[r].active => ~account'[u].active
         /\ u = UserOf(r) /\ call[r].kind = "deactivate" => ~account'[u].active
         /\ u = UserOf(r) /\ call[r].kind = "login" =>
              account'[u] = IF Wrong(call[r], saw[r]) THEN AfterFailure(r, account[u])
                            ELSE AfterSuccess(r, account[u])
         /\ u = UserOf(r) /\ call[r].kind # "login" =>
              account'[u].failed = account[u].failed
              /\ account'[u].locked_until = account[u].locked_until
<1>1. account'[u] = IF u = UserOf(r) THEN NewAccountRow(r, account[u]) ELSE account[u]
  BY DEF Commit
<1>2. account[u] \in AccountType
  BY DEF SessionsInv, TypeOK
<1>3. QED
  BY <1>1, <1>2 DEF NewAccountRow, AfterFailure, AfterSuccess, AccountType, Updates

\* Every step lets the tables grow.
LEMMA CommitGrows ==
  ASSUME SessionsInv, NEW r \in Requests, Commit(r)
  PROVE  Grow
<1>1. phase[r] = "commit" /\ audit \subseteq audit'
  BY DEF Commit
<1>2. NewSession(r).state = "open" /\ r \in SessionIds
  BY DEF NewSession, SessionIds
<1>3. QED
  BY <1>1, <1>2, CommitSessions, CommitLinks, CommitAccounts DEF Grow

\* Where the tables are as they were, they have trivially grown.
LEMMA OtherGrows ==
  ASSUME UNCHANGED tables
  PROVE  Grow
BY DEF Grow, tables

-----------------------------------------------------------------------------
\* What is worked out from the local state of a request depends on nothing else.
LEMMA SameMeaning ==
  ASSUME NEW s \in Requests, Same(s)
  PROVE  /\ UserOf(s)' = UserOf(s) /\ Issues(s)' = Issues(s) /\ Reused(s)' = Reused(s)
         /\ AuditEvents(s)' = AuditEvents(s) /\ EndsAll(s)' = EndsAll(s)
<1>1. UserOf(s)' = UserOf(s) /\ Reused(s)' = Reused(s)
  BY DEF Same, UserOf, Reused
<1>2. Wrong(call[s], saw[s])' = Wrong(call[s], saw[s])
  BY DEF Same, Wrong
<1>3. QED
  BY <1>1, <1>2 DEF Same, Issues, AuditEvents, EndsAll

\* A commit ends its request and changes nothing that a request has read.
LEMMA Committing ==
  ASSUME SessionsInv, NEW r \in Requests, Commit(r)
  PROVE  /\ phase[r] = "commit" /\ UserOf(r) \in Users
         /\ phase'[r] = IF RefusedAfterCommit(r) THEN "refused" ELSE "done"
         /\ call' = call /\ saw' = saw /\ found' = found /\ listed' = listed
         /\ stamp' = stamp /\ before' = before /\ now' = now
         /\ audit' = audit \union {[by |-> r, event |-> e, user |-> UserOf(r)] : e \in AuditEvents(r)}
         /\ UserOf(r)' = UserOf(r) /\ Issues(r)' = Issues(r) /\ Reused(r)' = Reused(r)
         /\ AuditEvents(r)' = AuditEvents(r)
<1>1. phase \in [Requests -> {"new"} \union Open \union Ended] /\ Course(r)
  BY DEF SessionsInv, TypeOK, Request
<1>2. /\ phase[r] = "commit"
      /\ phase'[r] = IF RefusedAfterCommit(r) THEN "refused" ELSE "done"
      /\ call' = call /\ saw' = saw /\ found' = found /\ listed' = listed
      /\ stamp' = stamp /\ before' = before /\ now' = now
      /\ audit' = audit \union {[by |-> r, event |-> e, user |-> UserOf(r)] : e \in AuditEvents(r)}
  BY <1>1 DEF Commit, Goto
<1>3. UserOf(r) \in Users
  BY <1>1, <1>2 DEF Course, Open
<1>4. UserOf(r)' = UserOf(r) /\ Reused(r)' = Reused(r)
  BY <1>2 DEF UserOf, Reused
<1>5. Issues(r)' = Issues(r) /\ AuditEvents(r)' = AuditEvents(r)
  BY <1>2, <1>4 DEF Issues, AuditEvents, Wrong
<1>6. QED
  BY <1>2, <1>3, <1>4, <1>5

\* A request that has ended takes no step.
LEMMA EndedRest ==
  ASSUME TypeOK, NEW r \in Requests, Act(r)
  PROVE  phase[r] \notin Ended
BY DEF Act, FirstStatement, Statement, RefuseToken, FetchSession, FetchLink, FetchUser,
       BeginUpdate, UnknownUser, Begin,
       ReadAccount, FetchOwner, LockLink, LockAccount, Conflict, ListOpen, LockSession, Commit, Lose,
       Open, Ended

\* What has been committed before a request stays as it is.
LEMMA BeforeKept ==
  ASSUME SessionsInv, NEW r \in Requests, Act(r), NEW s \in Requests, NEW q \in before[s]
  PROVE  q \in Requests /\ Same(q)
<1>1. q \in Requests /\ phase[q] \in Ended
  BY DEF SessionsInv, TypeOK, Request, Earlier, Ended
<1>2. TypeOK
  BY DEF SessionsInv
<1>3. QED
  BY <1>1, <1>2, EndedRest, OthersKeep

\* Who has been enabled since stays so.
LEMMA EnabledKept ==
  ASSUME SessionsInv, NEW r \in Requests, Act(r), NEW s \in Requests, EnabledSince(s),
         call'[s] = call[s], before'[s] = before[s]
  PROVE  EnabledSince(s)'
<1>1. PICK a \in Requests : /\ phase[a] = "done" /\ call[a].kind = "activate"
                            /\ call[a].user = call[s].user /\ a \notin before[s]
  BY DEF EnabledSince
<1>2. TypeOK /\ phase[a] \in Ended
  BY <1>1 DEF SessionsInv, Ended
<1>3. Same(a)
  BY <1>2, EndedRest, OthersKeep
<1>4. QED
  BY <1>1, <1>3 DEF EnabledSince, Same

\* Whom a request has disabled is not enabled by what had committed before it.
LEMMA StaysOutKept ==
  ASSUME SessionsInv, NEW r \in Requests, Act(r), NEW s \in Requests, s # r, Same(s),
         call[s].user \in Users, StaysOut(s)
  PROVE  StaysOut(s)'
<1>1. CASE EnabledSince(s)
  BY <1>1, EnabledKept DEF StaysOut, Same
<1>2. CASE ~account[call[s].user].active /\ Commit(r)
  <2>1. CASE call[r].kind = "activate" /\ UserOf(r) = call[s].user
    <3>1. phase[r] = "commit" /\ call' = call /\ UserOf(r) = call[r].user
      BY <1>2, <2>1, Committing DEF UserOf
    <3>2. phase'[r] = "done"
      BY <1>2, <2>1, Committing DEF RefusedAfterCommit, Reused
    <3>3. r \notin before'[s]
      BY <3>1 DEF SessionsInv, Request, Earlier, Same
    <3>4. EnabledSince(s)'
      BY <2>1, <3>1, <3>2, <3>3 DEF EnabledSince
    <3>5. QED
      BY <3>4 DEF StaysOut
  <2>2. CASE ~(call[r].kind = "activate" /\ UserOf(r) = call[s].user)
    BY <1>2, <2>2, CommitAccounts DEF StaysOut, Same
  <2>3. QED
    BY <2>1, <2>2
<1>3. CASE ~account[call[s].user].active /\ ~Commit(r)
  BY <1>3, TablesKept DEF StaysOut, Same, tables
<1>4. QED
  BY <1>1, <1>2, <1>3 DEF StaysOut

\* A step of one request leaves what the invariant says of the others.
LEMMA ReadsKept ==
  ASSUME SessionsInv, NEW s \in Requests, Same(s), Grow
  PROVE  Reads(s)'
<1>1. Reads(s) /\ Course(s)
  BY DEF SessionsInv, Request
<1>2. listed[s] \subseteq SessionIds /\ call[s] \in Calls
  BY DEF SessionsInv, TypeOK
<1>3. UserOf(s)' = UserOf(s)
  BY DEF Same, UserOf
<1>4. \A t \in listed[s] : session'[t].state # "none" /\ session'[t].user = UserOf(s)
  BY <1>1, <1>2 DEF Reads, Grow
<1>5. call[s].kind \in {"logout", "refresh"} => call[s].target \in SessionIds
  BY <1>2, CallFacts
<1>6. call[s].kind = "reset_password" => call[s].target \in LinkIds
  BY <1>2, CallFacts
<1>7. QED
  BY <1>1, <1>3, <1>4, <1>5, <1>6 DEF Reads, Grow, Same

\* What a request has done is not undone by others.
LEMMA EffectsKept ==
  ASSUME SessionsInv, NEW r \in Requests, Act(r), NEW s \in Requests, s # r, Same(s), Grow
  PROVE  Effects(s)' /\ SawDisabled(s)'
<1>1. Effects(s) /\ SawDisabled(s) /\ Course(s) /\ call[s] \in Calls
  BY DEF SessionsInv, Request, TypeOK
<1>2. call[s].kind = "refresh" => call[s].target \in SessionIds
  BY <1>1, CallFacts
<1>3. call[s].kind = "reset_password" => call[s].target \in LinkIds
  BY <1>1, CallFacts
<1>4. phase[s] = "done" /\ Disables(s) => StaysOut(s)'
  BY <1>1, StaysOutKept DEF Course, Effects
<1>5. Effects(s)'
  BY <1>1, <1>2, <1>3, <1>4 DEF Effects, Grow, Same, Disables
<1>6. call[s].kind = "disable" /\ phase[s] \in {"lock_account", "commit"} => call[s].user \in Users
  BY <1>1 DEF Course, UserOf, Open
<1>7. SawDisabled(s)'
  BY <1>1, <1>6, StaysOutKept DEF SawDisabled, Same
<1>8. QED
  BY <1>5, <1>7

\* What had committed before a request began has still ended.
LEMMA EarlierKept ==
  ASSUME SessionsInv, NEW r \in Requests, Act(r), NEW s \in Requests, before'[s] = before[s]
  PROVE  Earlier(s)'
<1>1. Earlier(s)
  BY DEF SessionsInv, Request
<1>2. \A q \in before[s] : phase'[q] = phase[q]
  BY BeforeKept DEF Same
<1>3. QED
  BY <1>1, <1>2 DEF Earlier

\* The log only comes to have more failures than a sign-in has read.
LEMMA CountedKept ==
  ASSUME SessionsInv, NEW s \in Requests, Same(s), Grow, IsFiniteSet(audit')
  PROVE  Counted(s)'
<1>1. Counted(s)
  BY DEF SessionsInv, Request
<1>2. FailuresOf(call[s].user) \subseteq FailuresOf(call[s].user)'
  BY DEF FailuresOf, Grow, Same
<1>3. IsFiniteSet(FailuresOf(call[s].user)')
  BY FS_Subset DEF FailuresOf
<1>4. Cardinality(FailuresOf(call[s].user)) <= Cardinality(FailuresOf(call[s].user)')
      /\ Cardinality(FailuresOf(call[s].user)) \in Nat
      /\ Cardinality(FailuresOf(call[s].user)') \in Nat
  BY <1>2, <1>3, FS_Subset, FS_CardinalityType
<1>5. saw[s].failed \in Nat
  BY DEF SessionsInv, TypeOK, AccountType
<1>6. QED
  BY <1>1, <1>4, <1>5 DEF Counted, Same

\* No session that was there before a request began comes to be open again.
LEMMA ListingKept ==
  ASSUME SessionsInv, NEW s \in Requests, Same(s), Grow
  PROVE  Listing(s)'
<1>1. Listing(s) /\ Earlier(s) /\ before[s] \subseteq Requests
  BY DEF SessionsInv, Request, TypeOK
<1>2. EndsAll(s)' = EndsAll(s) /\ UserOf(s)' = UserOf(s)
  BY DEF Same, EndsAll, Reused, UserOf
<1>3. ASSUME NEW t \in Given \union before[s], session'[t].state = "open"
      PROVE  session[t].state = "open" /\ session'[t].user = session[t].user
  <2>1. t \in SessionIds
    BY <1>1 DEF SessionIds
  <2>2. ~(t \in Requests /\ phase[t] = "commit")
    BY <1>1, SessionsAssumption DEF Earlier
  <2>3. QED
    BY <1>3, <2>1, <2>2 DEF Grow
<1>4. QED
  BY <1>1, <1>2, <1>3 DEF Listing, Same

\* What tells a request from those before it is fixed when it has read.
LEMMA OnceKept ==
  ASSUME SessionsInv, NEW r \in Requests, Act(r), NEW s \in Requests, Same(s)
  PROVE  Once(s)'
<1>1. Once(s)
  BY DEF SessionsInv, Request
<1>2. Issues(s)' = Issues(s) /\ UserOf(s)' = UserOf(s)
  BY DEF Same, Issues, Wrong, Reused, UserOf
<1>3. \A q \in before[s] : call'[q] = call[q] /\ phase'[q] = phase[q]
  BY BeforeKept DEF Same
<1>4. \A q \in before[s] : EnabledSince(q) => EnabledSince(q)'
  BY BeforeKept, EnabledKept DEF Same
<1>5. QED
  BY <1>1, <1>2, <1>3, <1>4 DEF Once, Same, Disables

\* Requests begin in their order.
LEMMA InTurnStep ==
  ASSUME SessionsInv, NEW r \in Requests, Act(r)
  PROVE  InTurn'
<1>1. TypeOK /\ InTurn
  BY DEF SessionsInv
<1>2. \A s \in Requests \ {r} : phase'[s] = phase[s]
  BY <1>1, OthersKeep DEF Same
<1>3. phase'[r] # "new"
  <2>1. TypeInv
    BY InvHasTypes
  <2>2. ASSUME NEW c \in Calls, FirstStatement(r, c) PROVE phase'[r] # "new"
    <3>1. CASE FetchSession(r, c) \/ RefuseToken(r, c)
      BY <1>1, <3>1, AfterSessionFacts DEF FetchSession, RefuseToken, Goto, TypeOK
    <3>2. CASE FetchUser(r, c)
      BY <1>1, <3>2, AfterAccountFacts DEF FetchUser, ReadAccount, Goto, TypeOK
    <3>3. CASE FetchLink(r, c) \/ BeginUpdate(r, c) \/ UnknownUser(r, c)
      BY <1>1, <3>3 DEF FetchLink, BeginUpdate, UnknownUser, Goto, TypeOK
    <3>4. QED
      BY <2>2, <3>1, <3>2, <3>3 DEF FirstStatement
  <2>3. ASSUME Statement(r) PROVE phase'[r] # "new"
    <3>1. call[r] \in Calls
      BY <1>1 DEF TypeOK
    <3>2. QED
      BY <1>1, <2>3, <3>1, AfterAccountFacts
         DEF Statement, FetchOwner, LockLink, LockAccount, Conflict, ListOpen, LockSession, Commit,
             ReadAccount, Goto, TypeOK
  <2>4. ASSUME Lose(r) PROVE phase'[r] # "new"
    BY <1>1, <2>4 DEF Lose, Goto, TypeOK
  <2>5. QED
    BY <2>2, <2>3, <2>4 DEF Act
<1>4. phase[r] = "new" => \A s \in Requests : s < r => phase[s] # "new"
  <2>1. ASSUME NEW c \in Calls, FirstStatement(r, c)
        PROVE  \A s \in Requests : s < r => phase[s] # "new"
    BY <2>1 DEF FirstStatement, RefuseToken, FetchSession, FetchLink, FetchUser,
       BeginUpdate, UnknownUser, Begin
  <2>2. Statement(r) => phase[r] # "new"
    BY DEF Statement, FetchOwner, LockLink, LockAccount, Conflict, ListOpen, LockSession, Commit
  <2>3. Lose(r) => phase[r] # "new"
    BY DEF Lose, Open
  <2>4. QED
    BY <2>1, <2>2, <2>3 DEF Act
<1>5. QED
  BY <1>1, <1>2, <1>3, <1>4 DEF InTurn

-----------------------------------------------------------------------------
\* The first statement of a request, in its four forms.
LEMMA Begins ==
  ASSUME SessionsInv, NEW r \in Requests, NEW c \in Calls, FirstStatement(r, c)
  PROVE  /\ phase[r] = "new" /\ call'[r] = c /\ UNCHANGED tables
         /\ found[r].state = "none" /\ listed'[r] = {}
         /\ before'[r] = {s \in Requests : phase[s] \in {"done", "refused"}}
         /\ \A s \in Requests : s < r => phase[s] # "new"
         /\ \/ /\ c.kind \in {"logout", "refresh"} /\ c.target \in SessionIds
               /\ found'[r] = session[c.target]
               /\ phase'[r] = AfterSession(c, session[c.target])
            \/ /\ c.kind = "reset_password" /\ c.target \in LinkIds
               /\ found'[r] = link[c.target] /\ phase'[r] \in {"account", "refused"}
            \/ /\ c.kind \in Kinds \ ({"logout", "refresh", "reset_password"} \union Updates)
               /\ c.user \in Users
               /\ found'[r] = found[r] /\ saw'[r] = account[c.user] /\ stamp'[r] = now
               /\ phase'[r] = AfterAccount(c, account[c.user])
            \/ /\ c.kind \in Kinds \ {"logout", "refresh", "reset_password"} /\ c.user = NoUser
               /\ found'[r] = found[r]
               /\ phase'[r] = IF c.kind = "forgot_password" THEN "done" ELSE "refused"
            \/ /\ c.kind \in Updates /\ c.user \in Users
               /\ found'[r] = found[r] /\ phase'[r] = "lock_account"
            \/ /\ c.kind = "refresh" /\ c.target \in SessionIds
               /\ found'[r] = found[r] /\ phase'[r] = "refused"
<1> USE DEF Begin, Goto
<1>1. TypeOK /\ Course(r)
  BY DEF SessionsInv, Request
<1>2. phase[r] = "new" /\ call'[r] = c /\ UNCHANGED tables /\ listed' = listed
      /\ before'[r] = {s \in Requests : phase[s] \in {"done", "refused"}}
      /\ \A s \in Requests : s < r => phase[s] # "new"
  BY <1>1 DEF FirstStatement, RefuseToken, FetchSession, FetchLink, FetchUser,
       BeginUpdate, UnknownUser, ReadAccount, TypeOK
<1>3. found[r].state = "none" /\ listed[r] = {}
  BY <1>1, <1>2 DEF Course
<1>4. CASE FetchSession(r, c)
  BY <1>1, <1>2, <1>3, <1>4, CallFacts DEF FetchSession, TypeOK
<1>5. CASE FetchLink(r, c)
  BY <1>1, <1>2, <1>3, <1>5, CallFacts DEF FetchLink, TypeOK
<1>6. CASE FetchUser(r, c)
  BY <1>1, <1>2, <1>3, <1>6, CallFacts DEF FetchUser, ReadAccount, TypeOK
<1>7. CASE UnknownUser(r, c)
  BY <1>1, <1>2, <1>3, <1>7, CallFacts DEF UnknownUser, TypeOK
<1>8. CASE BeginUpdate(r, c)
  BY <1>1, <1>2, <1>3, <1>8 DEF BeginUpdate, TypeOK
<1>9. CASE RefuseToken(r, c)
  BY <1>1, <1>2, <1>3, <1>9, CallFacts DEF RefuseToken, TypeOK
<1>10. QED
  BY <1>4, <1>5, <1>6, <1>7, <1>8, <1>9 DEF FirstStatement

\* What a request reads at its beginning.
LEMMA ReadsBegins ==
  ASSUME SessionsInv, NEW r \in Requests, NEW c \in Calls, FirstStatement(r, c)
  PROVE  Reads(r)'
<1>1. session' = session /\ link' = link
  BY Begins DEF tables
<1>2. CASE found'[r].state # "none" /\ c.kind \in {"logout", "refresh"}
  <2>1. found'[r] = session[c.target] /\ phase'[r] = AfterSession(c, session[c.target])
    BY <1>2, Begins DEF Updates
  <2>2. ASSUME c.target \in Requests PROVE c.target < r
    <3>1. phase[c.target] = "done"
      BY <1>2, <2>1, <2>2 DEF SessionsInv, Request, Issued
    <3>2. phase[r] = "new" /\ ~(r < c.target)
      BY <2>2, <3>1, Begins DEF SessionsInv, InTurn
    <3>3. r \in Nat /\ c.target \in Nat /\ r # c.target
      BY <2>2, <3>1, <3>2, SessionsAssumption
    <3>4. QED
      BY <3>2, <3>3
  <2>3. QED
    BY <1>1, <1>2, <2>1, <2>2, Begins DEF Reads
<1>3. CASE found'[r].state = "none" \/ c.kind \notin {"logout", "refresh"}
  <2>1. c.kind = "revoke_session" => phase'[r] \notin {"lock_sessions", "commit"}
    BY Begins, AfterAccountFacts DEF AfterAccount, Updates
  <2>2. c.kind = "reset_password" => found'[r] = link[c.target]
    BY Begins DEF Updates
  <2>3. QED
    BY <1>1, <1>3, <2>1, <2>2, Begins DEF Reads
<1>4. QED
  BY <1>2, <1>3

\* A request that begins has left no trace in the tables.
LEMMA NoTrace ==
  ASSUME SessionsInv, NEW r \in Requests, phase[r] \in {"new"} \union Open, UNCHANGED tables
  PROVE  Issued(r)'
<1>1. session[r].state = "none" /\ link[r].state = "none" /\ \A e \in audit : e.by # r
  BY DEF SessionsInv, Request, Issued, Open
<1>2. QED
  BY <1>1 DEF Issued, tables

\* A first statement has no effect yet, unless nothing is to be done.
LEMMA EffectsBegins ==
  ASSUME SessionsInv, NEW r \in Requests, NEW c \in Calls, FirstStatement(r, c)
  PROVE  Effects(r)' /\ SawDisabled(r)'
<1>1. Effects(r)'
  BY Begins, AfterSessionFacts, AfterAccountFacts DEF Effects, Disables
<1>2. account' = account /\ call'[r] = c
  BY Begins DEF tables
<1>3. ASSUME c.kind = "disable", phase'[r] \in {"lock_account", "commit"}, ~saw'[r].active
      PROVE  StaysOut(r)'
  <2>1. saw'[r] = account[c.user]
    BY <1>3, Begins DEF Updates
  <2>2. QED
    BY <1>2, <1>3, <2>1 DEF StaysOut
<1>4. QED
  BY <1>1, <1>2, <1>3 DEF SawDisabled

\* Before a request comes what had ended when it began.
LEMMA EarlierBegins ==
  ASSUME SessionsInv, NEW r \in Requests, NEW c \in Calls, FirstStatement(r, c)
  PROVE  Earlier(r)'
<1>1. TypeOK
  BY DEF SessionsInv
<1>2. ASSUME NEW s \in Requests, phase[s] \in {"done", "refused"} PROVE phase'[s] = phase[s]
  <2>1. s # r /\ Act(r)
    BY <1>2, Begins DEF Act
  <2>2. QED
    BY <1>1, <2>1, OthersKeep DEF Same
<1>3. QED
  BY <1>2, Begins DEF Earlier

\* A sign-in reads a counter that the log accounts for.
LEMMA CountedBegins ==
  ASSUME SessionsInv, NEW r \in Requests, NEW c \in Calls, FirstStatement(r, c)
  PROVE  Counted(r)'
<1>1. audit' = audit
  BY Begins DEF tables
<1>2. \A u \in Users : account[u].failed <= Cardinality(FailuresOf(u))
  BY DEF SessionsInv, CounterHasCauses
<1>3. FailuresOf(c.user)' = FailuresOf(c.user)
  BY <1>1 DEF FailuresOf
<1>4. QED
  BY <1>2, <1>3, Begins DEF Counted, Open, Updates

\* A request that ends all sessions lists them after its first statement.
LEMMA ListingBegins ==
  ASSUME SessionsInv, NEW r \in Requests, NEW c \in Calls, FirstStatement(r, c)
  PROVE  Listing(r)'
<1>1. phase'[r] \in {"lock_sessions", "commit"} => c.kind \notin {"refresh", "reset_password"}
  BY Begins, AfterSessionFacts, AfterAccountFacts DEF Updates
<1>2. call'[r] = c
  BY Begins
<1>3. QED
  BY <1>1, <1>2 DEF Listing, EndsAll, Reused

\* A request that begins sees the used link, the exchanged session and the
\* disabled user of those that have committed.
LEMMA OnceBegins ==
  ASSUME SessionsInv, NEW r \in Requests, NEW c \in Calls, FirstStatement(r, c)
  PROVE  Once(r)'
<1> SUFFICES ASSUME NEW s \in before'[r], phase'[s] = "done"
    PROVE /\ call'[s].kind = "reset_password" /\ c.kind = "reset_password"
             /\ found'[r].state = "fresh" => c.target # call'[s].target
          /\ call'[s].kind = "refresh" /\ c.kind = "refresh" /\ found'[r].state = "open"
             => c.target # call'[s].target
          /\ Disables(s)' /\ Issues(r)'
             /\ phase'[r] \in {"lock_account", "lock_sessions", "commit", "done"}
             => UserOf(r)' # call'[s].user \/ EnabledSince(s)'
  BY Begins DEF Once
<1>1. s \in Requests /\ s # r /\ TypeOK /\ Act(r)
  BY Begins DEF SessionsInv, Act
<1>2. phase[s] = "done" /\ call'[s] = call[s] /\ before'[s] = before[s]
  BY <1>1, OthersKeep DEF Same
<1>3. Effects(s) /\ Course(s)
  BY <1>1 DEF SessionsInv, Request
<1>4. ASSUME Disables(s), Issues(r)', ~EnabledSince(s)',
             phase'[r] \in {"lock_account", "lock_sessions", "commit", "done"}
      PROVE  UserOf(r)' # call[s].user
  <2>1. call[s].user \in Users /\ ~account[call[s].user].active
    BY <1>1, <1>2, <1>3, <1>4, EnabledKept DEF Effects, Course, StaysOut
  <2>2. c.kind \in {"login", "refresh"} /\ call'[r] = c
    BY <1>4, Begins DEF Issues
  <2>3. c.kind = "login"
    BY <1>4, <2>2, Begins, AfterSessionFacts DEF Updates
  <2>4. saw'[r] = account[c.user] /\ saw'[r].active
    BY <1>4, <2>2, <2>3, Begins DEF Issues, Wrong, Updates
  <2>5. UserOf(r)' = c.user
    BY <2>2, <2>3 DEF UserOf
  <2>6. QED
    BY <2>1, <2>4, <2>5
<1>5. QED
  BY <1>2, <1>3, <1>4, Begins DEF Effects, Disables, Updates

\* All of it.
LEMMA RequestBegins ==
  ASSUME SessionsInv, NEW r \in Requests, NEW c \in Calls, FirstStatement(r, c)
  PROVE  Request(r)'
<1>1. Course(r)'
  BY InvHasTypes, CourseBegins
<1>2. Issued(r)'
  BY Begins, NoTrace
<1>3. QED
  BY <1>1, <1>2, ReadsBegins, EffectsBegins, EarlierBegins, CountedBegins, ListingBegins,
     OnceBegins DEF Request

-----------------------------------------------------------------------------
\* A statement between the first one and the commit.
Goes(r) ==
  FetchOwner(r) \/ LockLink(r) \/ LockAccount(r) \/ Conflict(r) \/ ListOpen(r) \/ LockSession(r)

\* Such a statement in its six forms.
LEMMA Going ==
  ASSUME SessionsInv, NEW r \in Requests, Goes(r)
  PROVE  /\ UNCHANGED tables /\ phase[r] \in Open /\ phase'[r] \in Open \union {"refused"}
         /\ call'[r] = call[r] /\ found'[r] = found[r] /\ before'[r] = before[r]
         /\ \/ /\ phase[r] = "account" /\ listed'[r] = listed[r]
               /\ saw'[r] = account[found[r].user] /\ stamp'[r] = now
               /\ phase'[r] = AfterAccount(call[r], account[found[r].user])
            \/ /\ phase[r] = "lock_account" /\ listed'[r] = listed[r] /\ saw'[r] = saw[r]
               /\ phase'[r] = IF call[r].kind = "reset_password" THEN "list" ELSE "commit"
            \/ /\ phase[r] = "lock_account" /\ listed'[r] = listed[r] /\ saw'[r] = saw[r]
               /\ phase'[r] = "refused" /\ call[r].kind \in Updates
            \/ /\ phase[r] = "lock_link" /\ listed'[r] = listed[r] /\ saw'[r] = saw[r]
               /\ phase'[r] = "lock_account"
            \/ /\ phase[r] = "list" /\ listed'[r] = OpenSessions(r) /\ saw'[r] = saw[r]
               /\ phase'[r] \in {"lock_sessions", "commit", "refused"}
               /\ phase'[r] = "refused" => call[r].kind = "revoke_session"
               /\ call[r].kind = "revoke_session" /\ phase'[r] # "refused" =>
                    call[r].target \in OpenSessions(r)
            \/ /\ phase[r] = "lock_sessions" /\ listed'[r] = listed[r] /\ saw'[r] = saw[r]
               /\ phase'[r] \in {"lock_sessions", "commit"}
<1> USE DEF Goto, Open
<1>1. TypeOK /\ call[r] \in Calls
  BY DEF SessionsInv, TypeOK
<1>2. CASE FetchOwner(r)
  <2>1. AfterAccount(call[r], account[found[r].user]) \in Open \union {"refused"}
    BY <1>1, AfterAccountFacts
  <2>2. QED
    BY <1>1, <1>2, <2>1 DEF FetchOwner, ReadAccount, TypeOK
<1>3. CASE LockAccount(r)
  BY <1>1, <1>3 DEF LockAccount, TypeOK
<1>4. CASE LockLink(r)
  BY <1>1, <1>4 DEF LockLink, TypeOK
<1>5. CASE ListOpen(r)
  BY <1>1, <1>5 DEF ListOpen, TypeOK
<1>6. CASE LockSession(r)
  BY <1>1, <1>6 DEF LockSession, TypeOK
<1>7. CASE Conflict(r)
  BY <1>1, <1>7 DEF Conflict, TypeOK
<1>8. QED
  BY <1>2, <1>3, <1>4, <1>5, <1>6, <1>7 DEF Goes

\* The list of open sessions is one of sessions that are there.
LEMMA ReadsGoesOn ==
  ASSUME SessionsInv, NEW r \in Requests, Goes(r)
  PROVE  Reads(r)'
<1>1. session' = session /\ link' = link /\ call'[r] = call[r] /\ found'[r] = found[r]
  BY Going DEF tables
<1>2. Reads(r) /\ Course(r) /\ call[r] \in Calls
  BY DEF SessionsInv, Request, TypeOK
<1>3. UserOf(r)' = UserOf(r)
  BY <1>1 DEF UserOf
<1>4. \A t \in listed'[r] : session[t].state # "none" /\ session[t].user = UserOf(r)
  BY <1>2, Going DEF Reads, OpenSessions
<1>5. call[r].kind = "revoke_session" /\ phase'[r] \in {"lock_sessions", "commit"} =>
        call[r].target \in listed'[r]
  BY <1>2, Going, AfterAccountFacts DEF Reads, Course, Updates
<1>6. QED
  BY <1>1, <1>2, <1>3, <1>4, <1>5 DEF Reads

\* The list has every open session of the user at its time.
LEMMA ListingGoesOn ==
  ASSUME SessionsInv, NEW r \in Requests, Goes(r)
  PROVE  Listing(r)'
<1>1. session' = session /\ call'[r] = call[r] /\ found'[r] = found[r] /\ before'[r] = before[r]
  BY Going DEF tables
<1>2. Listing(r) /\ Course(r) /\ before[r] \subseteq Requests /\ call[r] \in Calls
  BY DEF SessionsInv, Request, TypeOK
<1>3. UserOf(r)' = UserOf(r) /\ EndsAll(r)' = EndsAll(r)
  BY <1>1 DEF UserOf, EndsAll, Reused
<1>4. CASE phase[r] = "list"
  <2>1. listed'[r] = OpenSessions(r)
    BY <1>4, Going
  <2>2. Given \union before[r] \subseteq SessionIds
    BY <1>2 DEF SessionIds
  <2>3. QED
    BY <1>1, <1>3, <2>1, <2>2 DEF Listing, OpenSessions
<1>5. CASE phase[r] = "lock_sessions"
  <2>1. listed'[r] = listed[r]
    BY <1>5, Going
  <2>2. QED
    BY <1>1, <1>2, <1>3, <1>5, <2>1 DEF Listing
<1>6. CASE phase[r] \notin {"list", "lock_sessions"}
  <2>1. EndsAll(r) => phase'[r] \notin {"lock_sessions", "commit"}
    BY <1>2, <1>6, Going, AfterAccountFacts DEF Course, EndsAll, Reused, Updates
  <2>2. QED
    BY <1>3, <2>1 DEF Listing
<1>7. QED
  BY <1>4, <1>5, <1>6

\* A sign-in reads its counter once.
LEMMA CountedGoesOn ==
  ASSUME SessionsInv, NEW r \in Requests, Goes(r)
  PROVE  Counted(r)'
<1>1. audit' = audit /\ call'[r] = call[r]
  BY Going DEF tables
<1>2. Counted(r) /\ Course(r) /\ phase[r] \in Open
  BY Going DEF SessionsInv, Request
<1>3. FailuresOf(call[r].user)' = FailuresOf(call[r].user)
  BY <1>1 DEF FailuresOf
<1>4. call[r].kind = "login" => saw'[r] = saw[r]
  BY <1>2, Going DEF Course
<1>5. QED
  BY <1>1, <1>2, <1>3, <1>4 DEF Counted

\* A refresh reads its user last, and sees whether it has been disabled.
LEMMA OnceGoesOn ==
  ASSUME SessionsInv, NEW r \in Requests, Goes(r)
  PROVE  Once(r)'
<1>1. call'[r] = call[r] /\ found'[r] = found[r] /\ before'[r] = before[r]
  BY Going
<1>2. Once(r) /\ Course(r) /\ call[r] \in Calls /\ Act(r)
  BY DEF SessionsInv, Request, TypeOK, Goes, Act, Statement
<1>3. ASSUME NEW s \in before[r]
      PROVE  s \in Requests /\ call'[s] = call[s] /\ phase'[s] = phase[s] /\ Effects(s) /\ Course(s)
             /\ (EnabledSince(s) => EnabledSince(s)')
  BY <1>2, BeforeKept, EnabledKept DEF Same, SessionsInv, Request
<1>4. UserOf(r)' = UserOf(r)
  BY <1>1 DEF UserOf
<1>5. ASSUME NEW s \in before[r], phase[s] = "done", Disables(s), Issues(r)', ~EnabledSince(s)',
             phase'[r] \in {"lock_account", "lock_sessions", "commit", "done"}
      PROVE  UserOf(r) # call[s].user
  <2>1. CASE phase[r] = "account"
    <3>1. call[s].user \in Users /\ ~account[call[s].user].active
      BY <1>3, <1>5 DEF Effects, Course, StaysOut
    <3>2. call[r].kind = "refresh"
      BY <1>1, <1>2, <1>5, <2>1 DEF Course, Issues
    <3>3. account[found[r].user].active /\ UserOf(r) = found[r].user
      BY <1>2, <1>5, <2>1, <3>2, Going, AfterAccountFacts DEF UserOf
    <3>4. QED
      BY <3>1, <3>3
  <2>2. CASE phase[r] = "list"
    BY <1>1, <1>2, <1>5, <2>2 DEF Course, Issues, Reused
  <2>3. CASE phase[r] \in {"lock_account", "lock_sessions"}
    <3>1. saw'[r] = saw[r]
      BY <2>3, Going
    <3>2. Issues(r)
      BY <1>1, <1>5, <3>1 DEF Issues, Wrong, Reused
    <3>3. QED
      BY <1>2, <1>3, <1>5, <2>3, <3>2 DEF Once
  <2>4. CASE phase[r] \in {"lock_link", "commit"}
    BY <1>1, <1>2, <1>5, <2>4, Going DEF Course, Issues
  <2>5. QED
    BY <2>1, <2>2, <2>3, <2>4, Going DEF Open
<1>6. QED
  BY <1>1, <1>2, <1>3, <1>4, <1>5 DEF Once, Disables

\* All of it.
LEMMA RequestGoesOn ==
  ASSUME SessionsInv, NEW r \in Requests, Goes(r)
  PROVE  Request(r)'
<1>1. Statement(r) /\ Act(r)
  BY DEF Goes, Statement, Act
<1>2. Course(r)'
  BY <1>1, InvHasTypes, CourseGoesOn
<1>3. Issued(r)'
  BY Going, NoTrace
<1>4. Effects(r)'
  BY Going DEF Effects, Open
<1>5. Earlier(r)'
  BY <1>1, Going, EarlierKept
<1>6. SawDisabled(r)'
  <2>1. SawDisabled(r) /\ Course(r) /\ account' = account /\ call'[r] = call[r] /\ before'[r] = before[r]
    BY Going DEF SessionsInv, Request, tables
  <2>2. call[r].kind = "disable" /\ phase'[r] \in {"lock_account", "commit"} =>
          phase[r] = "lock_account" /\ saw'[r] = saw[r]
    BY <2>1, Going DEF Course, Reused
  <2>3. StaysOut(r) => StaysOut(r)'
    BY <1>1, <2>1, EnabledKept DEF StaysOut
  <2>4. QED
    BY <2>1, <2>2, <2>3 DEF SawDisabled
<1>7. QED
  BY <1>2, <1>3, <1>4, <1>5, <1>6, ReadsGoesOn, ListingGoesOn, CountedGoesOn, OnceGoesOn DEF Request

\* A lost request has left nothing, and knows nothing.
LEMMA RequestLost ==
  ASSUME SessionsInv, NEW r \in Requests, Lose(r)
  PROVE  Request(r)'
<1>1. /\ phase[r] \in Open /\ phase'[r] = "lost" /\ UNCHANGED tables
      /\ found'[r] = NoRow /\ listed'[r] = {} /\ before'[r] = {}
  BY DEF Lose, Goto, SessionsInv, TypeOK
<1>2. Course(r)'
  BY InvHasTypes, CourseLost
<1>3. Issued(r)'
  BY <1>1, NoTrace
<1>4. Reads(r)' /\ Effects(r)' /\ SawDisabled(r)' /\ Counted(r)' /\ Listing(r)'
  BY <1>1 DEF Reads, Effects, SawDisabled, Counted, Listing, NoRow, Open
<1>5. Earlier(r)' /\ Once(r)'
  BY <1>1 DEF Earlier, Once
<1>6. QED
  BY <1>2, <1>3, <1>4, <1>5 DEF Request

-----------------------------------------------------------------------------
\* What a request that is about to commit has in the tables and the log: nothing.
LEMMA NothingYet ==
  ASSUME SessionsInv, NEW r \in Requests, phase[r] = "commit"
  PROVE  /\ session[r].state = "none" /\ link[r].state = "none"
         /\ \A e \in audit : e.by # r
BY DEF SessionsInv, Request, Issued

\* A commit leaves the traces that Issued allows.
LEMMA IssuedCommits ==
  ASSUME SessionsInv, NEW r \in Requests, Commit(r)
  PROVE  Issued(r)'
<1>1. r \in SessionIds /\ r \in LinkIds
  BY DEF SessionIds, LinkIds
<1>2. phase[r] = "commit"
  BY Committing
<1>3. Issues(r) => phase'[r] = "done" /\ session'[r].user = UserOf(r)
  <2>1. Issues(r) => ~RefusedAfterCommit(r)
    BY DEF Issues, RefusedAfterCommit, Reused
  <2>2. NewSession(r).user = UserOf(r)
    BY DEF NewSession
  <2>3. QED
    BY <1>1, <2>1, <2>2, CommitSessions, Committing
<1>4. session'[r].state # "none" => Issues(r)
  BY <1>1, <1>2, CommitSessions, NothingYet
<1>5. link'[r].state # "none" => phase'[r] = "done"
  <2>1. link'[r].state # "none" => call[r].kind = "forgot_password"
    BY <1>1, <1>2, CommitLinks, NothingYet
  <2>2. QED
    BY <2>1, Committing DEF RefusedAfterCommit, Reused
<1>6. ASSUME NEW e \in audit', e.by = r PROVE e.user = UserOf(r) /\ e.event \in AuditEvents(r)
  BY <1>2, <1>6, NothingYet, Committing
<1>7. QED
  BY <1>3, <1>4, <1>5, <1>6, Committing DEF Issued

\* A commit has the effects of its call.
LEMMA EffectsCommits ==
  ASSUME SessionsInv, NEW r \in Requests, Commit(r)
  PROVE  Effects(r)'
<1> SUFFICES ASSUME phase'[r] = "done"
    PROVE  /\ call[r].kind = "reset_password" => link'[call[r].target].state = "used"
           /\ call[r].kind = "refresh" => session'[call[r].target].state = "ended"
           /\ Disables(r) => StaysOut(r)'
  BY Committing DEF Effects, Disables
<1>1. call[r] \in Calls
  BY DEF SessionsInv, TypeOK
<1>2. ASSUME call[r].kind = "reset_password" PROVE link'[call[r].target].state = "used"
  BY <1>1, <1>2, CallFacts, CommitLinks
<1>3. ASSUME call[r].kind = "refresh" PROVE session'[call[r].target].state = "ended"
  <2>1. ~Reused(r)
    BY Committing DEF RefusedAfterCommit
  <2>2. call[r].target \in ToEnd(r) /\ call[r].target \in SessionIds
    BY <1>1, <1>3, <2>1, CallFacts DEF ToEnd
  <2>3. QED
    BY <2>2, CommitSessions
<1>4. ASSUME Disables(r) PROVE StaysOut(r)'
  <2>1. UserOf(r) = call[r].user /\ UserOf(r) \in Users /\ call' = call /\ before' = before
    BY <1>4, Committing DEF UserOf, Disables
  <2>2. CASE call[r].kind = "deactivate" \/ saw[r].active
    BY <1>4, <2>1, <2>2, CommitAccounts DEF StaysOut, Disables
  <2>3. CASE call[r].kind = "disable" /\ ~saw[r].active
    <3>1. StaysOut(r)
      BY <2>3, Committing DEF SessionsInv, Request, SawDisabled
    <3>2. EnabledSince(r) => EnabledSince(r)'
      BY <2>1, EnabledKept DEF Act, Statement
    <3>3. ~account[call[r].user].active => ~account'[call[r].user].active
      BY <2>1, <2>3, CommitAccounts
    <3>4. QED
      BY <2>1, <3>1, <3>2, <3>3 DEF StaysOut
  <2>4. QED
    BY <1>4, <2>2, <2>3 DEF Disables
<1>5. QED
  BY <1>2, <1>3, <1>4

\* What the invariant says of a request that commits.
LEMMA RequestCommits ==
  ASSUME SessionsInv, NEW r \in Requests, Commit(r)
  PROVE  Request(r)'
<1>1. Course(r)'
  BY InvHasTypes, CourseGoesOn DEF Statement
<1>2. Reads(r) /\ call[r] \in Calls /\ listed[r] \subseteq SessionIds
  BY DEF SessionsInv, Request, TypeOK
<1>3. Reads(r)'
  <2>1. Grow
    BY CommitGrows
  <2>2. call[r].kind \in {"logout", "refresh"} => call[r].target \in SessionIds
    BY <1>2, CallFacts
  <2>3. call[r].kind = "reset_password" => call[r].target \in LinkIds
    BY <1>2, CallFacts
  <2>4. \A t \in listed[r] : session'[t].state # "none" /\ session'[t].user = UserOf(r)
    BY <1>2, <2>1 DEF Reads, Grow
  <2>5. phase'[r] \notin {"lock_sessions", "commit"}
    BY Committing
  <2>6. QED
    BY <1>2, <2>1, <2>2, <2>3, <2>4, <2>5, Committing DEF Reads, Grow
<1>4. Counted(r)' /\ Listing(r)' /\ SawDisabled(r)'
  BY Committing DEF Counted, Listing, SawDisabled, Open
<1>5. Act(r)
  BY DEF Act, Statement
<1>6. Earlier(r)'
  BY <1>5, EarlierKept, Committing
<1>7. Once(r)'
  <2>1. \A s \in before[r] : phase'[s] = phase[s]
    BY <1>5, BeforeKept DEF Same
  <2>2. Once(r)
    BY DEF SessionsInv, Request
  <2>3. \A s \in before[r] : EnabledSince(s) => EnabledSince(s)'
    BY <1>5, BeforeKept, EnabledKept DEF Same
  <2>4. QED
    BY <2>1, <2>2, <2>3, Committing DEF Once, Disables
<1>8. QED
  BY <1>1, <1>3, <1>4, <1>6, <1>7, IssuedCommits, EffectsCommits DEF Request

-----------------------------------------------------------------------------
\* The log stays finite, and nothing is recorded in it twice.
LEMMA LogGrows ==
  ASSUME SessionsInv, NEW r \in Requests, Commit(r)
  PROVE  /\ audit' = audit \/ \E e \in AuditEvents(r) :
              audit' = audit \union {[by |-> r, event |-> e, user |-> UserOf(r)]}
         /\ IsFiniteSet(audit')
<1>1. AuditEvents(r) = {} \/ \E e \in AuditEvents(r) : AuditEvents(r) = {e}
  BY DEF AuditEvents
<1>2. audit' = audit \/ \E e \in AuditEvents(r) :
        audit' = audit \union {[by |-> r, event |-> e, user |-> UserOf(r)]}
  BY <1>1, Committing
<1>3. IsFiniteSet(audit)
  BY DEF SessionsInv
<1>4. \A x : IsFiniteSet(audit \union {x})
  BY <1>3, FS_AddElement
<1>5. QED
  BY <1>2, <1>3, <1>4

\* A row of a token keeps its user.
LEMMA RowsOwnedCommits ==
  ASSUME SessionsInv, NEW r \in Requests, Commit(r)
  PROVE  RowsOwned'
<1>1. RowsOwned /\ UserOf(r) \in Users /\ NoUser \notin Users
  BY SessionsAssumption, Committing DEF SessionsInv
<1>2. NewSession(r).state = "open" /\ NewSession(r).user = UserOf(r)
  BY DEF NewSession
<1>3. ASSUME NEW t \in SessionIds
      PROVE  /\ session'[t].state = "none" <=> session'[t].user = NoUser
             /\ session'[t].state = "none" => session'[t].heir = NoSession
  BY <1>1, <1>2, CommitSessions DEF RowsOwned
<1>4. ASSUME NEW l \in LinkIds PROVE link'[l].state = "none" <=> link'[l].user = NoUser
  BY <1>1, CommitLinks DEF RowsOwned
<1>5. QED
  BY <1>3, <1>4 DEF RowsOwned

\* A commit that charges an account records the failure.
LEMMA FailureCommits ==
  ASSUME SessionsInv, NEW r \in Requests, Commit(r), NEW u \in Users,
         u = UserOf(r), call[r].kind = "login", Wrong(call[r], saw[r])
  PROVE  /\ account'[u].failed <= Cardinality(FailuresOf(u)')
         /\ account'[u].locked_until > 0 => Cardinality(FailuresOf(u)') >= MaxAttempts
<1> DEFINE e == [by |-> r, event |-> "login.failed", user |-> u]
<1>1. FailuresOf(u)' = FailuresOf(u) \union {e} /\ e \notin FailuresOf(u)
  <2>1. AuditEvents(r) = {"login.failed"}
    BY DEF AuditEvents
  <2>2. audit' = audit \union {e}
    BY <2>1, Committing
  <2>3. e \notin audit
    BY NothingYet, Committing
  <2>4. QED
    BY <2>2, <2>3 DEF FailuresOf
<1>2. IsFiniteSet(FailuresOf(u))
  BY FS_Subset DEF SessionsInv, FailuresOf
<1>3. Cardinality(FailuresOf(u)') = Cardinality(FailuresOf(u)) + 1
      /\ Cardinality(FailuresOf(u)) \in Nat
  BY <1>1, <1>2, FS_AddElement, FS_CardinalityType
<1>4. saw[r].failed \in Nat /\ saw[r].failed <= Cardinality(FailuresOf(u))
  <2>1. Counted(r) /\ saw[r] \in AccountType
    BY DEF SessionsInv, Request, TypeOK
  <2>2. call[r].user = u
    BY DEF UserOf
  <2>3. QED
    BY <2>1, <2>2, Committing DEF Counted, Open, AccountType
<1>5. /\ account'[u].failed = saw[r].failed + 1
      /\ saw[r].failed + 1 >= MaxAttempts \/ account'[u].locked_until = account[u].locked_until
  <2>1. account'[u] = AfterFailure(r, account[u]) /\ account[u] \in AccountType
    BY CommitAccounts DEF SessionsInv, TypeOK
  <2>2. QED
    BY <2>1 DEF AfterFailure, FailedOnce, AccountType
<1>6. account[u].locked_until > 0 => Cardinality(FailuresOf(u)) >= MaxAttempts
  BY DEF SessionsInv, CounterHasCauses
<1>7. MaxAttempts \in Nat
  BY SessionsAssumption
<1>8. QED
  BY <1>3, <1>4, <1>5, <1>6, <1>7

\* Every other commit leaves an account no worse.
LEMMA CounterCommits ==
  ASSUME SessionsInv, NEW r \in Requests, Commit(r)
  PROVE  CounterHasCauses'
<1> SUFFICES ASSUME NEW u \in Users
    PROVE /\ account'[u].failed <= Cardinality(FailuresOf(u)')
          /\ account'[u].locked_until > 0 => Cardinality(FailuresOf(u)') >= MaxAttempts
  BY DEF CounterHasCauses
<1>1. CASE u = UserOf(r) /\ call[r].kind = "login" /\ Wrong(call[r], saw[r])
  BY <1>1, FailureCommits
<1>2. CASE ~(u = UserOf(r) /\ call[r].kind = "login" /\ Wrong(call[r], saw[r]))
  <2>1. account'[u].failed \in {account[u].failed, 0}
        /\ account'[u].locked_until \in {account[u].locked_until, 0}
    <3>1. account[u] \in AccountType
      BY DEF SessionsInv, TypeOK
    <3>2. AfterSuccess(r, account[u]).failed \in {account[u].failed, 0}
          /\ AfterSuccess(r, account[u]).locked_until \in {account[u].locked_until, 0}
      BY <3>1 DEF AfterSuccess, AccountType
    <3>3. QED
      BY <1>2, <3>2, CommitAccounts
  <2>2. FailuresOf(u) \subseteq FailuresOf(u)'
    BY CommitGrows DEF Grow, FailuresOf
  <2>3. IsFiniteSet(FailuresOf(u)')
    BY LogGrows, FS_Subset DEF FailuresOf
  <2>4. Cardinality(FailuresOf(u)) <= Cardinality(FailuresOf(u)')
        /\ Cardinality(FailuresOf(u)) \in Nat /\ Cardinality(FailuresOf(u)') \in Nat
    BY <2>2, <2>3, FS_Subset, FS_CardinalityType
  <2>5. /\ account[u].failed <= Cardinality(FailuresOf(u))
        /\ account[u].locked_until > 0 => Cardinality(FailuresOf(u)) >= MaxAttempts
    BY DEF SessionsInv, CounterHasCauses
  <2>6. account[u].failed \in Nat /\ account[u].locked_until \in Nat /\ MaxAttempts \in Nat
    BY SessionsAssumption DEF SessionsInv, TypeOK, AccountType
  <2>7. QED
    BY <2>1, <2>4, <2>5, <2>6
<1>3. QED
  BY <1>1, <1>2

\* What a step of one request leaves of what the tables have of another.
LEMMA IssuedKept ==
  ASSUME SessionsInv, NEW r \in Requests, Act(r), NEW s \in Requests, s # r
  PROVE  Issued(s)'
<1>1. Same(s) /\ Issued(s)
  BY OthersKeep DEF SessionsInv, Request
<1>2. UserOf(s)' = UserOf(s) /\ Issues(s)' = Issues(s) /\ AuditEvents(s)' = AuditEvents(s)
  BY <1>1, SameMeaning
<1>3. s \in SessionIds /\ s \in LinkIds
  BY DEF SessionIds, LinkIds
<1>4. CASE Commit(r)
  <2>1. session'[s].state # "none" =>
          session[s].state # "none" /\ session'[s].user = session[s].user
    BY <1>3, <1>4, CommitSessions
  <2>2. link'[s].state # "none" => link[s].state # "none"
    BY <1>3, <1>4, CommitLinks
  <2>3. \A e \in audit' : e.by = s => e \in audit
    BY <1>4, Committing
  <2>4. QED
    BY <1>1, <1>2, <2>1, <2>2, <2>3 DEF Issued, Same
<1>5. CASE ~Commit(r)
  <2>1. session' = session /\ link' = link /\ audit' = audit
    BY <1>5, TablesKept DEF tables
  <2>2. QED
    BY <1>1, <1>2, <2>1 DEF Issued, Same
<1>6. QED
  BY <1>4, <1>5

-----------------------------------------------------------------------------
\* A step of one request leaves what the invariant says of another.
LEMMA RequestKept ==
  ASSUME SessionsInv, NEW r \in Requests, Act(r), NEW s \in Requests, s # r
  PROVE  Request(s)'
<1>1. Same(s) /\ Course(s)
  BY OthersKeep DEF SessionsInv, Request
<1>2. Grow /\ IsFiniteSet(audit')
  <2>1. CASE Commit(r)
    BY <2>1, CommitGrows, LogGrows
  <2>2. CASE ~Commit(r)
    <3>1. UNCHANGED tables
      BY <2>2, TablesKept
    <3>2. IsFiniteSet(audit')
      BY <3>1 DEF tables, SessionsInv
    <3>3. QED
      BY <3>1, <3>2, OtherGrows
  <2>3. QED
    BY <2>1, <2>2
<1>3. Course(s)'
  BY <1>1, CourseSame
<1>4. Reads(s)' /\ Effects(s)' /\ SawDisabled(s)' /\ Listing(s)'
  BY <1>1, <1>2, ReadsKept, EffectsKept, ListingKept
<1>5. Counted(s)'
  BY <1>1, <1>2, CountedKept
<1>6. Earlier(s)'
  BY <1>1, EarlierKept DEF Same
<1>7. Issued(s)' /\ Once(s)'
  BY <1>1, IssuedKept, OnceKept
<1>8. QED
  BY <1>3, <1>4, <1>5, <1>6, <1>7 DEF Request

\* A request's step keeps the invariant.
LEMMA ActStep ==
  ASSUME SessionsInv, NEW r \in Requests, Act(r)
  PROVE  SessionsInv'
<1>1. TypeInv
  BY InvHasTypes
<1>2. TypeOK'
  BY <1>1, TypeBegins, TypeGoesOn, TypeLost DEF Act
<1>3. Request(r)'
  BY RequestBegins, RequestGoesOn, RequestCommits, RequestLost DEF Act, Statement, Goes
<1>4. \A s \in Requests : Request(s)'
  BY <1>3, RequestKept
<1>5. InTurn'
  BY InTurnStep
<1>6. IsFiniteSet(audit') /\ RowsOwned' /\ CounterHasCauses'
  <2>1. CASE Commit(r)
    BY <2>1, LogGrows, RowsOwnedCommits, CounterCommits
  <2>2. CASE ~Commit(r)
    <3>1. account' = account /\ session' = session /\ link' = link /\ audit' = audit
      BY <2>2, TablesKept DEF tables
    <3>2. IsFiniteSet(audit) /\ RowsOwned /\ CounterHasCauses
      BY DEF SessionsInv
    <3>3. RowsOwned'
      BY <3>1, <3>2 DEF RowsOwned
    <3>4. CounterHasCauses'
      BY <3>1, <3>2 DEF CounterHasCauses, FailuresOf
    <3>5. QED
      BY <3>1, <3>2, <3>3, <3>4
  <2>3. QED
    BY <2>1, <2>2
<1>7. QED
  BY <1>2, <1>4, <1>5, <1>6 DEF SessionsInv

\* Where nothing but the clock changes, the invariant holds on.
LEMMA IdleStep ==
  ASSUME SessionsInv, UNCHANGED <<tables, locals>>, now' \in Nat
  PROVE  SessionsInv'
<1> USE DEF tables, locals
<1>1. TypeOK'
  BY DEF SessionsInv, TypeOK
<1>2. RowsOwned' /\ IsFiniteSet(audit') /\ InTurn' /\ CounterHasCauses'
  BY DEF SessionsInv, RowsOwned, InTurn, CounterHasCauses, FailuresOf
<1>3. ASSUME NEW s \in Requests PROVE Request(s)'
  <2>1. Same(s) /\ Request(s)
    BY DEF Same, SessionsInv
  <2>2. UserOf(s)' = UserOf(s) /\ Issues(s)' = Issues(s) /\ AuditEvents(s)' = AuditEvents(s)
        /\ EndsAll(s)' = EndsAll(s)
    BY <2>1, SameMeaning
  <2>3. Course(s)'
    BY <2>1, CourseSame DEF Request
  <2>2a. /\ \A q \in Requests : EnabledSince(q)' = EnabledSince(q) /\ Disables(q)' = Disables(q)
        /\ StaysOut(s)' = StaysOut(s)
    BY DEF EnabledSince, Disables, StaysOut
  <2>4. Reads(s)' /\ Issued(s)' /\ Effects(s)' /\ SawDisabled(s)'
    BY <2>1, <2>2, <2>2a DEF Request, Reads, Issued, Effects, SawDisabled
  <2>5. Earlier(s)' /\ Counted(s)'
    BY <2>1 DEF Request, Earlier, Counted, FailuresOf
  <2>6. Listing(s)'
    BY <2>1, <2>2 DEF Request, Listing
  <2>6a. Once(s)'
    <3>1. Once(s) /\ before[s] \subseteq Requests
      BY <2>1 DEF Request, SessionsInv, TypeOK
    <3>2. QED
      BY <2>2, <2>2a, <3>1 DEF Once
  <2>7. QED
    BY <2>3, <2>4, <2>5, <2>6, <2>6a DEF Request
<1>4. QED
  BY <1>1, <1>2, <1>3 DEF SessionsInv

\* The invariant holds in the beginning.
LEMMA InvInit == Init => SessionsInv
<1> SUFFICES ASSUME Init PROVE SessionsInv
  OBVIOUS
<1>1. TypeInv
  BY TypeInit
<1>2. audit = {} /\ \A r \in Requests : phase[r] = "new" /\ before[r] = {} /\ listed[r] = {}
  BY DEF Init
<1>3. IsFiniteSet(audit)
  BY <1>2, FS_EmptySet
<1>4. CounterHasCauses
  <2>1. \A u \in Users : account[u].failed = 0 /\ account[u].locked_until = 0 /\ FailuresOf(u) = {}
    BY <1>2 DEF Init, NewAccount, FailuresOf
  <2>2. Cardinality({}) = 0
    BY FS_EmptySet
  <2>3. QED
    BY <2>1, <2>2 DEF CounterHasCauses
<1>5. ASSUME NEW r \in Requests PROVE Request(r)
  <2>1. found[r].state = "none" /\ session[r].state = "none" /\ link[r].state = "none"
    BY SessionsAssumption DEF Init, NoRow, NoLink, SessionIds, LinkIds
  <2>2. Reads(r) /\ Issued(r) /\ Effects(r) /\ SawDisabled(r)
    BY <1>2, <2>1 DEF Reads, Issued, Effects, SawDisabled
  <2>3. Earlier(r) /\ Counted(r) /\ Listing(r) /\ Once(r)
    BY <1>2 DEF Earlier, Counted, Listing, Once, Open
  <2>4. QED
    BY <1>1, <2>2, <2>3 DEF TypeInv, Request
<1>6. QED
  BY <1>1, <1>2, <1>3, <1>4, <1>5 DEF SessionsInv, TypeInv, InTurn

\* Every step keeps the invariant.
LEMMA InvStep == SessionsInv /\ [Next]_vars => SessionsInv'
<1> SUFFICES ASSUME SessionsInv, [Next]_vars PROVE SessionsInv'
  OBVIOUS
<1>1. now \in Nat
  BY DEF SessionsInv, TypeOK
<1>2. ASSUME NEW r \in Requests, Act(r) PROVE SessionsInv'
  BY <1>2, ActStep
<1>3. CASE Tick
  BY <1>1, <1>3, IdleStep DEF Tick
<1>4. CASE UNCHANGED vars
  BY <1>1, <1>4, IdleStep DEF vars
<1>5. QED
  BY <1>2, <1>3, <1>4 DEF Next, Act, Rest

\* The inductive invariant holds in every state the service can be in.
THEOREM SessionsInvariant == Spec => []SessionsInv
<1>1. QED
  BY InvInit, InvStep, PTL DEF Spec

\* Every value a column, or a request's memory, ever has is of its type.
THEOREM TypeCorrect == Spec => []TypeOK
<1>1. SessionsInv => TypeOK
  BY DEF SessionsInv
<1>2. QED
  BY <1>1, SessionsInvariant, PTL

\* No interleaving of sign-ins charges an account with attempts that the log
\* does not have.
THEOREM CounterCorrect == Spec => []CounterHasCauses
<1>1. SessionsInv => CounterHasCauses
  BY DEF SessionsInv
<1>2. QED
  BY <1>1, SessionsInvariant, PTL

\* Of two requests one of which had committed before the other began, not both
\* use a link or exchange a session; and the second opens a session for a user
\* whom the first has disabled only where a third one, which had not committed
\* before the first began, has enabled the user.
THEOREM OnceInTurnCorrect == Spec => []OnceInTurn
<1>1. ASSUME SessionsInv, NEW r \in Requests, NEW s \in Requests, phase[r] = "done",
             phase[s] = "done", s \in before[r]
      PROVE  /\ call[r].kind \in {"reset_password", "refresh"} /\ call[s].kind = call[r].kind
                  => call[r].target # call[s].target
             /\ Disables(s) /\ session[r].user = call[s].user => EnabledSince(s)
  <2>1. Once(r) /\ Course(r) /\ Course(s) /\ Issued(r) /\ RowsOwned /\ r \in SessionIds
    BY <1>1 DEF SessionsInv, Request, SessionIds
  <2>2. call[r].kind = "reset_password" => found[r].state = "fresh"
    BY <1>1, <2>1 DEF Course
  <2>3. call[r].kind = "refresh" => found[r].state = "open"
    BY <1>1, <2>1 DEF Course
  <2>4. call[r].kind \in {"reset_password", "refresh"} /\ call[s].kind = call[r].kind
          => call[r].target # call[s].target
    BY <1>1, <2>1, <2>2, <2>3 DEF Once
  <2>5. ASSUME Disables(s), session[r].user = call[s].user PROVE EnabledSince(s)
    <3>1. call[s].user \in Users /\ NoUser \notin Users
      BY <1>1, <2>1, <2>5, SessionsAssumption DEF Course
    <3>2. session[r].state # "none"
      BY <2>1, <2>5, <3>1 DEF RowsOwned
    <3>3. Issues(r) /\ session[r].user = UserOf(r)
      BY <2>1, <3>2 DEF Issued
    <3>4. UserOf(r) # call[s].user \/ EnabledSince(s)
      BY <1>1, <2>1, <2>5, <3>3 DEF Once
    <3>5. QED
      BY <2>5, <3>3, <3>4
  <2>6. QED
    BY <2>4, <2>5
<1>2. SessionsInv => OnceInTurn
  BY <1>1 DEF OnceInTurn
<1>3. QED
  BY <1>2, SessionsInvariant, PTL

-----------------------------------------------------------------------------
\* An invariant of sessions and log that the steps of Next keep beside SessionsInv
\* is kept by [Next]_vars; this says of such a step what matters for that.
LEMMA StepCases ==
  ASSUME [Next]_vars
  PROVE  (\E r \in Requests : Act(r)) \/ UNCHANGED <<tables, locals>>
BY DEF Next, Act, Tick, Rest, vars

\* A request that ends all sessions and is over has committed.
LEMMA EndsByCommit ==
  ASSUME SessionsInv, NEW r \in Requests, Act(r), ~Commit(r)
  PROVE  ~(Committed(r)' /\ EndsAll(r)')
<1>1. call[r] \in Calls /\ Course(r)
  BY DEF SessionsInv, TypeOK, Request
<1>2. ASSUME NEW c \in Calls, FirstStatement(r, c) PROVE ~(Committed(r)' /\ EndsAll(r)')
  <2>1. call'[r] = c
    BY <1>2, Begins
  <2>2. CASE c.kind \in {"logout", "refresh"}
    BY <1>2, <2>1, <2>2, Begins, AfterSessionFacts
       DEF Committed, EndsAll, Reused, AfterSession, Updates
  <2>3. CASE c.kind = "reset_password"
    BY <1>2, <2>1, <2>3, Begins DEF Committed, EndsAll, Reused, Updates
  <2>4. CASE c.kind \notin {"logout", "refresh", "reset_password"}
    BY <2>1, <2>4 DEF EndsAll, Reused
  <2>5. QED
    BY <2>2, <2>3, <2>4
<1>3. ASSUME Goes(r) PROVE ~(Committed(r)' /\ EndsAll(r)')
  <2>1. phase'[r] # "done" /\ call'[r] = call[r] /\ found'[r] = found[r]
    BY <1>3, Going DEF Open
  <2>2. phase'[r] = "refused" => ~Reused(r)
    BY <1>1, <1>3, Going DEF Course, Reused, Open, Updates
  <2>3. QED
    BY <2>1, <2>2 DEF Committed, Reused
<1>4. ASSUME Lose(r) PROVE ~(Committed(r)' /\ EndsAll(r)')
  BY <1>4 DEF Lose, Goto, Committed, SessionsInv, TypeOK
<1>5. QED
  BY <1>2, <1>3, <1>4 DEF Act, Statement, Goes

\* Ending all sessions of a user, for a new password or an unexpired token that
\* was exchanged before, reaches each one that was there when the request began,
\* whatever others open, exchange or end meanwhile.
THEOREM EarlierSessionsCorrect == Spec => []EarlierSessionsEnd
<1>1. Init => EarlierSessionsEnd
  BY DEF Init, EarlierSessionsEnd, Committed
<1>2. ASSUME SessionsInv, EarlierSessionsEnd, NEW q \in Requests, Act(q), NEW r \in Requests,
             Committed(r)', EndsAll(r)', NEW t \in Given \union before'[r],
             session'[t].user = UserOf(r)'
      PROVE  session'[t].state # "open"
  <2>1. before[r] \subseteq Requests /\ Earlier(r) /\ Listing(r)
    BY <1>2 DEF SessionsInv, TypeOK, Request
  <2>2. CASE q = r
    <3>1. Commit(r)
      BY <1>2, <2>2, EndsByCommit
    <3>2. before' = before /\ UserOf(r)' = UserOf(r) /\ EndsAll(r) /\ phase[r] = "commit"
      BY <1>2, <3>1, Committing DEF EndsAll
    <3>3. t \in SessionIds /\ t # r
      BY <1>2, <2>1, <3>2, SessionsAssumption DEF SessionIds, Earlier
    <3>4. CASE t \in ToEnd(r)
      BY <1>2, <3>1, <3>3, <3>4, CommitSessions
    <3>5. CASE t \notin ToEnd(r)
      <4>1. session'[t] = session[t]
        BY <1>2, <3>1, <3>3, <3>5, CommitSessions
      <4>2. t \notin listed[r]
        BY <3>2, <3>5 DEF ToEnd, EndsAll
      <4>3. QED
        BY <1>2, <2>1, <3>2, <4>1, <4>2 DEF Listing
    <3>6. QED
      BY <3>4, <3>5
  <2>3. CASE q # r
    <3>1. Same(r) /\ UserOf(r)' = UserOf(r) /\ EndsAll(r)' = EndsAll(r) /\ Reused(r)' = Reused(r)
      BY <1>2, <2>3, OthersKeep, SameMeaning DEF SessionsInv
    <3>2. Committed(r) /\ EndsAll(r) /\ t \in Given \union before[r]
      BY <1>2, <3>1 DEF Same, Committed
    <3>3. t \in SessionIds /\ ~(t \in Requests /\ phase[t] = "commit")
      BY <2>1, <3>2, SessionsAssumption DEF SessionIds, Earlier
    <3>4. Grow
      BY <1>2, CommitGrows, OtherGrows, TablesKept
    <3>5. session'[t].state = "open" => session[t].state = "open" /\ session'[t].user = session[t].user
      BY <3>3, <3>4 DEF Grow
    <3>6. QED
      BY <1>2, <3>1, <3>2, <3>5 DEF EarlierSessionsEnd
  <2>4. QED
    BY <2>2, <2>3
<1>3. SessionsInv /\ EarlierSessionsEnd /\ [Next]_vars => EarlierSessionsEnd'
  <2> SUFFICES ASSUME SessionsInv, EarlierSessionsEnd, [Next]_vars PROVE EarlierSessionsEnd'
    OBVIOUS
  <2>1. ASSUME NEW q \in Requests, Act(q) PROVE EarlierSessionsEnd'
    BY <1>2, <2>1 DEF EarlierSessionsEnd
  <2>2. CASE UNCHANGED <<tables, locals>>
    BY <2>2 DEF EarlierSessionsEnd, Committed, EndsAll, Reused, UserOf, tables, locals
  <2>3. QED
    BY <2>1, <2>2, StepCases
<1>4. QED
  BY <1>1, <1>3, SessionsInvariant, PTL DEF Spec

-----------------------------------------------------------------------------
\* A sign-in that is refused for its password has committed the record of it.
THEOREM RefusalCorrect == Spec => []RefusalIsRecorded
<1>1. Init => RefusalIsRecorded
  BY DEF Init, RefusalIsRecorded
<1>2. ASSUME SessionsInv, RefusalIsRecorded, NEW q \in Requests, Act(q), NEW r \in Requests,
             phase'[r] = "refused", call'[r].kind = "login", call'[r].user \in Users,
             ~(saw'[r].locked_until > stamp'[r])
      PROVE  [by |-> r, event |-> "login.failed", user |-> call'[r].user] \in audit'
  <2>1. CASE q = r
    <3>1. ASSUME NEW c \in Calls, FirstStatement(r, c) PROVE FALSE
      <4>1. call'[r] = c
        BY <1>2, <3>1, Begins
      <4>2. /\ saw'[r] = account[c.user] /\ stamp'[r] = now
            /\ phase'[r] = AfterAccount(c, account[c.user])
        BY <1>2, <3>1, <4>1, Begins, SessionsAssumption DEF Updates
      <4>3. QED
        BY <1>2, <4>1, <4>2 DEF AfterAccount, IsLocked
    <3>2. ASSUME Goes(r) PROVE FALSE
      <4>1. Course(r) /\ call'[r] = call[r]
        BY <1>2, <3>2, Going DEF SessionsInv, Request
      <4>2. QED
        BY <1>2, <3>2, <4>1, Going DEF Course, Reused, Updates
    <3>3. ASSUME Lose(r) PROVE FALSE
      BY <1>2, <3>3 DEF Lose, Goto, SessionsInv, TypeOK
    <3>4. ASSUME Commit(r)
          PROVE  [by |-> r, event |-> "login.failed", user |-> call'[r].user] \in audit'
      <4>1. call' = call /\ UserOf(r) = call[r].user
        BY <1>2, <3>4, Committing DEF UserOf
      <4>2. Wrong(call[r], saw[r])
        BY <1>2, <3>4, <4>1, Committing DEF RefusedAfterCommit, Reused
      <4>3. AuditEvents(r) = {"login.failed"}
        BY <1>2, <4>1, <4>2 DEF AuditEvents
      <4>4. QED
        BY <1>2, <3>4, <4>1, <4>3, Committing
    <3>5. QED
      BY <1>2, <2>1, <3>1, <3>2, <3>3, <3>4 DEF Act, Statement, Goes
  <2>2. CASE q # r
    <3>1. Same(r)
      BY <1>2, <2>2, OthersKeep DEF SessionsInv
    <3>2. audit \subseteq audit'
      BY <1>2, CommitGrows, OtherGrows, TablesKept DEF Grow
    <3>3. QED
      BY <1>2, <3>1, <3>2 DEF RefusalIsRecorded, Same
  <2>3. QED
    BY <2>1, <2>2
<1>3. SessionsInv /\ RefusalIsRecorded /\ [Next]_vars => RefusalIsRecorded'
  <2> SUFFICES ASSUME SessionsInv, RefusalIsRecorded, [Next]_vars PROVE RefusalIsRecorded'
    OBVIOUS
  <2>1. ASSUME NEW q \in Requests, Act(q) PROVE RefusalIsRecorded'
    BY <1>2, <2>1 DEF RefusalIsRecorded
  <2>2. CASE UNCHANGED <<tables, locals>>
    BY <2>2 DEF RefusalIsRecorded, tables, locals
  <2>3. QED
    BY <2>1, <2>2, StepCases
<1>4. QED
  BY <1>1, <1>3, SessionsInvariant, PTL DEF Spec

-----------------------------------------------------------------------------
\* A request that replaces a session replaces an older one.
LEMMA Replacing ==
  ASSUME SessionsInv, NEW r \in Requests, Commit(r), Issues(r), NEW t \in ToEnd(r)
  PROVE  t = call[r].target /\ t \in SessionIds /\ (t \in Requests => t < r)
<1>1. Reads(r) /\ Course(r) /\ phase[r] = "commit" /\ call[r] \in Calls
  BY Committing DEF SessionsInv, TypeOK, Request
<1>2. call[r].kind = "refresh" /\ ~Reused(r)
  BY DEF Issues, ToEnd, Reused
<1>3. t = call[r].target /\ t \in SessionIds
  BY <1>1, <1>2, CallFacts DEF ToEnd
<1>4. found[r].state # "none"
  BY <1>1, <1>2 DEF Course, Open
<1>5. QED
  BY <1>1, <1>2, <1>3, <1>4 DEF Reads

\* What was exchanged has ended, and its heir is a later session of its user.
THEOREM HeirsCorrect == Spec => []HeirsAreSound
<1>1. Init => HeirsAreSound
  BY DEF Init, HeirsAreSound, NoRow
<1>2. ASSUME SessionsInv, HeirsAreSound, NEW r \in Requests, Commit(r), NEW t \in SessionIds,
             session'[t].heir # NoSession
      PROVE  /\ session'[t].state = "ended"
             /\ session'[t].heir \in Requests /\ session'[session'[t].heir].state # "none"
             /\ session'[session'[t].heir].user = session'[t].user
             /\ t \in Requests => t < session'[t].heir
  <2>1. NewSession(r).heir = NoSession /\ NewSession(r).state = "open" /\ NewSession(r).user = UserOf(r)
        /\ r \in SessionIds
    BY DEF NewSession, SessionIds
  <2>2. Grow
    BY <1>2, CommitGrows
  <2>3. ASSUME session'[t].heir = session[t].heir,
               session'[t].user = session[t].user,
               session[t].state = "ended" => session'[t].state = "ended"
        PROVE  /\ session'[t].state = "ended"
               /\ session'[t].heir \in Requests /\ session'[session'[t].heir].state # "none"
               /\ session'[session'[t].heir].user = session'[t].user
               /\ t \in Requests => t < session'[t].heir
    <3>1. /\ session[t].state = "ended" /\ session[t].heir \in Requests
          /\ session[session[t].heir].state # "none"
          /\ session[session[t].heir].user = session[t].user
          /\ t \in Requests => t < session[t].heir
      BY <1>2, <2>3 DEF HeirsAreSound
    <3>2. session[t].heir \in SessionIds
      BY <3>1 DEF SessionIds
    <3>3. /\ session'[session[t].heir].state # "none"
          /\ session'[session[t].heir].user = session[session[t].heir].user
      BY <2>2, <3>1, <3>2 DEF Grow
    <3>4. QED
      BY <2>3, <3>1, <3>3
  <2>4. CASE t \in ToEnd(r) /\ Issues(r)
    <3>1. session'[t].heir = r /\ session'[t].state = "ended" /\ session'[t].user = UserOf(r)
      BY <1>2, <2>4, CommitSessions
    <3>2. session'[r] = NewSession(r)
      BY <1>2, <2>1, <2>4, CommitSessions
    <3>3. t \in Requests => t < r
      BY <1>2, <2>4, Replacing
    <3>4. QED
      BY <2>1, <3>1, <3>2, <3>3
  <2>5. CASE t = r /\ Issues(r)
    BY <1>2, <2>1, <2>5, CommitSessions
  <2>6. CASE ~Issues(r) \/ (t # r /\ t \notin ToEnd(r))
    <3>1. /\ session'[t].heir = session[t].heir
          /\ session'[t].user = session[t].user
          /\ session[t].state = "ended" => session'[t].state = "ended"
      BY <1>2, <2>6, CommitSessions
    <3>2. QED
      BY <2>3, <3>1
  <2>7. QED
    BY <2>4, <2>5, <2>6
<1>3. SessionsInv /\ HeirsAreSound /\ [Next]_vars => HeirsAreSound'
  <2> SUFFICES ASSUME SessionsInv, HeirsAreSound, [Next]_vars PROVE HeirsAreSound'
    OBVIOUS
  <2>1. ASSUME NEW r \in Requests, Commit(r) PROVE HeirsAreSound'
    BY <1>2, <2>1 DEF HeirsAreSound
  <2>2. ASSUME UNCHANGED tables PROVE HeirsAreSound'
    BY <2>2 DEF HeirsAreSound, tables
  <2>3. QED
    BY <2>1, <2>2, StepCases, TablesKept
<1>4. QED
  BY <1>1, <1>3, SessionsInvariant, PTL DEF Spec

-----------------------------------------------------------------------------
\* Whoever has left a record keeps what the record is about.
LEMMA RecordsKept ==
  ASSUME SessionsInv, NEW r \in Requests, Act(r), NEW e \in audit
  PROVE  e.by \in Requests /\ Same(e.by) /\ e.event \in AuditEvents(e.by)
<1>1. e.by \in Requests
  BY DEF SessionsInv, TypeOK, AuditType
<1>2. phase[e.by] \in Ended /\ e.event \in AuditEvents(e.by)
  BY <1>1 DEF SessionsInv, Request, Issued, Ended
<1>3. TypeOK
  BY DEF SessionsInv
<1>4. QED
  BY <1>1, <1>2, <1>3, EndedRest, OthersKeep

\* A session opened by a sign-in and its "login.success".
SignInsAgree ==
  \A r \in Requests :
    session[r].state # "none" /\ call[r].kind = "login" <=>
      \E u \in Users : [by |-> r, event |-> "login.success", user |-> u] \in audit

\* A used link and its "password_reset_completed".
ResetsAgree ==
  \A l \in LinkIds :
    link[l].state = "used" <=>
      \E e \in audit : e.event = "password_reset_completed" /\ call[e.by].target = l

\* Who has signed out is out.
LogoutsAgree ==
  \A e \in audit : e.event = "logout" => session[call[e.by].target].state = "ended"

\* A sign-in commits its session and its record, or neither.
LEMMA SignInsStep ==
  ASSUME SessionsInv, SignInsAgree, NEW r \in Requests, Act(r)
  PROVE  SignInsAgree'
<1> SUFFICES ASSUME NEW s \in Requests
    PROVE session'[s].state # "none" /\ call'[s].kind = "login" <=>
            \E u \in Users : [by |-> s, event |-> "login.success", user |-> u] \in audit'
  BY DEF SignInsAgree
<1>0. s \in SessionIds /\ TypeOK
  BY DEF SessionIds, SessionsInv
<1>1. CASE s = r /\ Commit(r)
  <2>1. UserOf(r) \in Users /\ call' = call /\ phase[r] = "commit"
        /\ audit' = audit \union {[by |-> r, event |-> e, user |-> UserOf(r)] : e \in AuditEvents(r)}
    BY <1>1, Committing
  <2>2. "login.success" \in AuditEvents(r) <=> call[r].kind = "login" /\ Issues(r)
    BY DEF AuditEvents, Issues
  <2>3. session'[r].state # "none" <=> Issues(r)
    <3>1. NewSession(r).state # "none"
      BY DEF NewSession
    <3>2. QED
      BY <1>0, <1>1, <2>1, <3>1, CommitSessions, NothingYet
  <2>4. (\E u \in Users : [by |-> r, event |-> "login.success", user |-> u] \in audit')
          <=> "login.success" \in AuditEvents(r)
    BY <1>1, <2>1, NothingYet
  <2>5. QED
    BY <1>1, <2>1, <2>2, <2>3, <2>4
<1>2. CASE s = r /\ ~Commit(r)
  <2>1. session' = session /\ audit' = audit
    BY <1>2, TablesKept DEF tables
  <2>2. phase[r] \notin {"done", "refused"}
    BY <1>0, EndedRest DEF Ended
  <2>3. session[r].state = "none" /\ \A e \in audit : e.by # r
    BY <2>2 DEF SessionsInv, Request, Issued
  <2>4. QED
    BY <1>2, <2>1, <2>3
<1>3. CASE s # r
  <2>1. call'[s] = call[s]
    BY <1>0, <1>3, OthersKeep DEF Same
  <2>2. (session'[s].state = "none") = (session[s].state = "none")
    <3>1. CASE Commit(r)
      <4>1. session[s].state # "none" => session'[s].state # "none"
        BY <1>0, <3>1, CommitGrows DEF Grow
      <4>2. session[s].state = "none" => session'[s].state = "none"
        BY <1>0, <1>3, <3>1, CommitSessions
      <4>3. QED
        BY <4>1, <4>2
    <3>2. CASE ~Commit(r)
      BY <3>2, TablesKept DEF tables
    <3>3. QED
      BY <3>1, <3>2
  <2>3. \A u \in Users : [by |-> s, event |-> "login.success", user |-> u] \in audit'
          <=> [by |-> s, event |-> "login.success", user |-> u] \in audit
    <3>1. CASE Commit(r)
      BY <1>3, <3>1, Committing
    <3>2. CASE ~Commit(r)
      BY <3>2, TablesKept DEF tables
    <3>3. QED
      BY <3>1, <3>2
  <2>4. QED
    BY <2>1, <2>2, <2>3 DEF SignInsAgree
<1>4. QED
  BY <1>1, <1>2, <1>3

\* A reset commits the use of its link and its record, or neither.
LEMMA ResetsStep ==
  ASSUME SessionsInv, ResetsAgree, NEW r \in Requests, Act(r)
  PROVE  ResetsAgree'
<1> SUFFICES ASSUME NEW l \in LinkIds
    PROVE link'[l].state = "used" <=>
            \E e \in audit' : e.event = "password_reset_completed" /\ call'[e.by].target = l
  BY DEF ResetsAgree
<1>1. link[l].state = "used" <=>
        \E e \in audit : e.event = "password_reset_completed" /\ call'[e.by].target = l
  BY RecordsKept DEF ResetsAgree, Same
<1>2. CASE Commit(r)
  <2>1. link'[l].state = "used" <=>
          link[l].state = "used" \/ (call[r].kind = "reset_password" /\ call[r].target = l)
    BY <1>2, CommitLinks
  <2>2. "password_reset_completed" \in AuditEvents(r) <=> call[r].kind = "reset_password"
    BY DEF AuditEvents
  <2>3. call' = call
        /\ audit' = audit \union {[by |-> r, event |-> e, user |-> UserOf(r)] : e \in AuditEvents(r)}
    BY <1>2, Committing
  <2>4. (\E e \in audit' : e.event = "password_reset_completed" /\ call'[e.by].target = l) <=>
          \/ \E e \in audit : e.event = "password_reset_completed" /\ call'[e.by].target = l
          \/ "password_reset_completed" \in AuditEvents(r) /\ call[r].target = l
    <3>1. ASSUME "password_reset_completed" \in AuditEvents(r), call[r].target = l
          PROVE  \E e \in audit' : e.event = "password_reset_completed" /\ call'[e.by].target = l
      <4> DEFINE d == [by |-> r, event |-> "password_reset_completed", user |-> UserOf(r)]
      <4>1. d \in audit'
        BY <2>3, <3>1
      <4>2. d.event = "password_reset_completed" /\ d.by = r
        OBVIOUS
      <4>3. QED
        BY <2>3, <3>1, <4>1, <4>2
    <3>2. ASSUME NEW e \in audit', e.event = "password_reset_completed", call'[e.by].target = l,
                 e \notin audit
          PROVE  "password_reset_completed" \in AuditEvents(r) /\ call[r].target = l
      BY <2>3, <3>2
    <3>3. audit \subseteq audit'
      BY <2>3
    <3>4. QED
      BY <3>1, <3>2, <3>3
  <2>5. QED
    BY <1>1, <2>1, <2>2, <2>4
<1>3. CASE ~Commit(r)
  <2>1. link' = link /\ audit' = audit
    BY <1>3, TablesKept DEF tables
  <2>2. QED
    BY <1>1, <2>1
<1>4. QED
  BY <1>2, <1>3

\* A sign-out is recorded together with the end of its session.
LEMMA LogoutsStep ==
  ASSUME SessionsInv, LogoutsAgree, NEW r \in Requests, Act(r)
  PROVE  LogoutsAgree'
<1> SUFFICES ASSUME NEW e \in audit', e.event = "logout"
    PROVE session'[call'[e.by].target].state = "ended"
  BY DEF LogoutsAgree
<1>1. CASE e \in audit
  <2>1. e.by \in Requests /\ call'[e.by] = call[e.by] /\ "logout" \in AuditEvents(e.by)
    BY <1>1, RecordsKept DEF Same
  <2>2. call[e.by].kind = "logout" /\ call[e.by] \in Calls
    BY <2>1 DEF AuditEvents, SessionsInv, TypeOK
  <2>3. call[e.by].target \in SessionIds
    BY <2>2, CallFacts
  <2>4. session[call[e.by].target].state = "ended"
    BY <1>1 DEF LogoutsAgree
  <2>5. Grow
    BY CommitGrows, OtherGrows, TablesKept
  <2>6. QED
    BY <2>1, <2>3, <2>4, <2>5 DEF Grow
<1>2. CASE e \notin audit
  <2>1. Commit(r)
    BY <1>2, TablesKept DEF tables
  <2>2. e.by = r /\ "logout" \in AuditEvents(r) /\ call' = call
    BY <1>2, <2>1, Committing
  <2>3. call[r].kind = "logout" /\ call[r] \in Calls
    BY <2>2 DEF AuditEvents, SessionsInv, TypeOK
  <2>4. call[r].target \in ToEnd(r) /\ call[r].target \in SessionIds
    BY <2>3, CallFacts DEF ToEnd, Reused
  <2>5. QED
    BY <2>1, <2>2, <2>4, CommitSessions
<1>3. QED
  BY <1>1, <1>2

\* The log and the tables agree about sign-ins, resets and sign-outs, in spite
\* of lost connections.
THEOREM LogCorrect == Spec => []LogAgrees
<1>1. LogAgrees <=> SignInsAgree /\ ResetsAgree /\ LogoutsAgree
  BY DEF LogAgrees, SignInsAgree, ResetsAgree, LogoutsAgree
<1>2. Init => LogAgrees
  <2> SUFFICES ASSUME Init PROVE LogAgrees
    OBVIOUS
  <2>1. audit = {}
    BY DEF Init
  <2>2. \A r \in Requests : session[r].state = "none"
    BY SessionsAssumption DEF Init, NoRow, SessionIds
  <2>3. \A l \in LinkIds : link[l].state # "used"
    BY DEF Init, NoLink
  <2>4. QED
    BY <2>1, <2>2, <2>3 DEF LogAgrees
<1>3. SessionsInv /\ LogAgrees /\ [Next]_vars => LogAgrees'
  <2> SUFFICES ASSUME SessionsInv, LogAgrees, [Next]_vars PROVE LogAgrees'
    OBVIOUS
  <2>1. ASSUME NEW r \in Requests, Act(r) PROVE LogAgrees'
    <3>1. SignInsAgree' /\ ResetsAgree' /\ LogoutsAgree'
      BY <1>1, <2>1, SignInsStep, ResetsStep, LogoutsStep
    <3>2. QED
      BY <3>1 DEF LogAgrees, SignInsAgree, ResetsAgree, LogoutsAgree
  <2>2. CASE UNCHANGED <<tables, locals>>
    BY <2>2 DEF LogAgrees, tables, locals
  <2>3. QED
    BY <2>1, <2>2, StepCases
<1>4. QED
  BY <1>2, <1>3, SessionsInvariant, PTL DEF Spec

-----------------------------------------------------------------------------
\* A commit is a step of the register: a sign-in, an exchange, or an ending.
LEMMA CommitIsRegisterStep ==
  ASSUME SessionsInv, NEW r \in Requests, Commit(r)
  PROVE  Register!Next
<1> DEFINE opened == {t \in SessionIds : session[t].state # "none"}
           open == {t \in SessionIds : session[t].state = "open"}
<1>1. r \in SessionIds /\ session[r].state = "none" /\ NewSession(r).state = "open"
  BY NothingYet, Committing DEF SessionIds, NewSession
<1>2. ToEnd(r) \subseteq opened
  BY InvHasTypes, ToEndType, CommitSessions
<1>3. CASE Issues(r) /\ call[r].kind = "login"
  <2>1. ToEnd(r) = {}
    BY <1>3 DEF ToEnd, Reused
  <2>2. session'[r].state = "open" /\ \A t \in SessionIds \ {r} : session'[t] = session[t]
    BY <1>1, <1>3, <2>1, CommitSessions
  <2>3. Register!SignIn(r)
    BY <1>1, <2>2 DEF Register!SignIn
  <2>4. QED
    BY <1>1, <2>3 DEF Register!Next
<1>4. CASE Issues(r) /\ call[r].kind # "login"
  <2>1. ToEnd(r) = {call[r].target}
    BY <1>4 DEF ToEnd, Issues, Reused
  <2>2. session'[r].state = "open" /\ session'[call[r].target].state = "ended" /\ call[r].target # r
        /\ \A t \in SessionIds \ {r, call[r].target} : session'[t] = session[t]
    BY <1>1, <1>2, <1>4, <2>1, CommitSessions
  <2>3. call[r].target \in opened
    BY <1>2, <2>1
  <2>4. Register!Rotate(call[r].target, r)
    BY <1>1, <2>2, <2>3 DEF Register!Rotate
  <2>5. QED
    BY <1>1, <2>3, <2>4 DEF Register!Next
<1>5. CASE ~Issues(r)
  <2>1. \A t \in SessionIds : IF t \in ToEnd(r) THEN session'[t].state = "ended"
                              ELSE session'[t] = session[t]
    BY <1>5, CommitSessions
  <2>2. Register!End(ToEnd(r))
    BY <1>2, <2>1 DEF Register!End
  <2>3. ToEnd(r) \in SUBSET SessionIds
    BY <1>2
  <2>4. \E ended \in SUBSET SessionIds : Register!End(ended)
    BY <2>2, <2>3 DEF Register!End
  <2>5. QED
    BY <2>4 DEF Register!Next
<1>6. QED
  BY <1>3, <1>4, <1>5

\* The service implements the register: every session is opened once, in place
\* of at most one other, and none that has ended is ever open again.
THEOREM ImplementsRegister == Spec => RegisterSpec
<1>1. Init => Register!Init
  <2> SUFFICES ASSUME Init PROVE Register!Init
    OBVIOUS
  <2>1. GivenOpen \subseteq Given /\ Given \subseteq SessionIds
    BY SessionsAssumption DEF SessionIds
  <2>2. \A t \in SessionIds : session[t].state = IF t \in GivenOpen THEN "open"
                              ELSE IF t \in Given THEN "ended" ELSE "none"
    BY <2>1 DEF Init, NoRow
  <2>3. QED
    BY <2>1, <2>2 DEF Register!Init
<1>2. SessionsInv /\ [Next]_vars => [Register!Next]_(Register!vars)
  <2> SUFFICES ASSUME SessionsInv, [Next]_vars PROVE [Register!Next]_(Register!vars)
    OBVIOUS
  <2>1. ASSUME NEW r \in Requests, Commit(r) PROVE Register!Next
    BY <2>1, CommitIsRegisterStep
  <2>2. ASSUME UNCHANGED tables PROVE UNCHANGED Register!vars
    BY <2>2 DEF tables, Register!vars
  <2>3. QED
    BY <2>1, <2>2, StepCases, TablesKept
<1>3. QED
  BY <1>1, <1>2, SessionsInvariant, PTL DEF Spec, RegisterSpec, Register!Spec

-----------------------------------------------------------------------------
\* The order in which a request takes its locks: the row of the link, that of
\* users, those of sessions in the order of their keys.
InOrder(r) ==
  /\ phase[r] \in {"new", "account", "lock_link"} => holds[r] = {}
  /\ phase[r] = "lock_account" => \A x \in holds[r] : x[1] = "links"
  /\ phase[r] = "list" => \A x \in holds[r] : x[1] # "sessions"
  /\ phase[r] = "lock_sessions" =>
       \A t \in SessionIds, u \in Unlocked(r) :
         Row("sessions", t) \in holds[r] => KeyOrder[t] < KeyOrder[u]

LocksInOrder == \A r \in Requests : InOrder(r)

\* What the order says of a request is about that request alone.
LEMMA InOrderSame ==
  ASSUME NEW s \in Requests, InOrder(s), Same(s), holds'[s] = holds[s]
  PROVE  InOrder(s)'
BY DEF InOrder, Same, Unlocked, ToEnd, Reused

\* A request's step leaves the locks of others alone.
LEMMA OthersHold ==
  ASSUME TypeOK, NEW r \in Requests, Act(r), NEW s \in Requests, s # r
  PROVE  holds'[s] = holds[s]
BY DEF TypeOK, Act, FirstStatement, Statement, RefuseToken, FetchSession, FetchLink, FetchUser,
       BeginUpdate, UnknownUser,
       ReadAccount, FetchOwner, LockLink, LockAccount, Conflict, ListOpen, LockSession, Commit, Lose, Lock

\* Rows of different tables are different, and so are those of different ids.
LEMMA RowFacts ==
  /\ \A table, id : Row(table, id)[1] = table
  /\ \A table, a, b : Row(table, a) = Row(table, b) => a = b
BY DEF Row

\* A request takes its next lock in the order.
LEMMA InOrderStep ==
  ASSUME SessionsInv, NEW r \in Requests, InOrder(r), Act(r)
  PROVE  InOrder(r)'
<1> USE DEF Goto
<1>t. TypeOK /\ TypeOK'
  BY ActStep DEF SessionsInv
<1>1. ASSUME NEW c \in Calls, FirstStatement(r, c) PROVE InOrder(r)'
  <2>1. phase[r] = "new" /\ holds' = holds
    BY <1>1 DEF FirstStatement, RefuseToken, FetchSession, FetchLink, FetchUser,
       BeginUpdate, UnknownUser, ReadAccount, Begin
  <2>2. holds'[r] = {}
    BY <2>1 DEF InOrder
  <2>3. QED
    BY <2>2 DEF InOrder
<1>2. ASSUME FetchOwner(r) PROVE InOrder(r)'
  <2>1. holds'[r] = {}
    BY <1>2 DEF FetchOwner, ReadAccount, InOrder
  <2>2. QED
    BY <2>1 DEF InOrder
<1>3. ASSUME LockLink(r) PROVE InOrder(r)'
  <2>1. /\ phase[r] = "lock_link" /\ phase'[r] = "lock_account"
        /\ holds'[r] = {Row("links", call[r].target)}
    BY <1>3, <1>t DEF LockLink, Lock, InOrder, TypeOK
  <2>2. QED
    BY <2>1, RowFacts DEF InOrder
<1>4. ASSUME LockAccount(r) PROVE InOrder(r)'
  <2>1. /\ phase[r] = "lock_account" /\ phase'[r] \in {"list", "commit"}
        /\ holds'[r] = holds[r] \union {Row("users", UserOf(r))}
    BY <1>4, <1>t DEF LockAccount, Lock, TypeOK
  <2>2. \A x \in holds[r] : x[1] # "sessions"
    BY <2>1 DEF InOrder
  <2>3. Row("users", UserOf(r))[1] # "sessions"
    BY RowFacts
  <2>4. QED
    BY <2>1, <2>2, <2>3 DEF InOrder
<1>5. ASSUME ListOpen(r) PROVE InOrder(r)'
  <2>1. /\ phase[r] = "list" /\ holds'[r] = holds[r]
        /\ phase'[r] \in {"lock_sessions", "commit", "refused"}
    BY <1>5, <1>t DEF ListOpen, TypeOK
  <2>2. \A t \in SessionIds : Row("sessions", t) \notin holds'[r]
    BY <2>1, RowFacts DEF InOrder
  <2>3. QED
    BY <2>1, <2>2 DEF InOrder
<1>6. ASSUME LockSession(r) PROVE InOrder(r)'
  <2>1. PICK t \in Unlocked(r) :
          NextToLock(r, t) /\ Lock(r, Row("sessions", t))
          /\ phase' = [phase EXCEPT ![r] = IF Unlocked(r) = {t} THEN "commit" ELSE "lock_sessions"]
    BY <1>6 DEF LockSession
  <2>2. /\ phase[r] = "lock_sessions" /\ UNCHANGED <<call, found, listed>>
        /\ phase'[r] \in {"lock_sessions", "commit"}
        /\ holds'[r] = holds[r] \union {Row("sessions", t)}
    BY <1>6, <1>t, <2>1 DEF LockSession, Lock, TypeOK
  <2>3. Unlocked(r) \subseteq SessionIds
    BY InvHasTypes, ToEndType DEF Unlocked
  <2>4. Unlocked(r)' = Unlocked(r) \ {t}
    BY <2>2, RowFacts DEF Unlocked, ToEnd, Reused
  <2>5. ASSUME NEW v \in SessionIds, NEW u \in Unlocked(r)', Row("sessions", v) \in holds'[r]
        PROVE  KeyOrder[v] < KeyOrder[u]
    <3>1. CASE v = t
      <4>1. KeyOrder[t] <= KeyOrder[u] /\ KeyOrder[t] # KeyOrder[u]
        BY <2>1, <2>3, <2>4, SessionsAssumption DEF NextToLock
      <4>2. KeyOrder[t] \in Nat /\ KeyOrder[u] \in Nat
        BY <2>3, <2>4, SessionsAssumption
      <4>3. QED
        BY <3>1, <4>1, <4>2
    <3>2. CASE v # t
      BY <2>2, <2>4, <2>5, <3>2, RowFacts DEF InOrder
    <3>3. QED
      BY <3>1, <3>2
  <2>6. QED
    BY <2>2, <2>5 DEF InOrder
<1>7. ASSUME Commit(r) \/ Lose(r) PROVE InOrder(r)'
  <2>1. holds'[r] = {} /\ phase'[r] \in Ended
    BY <1>7, <1>t DEF Commit, Lose, TypeOK, Ended
  <2>2. QED
    BY <2>1 DEF InOrder, Ended
<1>8. ASSUME Conflict(r) PROVE InOrder(r)'
  BY <1>8, <1>t DEF Conflict, TypeOK, InOrder
<1>9. QED
  BY <1>1, <1>2, <1>3, <1>4, <1>5, <1>6, <1>7, <1>8 DEF Act, Statement

\* Locks are always taken in the order.
LEMMA LocksInOrderInvariant == Spec => [](SessionsInv /\ LocksInOrder)
<1>1. Init => LocksInOrder
  BY DEF Init, LocksInOrder, InOrder
<1>2. SessionsInv /\ LocksInOrder /\ [Next]_vars => LocksInOrder'
  <2> SUFFICES ASSUME SessionsInv, LocksInOrder, [Next]_vars, NEW s \in Requests PROVE InOrder(s)'
    BY DEF LocksInOrder
  <2>1. InOrder(s) /\ TypeOK
    BY DEF LocksInOrder, SessionsInv
  <2>2. ASSUME NEW r \in Requests, Act(r) PROVE InOrder(s)'
    BY <2>1, <2>2, InOrderStep, InOrderSame, OthersKeep, OthersHold
  <2>3. CASE UNCHANGED locals
    BY <2>1, <2>3, InOrderSame DEF locals, Same
  <2>4. QED
    BY <2>2, <2>3 DEF Next, Act, Tick, Rest, vars
<1>3. QED
  BY <1>1, <1>2, SessionsInvariant, InvStep, PTL DEF Spec

\* How far along the order the lock is that a request needs.
Rank(r) ==
  CASE phase[r] = "lock_link" -> 0
    [] phase[r] = "lock_account" -> 1
    [] OTHER -> 2 + KeyOrder[CHOOSE t \in Unlocked(r) : NextToLock(r, t)]

\* What a request needs, given that it waits.
LEMMA WaiterNeeds ==
  ASSUME SessionsInv, NEW r \in Requests, NEW s \in Requests, WaitsFor(r, s)
  PROVE  /\ Rank(r) \in Nat
         /\ \/ phase[r] = "lock_account" /\ Row("users", UserOf(r)) \in holds[s]
            \/ phase[r] = "lock_link" /\ Row("links", call[r].target) \in holds[s]
            \/ /\ phase[r] = "lock_sessions"
               /\ \E t \in Unlocked(r) : /\ t \in SessionIds /\ Rank(r) = 2 + KeyOrder[t]
                                        /\ Row("sessions", t) \in holds[s]
<1>1. CASE phase[r] = "lock_account"
  BY <1>1 DEF WaitsFor, Needs, Rank
<1>2. CASE phase[r] = "lock_link"
  BY <1>2 DEF WaitsFor, Needs, Rank
<1>3. CASE phase[r] = "lock_sessions"
  <2> DEFINE next == CHOOSE t \in Unlocked(r) : NextToLock(r, t)
  <2>1. Needs(r) = {Row("sessions", t) : t \in {t \in Unlocked(r) : NextToLock(r, t)}}
    BY <1>3 DEF Needs
  <2>2. \E t \in Unlocked(r) : NextToLock(r, t)
    BY <2>1 DEF WaitsFor
  <2>3. next \in Unlocked(r) /\ NextToLock(r, next)
    BY <2>2
  <2>4. Row("sessions", next) \in holds[s]
    BY <2>1, <2>3 DEF WaitsFor
  <2>5. next \in SessionIds /\ KeyOrder[next] \in Nat
    BY <2>3, InvHasTypes, ToEndType, SessionsAssumption DEF Unlocked
  <2>6. Rank(r) = 2 + KeyOrder[next]
    BY <1>3 DEF Rank
  <2> HIDE DEF next
  <2>7. QED
    BY <1>3, <2>3, <2>4, <2>5, <2>6
<1>4. phase[r] \in {"lock_account", "lock_link", "lock_sessions"}
  BY DEF WaitsFor, Needs
<1>5. QED
  BY <1>1, <1>2, <1>3, <1>4

\* A request that waits for a waiting one needs an earlier lock.
LEMMA ChainAscends ==
  ASSUME SessionsInv, LocksInOrder, NEW r \in Requests, NEW s \in Requests, NEW t \in Requests,
         WaitsFor(r, s), WaitsFor(s, t)
  PROVE  Rank(r) < Rank(s)
<1>1. InOrder(s)
  BY DEF LocksInOrder
<1>2. CASE phase[s] = "lock_link"
  BY <1>1, <1>2, WaiterNeeds DEF InOrder
<1>3. CASE phase[s] = "lock_account"
  <2>1. phase[r] = "lock_link"
    BY <1>1, <1>3, WaiterNeeds, RowFacts DEF InOrder
  <2>2. QED
    BY <1>3, <2>1 DEF Rank
<1>4. CASE phase[s] = "lock_sessions"
  <2>1. PICK u \in Unlocked(s) : u \in SessionIds /\ Rank(s) = 2 + KeyOrder[u]
    BY <1>4, WaiterNeeds
  <2>2. KeyOrder[u] \in Nat
    BY <2>1, SessionsAssumption
  <2>3. CASE phase[r] \in {"lock_account", "lock_link"}
    BY <2>1, <2>2, <2>3 DEF Rank
  <2>4. CASE phase[r] = "lock_sessions"
    <3>1. PICK v \in Unlocked(r) : v \in SessionIds /\ Rank(r) = 2 + KeyOrder[v]
                                   /\ Row("sessions", v) \in holds[s]
      BY <2>4, WaiterNeeds
    <3>2. KeyOrder[v] < KeyOrder[u] /\ KeyOrder[v] \in Nat
      BY <1>1, <1>4, <2>1, <3>1, SessionsAssumption DEF InOrder
    <3>3. QED
      BY <2>1, <2>2, <3>1, <3>2
  <2>5. QED
    BY <2>3, <2>4, WaiterNeeds
<1>5. QED
  BY <1>2, <1>3, <1>4, WaiterNeeds

\* Requests never wait for each other in a circle, however many sessions each
\* of them ends and in whatever order it has listed them.
THEOREM DeadlockFree == Spec => []NoLockCycle
<1>1. SessionsInv /\ LocksInOrder => NoLockCycle
  <2> SUFFICES ASSUME SessionsInv, LocksInOrder, NEW S \in (SUBSET Requests) \ {{}},
                      \A r \in S : \E s \in S : WaitsFor(r, s)
               PROVE  FALSE
    BY DEF NoLockCycle
  <2> DEFINE T == {Rank(r) : r \in S}
  <2>1. T \subseteq Nat /\ T # {}
    BY WaiterNeeds
  <2>2. IsFiniteSet(T)
    <3>1. IsFiniteSet(S)
      BY FS_Subset, SessionsAssumption
    <3> DEFINE f == [q \in S |-> Rank(q)]
    <3>2. f \in Surjection(S, T)
      BY DEF Surjection
    <3> HIDE DEF f, T
    <3>3. QED
      BY <3>1, <3>2, FS_Surjection
  <2>3. PICK m \in T : \A n \in T : n <= m
    <3> HIDE DEF T
    <3>1. QED
      BY <2>1, <2>2, Greatest
  <2>4. PICK r \in S : Rank(r) = m
    OBVIOUS
  <2>5. PICK s \in S : WaitsFor(r, s)
    OBVIOUS
  <2>6. PICK t \in S : WaitsFor(s, t)
    OBVIOUS
  <2>7. Rank(r) < Rank(s) /\ Rank(s) \in T
    BY <2>5, <2>6, ChainAscends
  <2>8. m \in Nat /\ Rank(s) \in Nat /\ Rank(s) <= m
    BY <2>1, <2>3, <2>7
  <2>9. QED
    BY <2>4, <2>7, <2>8
<1>2. QED
  BY <1>1, LocksInOrderInvariant, PTL
=============================================================================
