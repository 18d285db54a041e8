------------------------------- MODULE Sessions -------------------------------
(***************************************************************************)
(* The authentication service: sign-in with its failed-attempt counter and *)
(* lock, refresh with rotation, sign-out, the ending of one session, the   *)
(* two ways to a new password, and an account's disabling and enabling.    *)
(*                                                                         *)
(* A request is one READ COMMITTED transaction.  Its statements interleave *)
(* with those of others: a SELECT sees what is committed, an UPDATE waits  *)
(* for the lock of its row and then sets columns to values worked out from *)
(* what was read before.  Nobody sees the writes of an open transaction,   *)
(* so they are applied to the tables at its commit; until then the request *)
(* keeps what it read, and its locks.                                      *)
(* A definition marked "(variant)" is the one below it with a plausible    *)
(* mistake.                                                                *)
(***************************************************************************)
EXTENDS Integers, FiniteSets

CONSTANTS
  Requests,      \* numbers, in the order in which the requests begin
  Users,         \* existing users
  NoUser,        \* an e-mail address that nobody has
  Passwords,
  FirstPassword, \* every user's first password
  Given,         \* the sessions at the beginning
  GivenOpen,     \* those of them that have not ended
  GivenLinks,    \* the password reset links at the beginning
  Owner,         \* [Given \union GivenLinks -> Users]
  KeyOrder,      \* [Given \union Requests -> Nat]: the order of the primary keys
  NoSession,     \* no session
  Calls,         \* the calls clients may make
  MaxAttempts,   \* max_failed_login_attempts
  Lockout,       \* account_lockout_minutes
  Life,          \* how long a session lives
  LinkLife,      \* how long a link lives
  Horizon        \* the clock stops here (bound)

SessionIds == Given \union Requests     \* a request issues at most one session
LinkIds == GivenLinks \union Requests   \* and at most one link

Kinds == {"login", "logout", "refresh", "revoke_session", "forgot_password",
          "reset_password", "change_password", "admin_reset_password", "disable",
          "activate", "deactivate"}

\* PUT /users/{id} with "is_active": TRUE or FALSE.
Updates == {"activate", "deactivate"}

\* "target" is a session or a link, "new" the password that is to be set.
CallType == [kind : Kinds, user : Users \union {NoUser},
             target : SessionIds \union LinkIds, password : Passwords, new : Passwords]

ASSUME SessionsAssumption ==
  /\ Requests \subseteq Nat /\ IsFiniteSet(Requests)
  /\ NoUser \notin Users
  /\ GivenOpen \subseteq Given
  /\ FirstPassword \in Passwords
  /\ Requests \cap Given = {} /\ Requests \cap GivenLinks = {}
  /\ Owner \in [Given \union GivenLinks -> Users]
  /\ KeyOrder \in [SessionIds -> Nat]
  /\ \A s, t \in SessionIds : KeyOrder[s] = KeyOrder[t] => s = t
  /\ NoSession \notin SessionIds
  /\ Calls \subseteq CallType /\ Calls # {}
  /\ \A c \in Calls : IF c.kind = "reset_password" THEN c.target \in LinkIds
                     ELSE c.target \in SessionIds
  /\ MaxAttempts \in Nat \ {0}
  /\ Lockout \in Nat \ {0}
  /\ Life \in Nat
  /\ LinkLife \in Nat
  /\ Horizon \in Nat

VARIABLES
  account,   \* users: the columns that authentication reads and writes
  session,   \* refresh_tokens: one row per session
  link,      \* password_reset_tokens
  audit,     \* audit_logs: by whom, what, and for which user
  now,       \* the clock
  call,      \* the call of each request
  phase,     \* what the request does next, or how it ended
  saw,       \* the row of users as the request read it
  found,     \* the row of its session or link as the request read it
  listed,    \* the open sessions a request has listed
  stamp,     \* when it read the row of users
  holds,     \* the rows it has locked
  before     \* the requests that had committed when it began (history)

tables == <<account, session, link, audit>>
locals == <<call, phase, saw, found, listed, stamp, holds, before>>
vars == <<tables, now, locals>>

AccountType == [failed : Nat, locked_until : Nat, password : Passwords, active : BOOLEAN]

SessionType == [state : {"none", "open", "ended"}, user : Users \union {NoUser},
                expires : Nat, heir : SessionIds \union {NoSession}]

LinkType == [state : {"none", "fresh", "used"}, user : Users \union {NoUser}, expires : Nat]

Row(table, id) == <<table, id>>
Rows == {"users", "sessions", "links"} \X (Users \union SessionIds \union LinkIds)

Events == {"login.failed", "login.success", "logout", "refresh_token_reuse_detected",
           "password_reset_requested", "password_reset_completed", "password_changed"}

AuditType == [by : Requests, event : Events, user : Users]

Open == {"account", "lock_account", "lock_link", "list", "lock_sessions", "commit"}
Ended == {"done", "refused", "lost"}

Goto(r, p) == phase' = [phase EXCEPT ![r] = p]

\* No other transaction holds the lock of the row.
Free(r, row) == \A s \in Requests \ {r} : row \notin holds[s]

Lock(r, row) == holds' = [holds EXCEPT ![r] = @ \union {row}]

\* The user a request is about: named by the call, or by the row of its token.
UserOf(r) ==
  IF call[r].kind \in {"logout", "refresh", "reset_password"} THEN found[r].user
  ELSE call[r].user

IsLocked(a) == a.locked_until > now

\* The password of a sign-in, or the current one of a change, is not accepted.
Wrong(c, a) == ~a.active \/ c.password # a.password

\* The refresh token was already exchanged, or its session ended otherwise.
Reused(r) == call[r].kind = "refresh" /\ found[r].state = "ended"

\* (variant) A token that is used again ends its own session only.
ToEndOwn(r) ==
  CASE call[r].kind = "reset_password" -> listed[r]
    [] call[r].kind \in {"logout", "refresh", "revoke_session"} -> {call[r].target}
    [] OTHER -> {}

\* The sessions the request ends.
ToEnd(r) ==
  CASE Reused(r) \/ call[r].kind = "reset_password" -> listed[r]
    [] ~Reused(r) /\ call[r].kind \in {"logout", "refresh", "revoke_session"} -> {call[r].target}
    [] OTHER -> {}

NewAccount == [failed |-> 0, locked_until |-> 0,
               password |-> FirstPassword, active |-> TRUE]
NoRow == [state |-> "none", user |-> NoUser, expires |-> 0, heir |-> NoSession]
NoLink == [state |-> "none", user |-> NoUser, expires |-> 0]
NoCall == CHOOSE c \in Calls : TRUE   \* stands where no call matters

Init ==
  /\ account = [u \in Users |-> NewAccount]
  /\ session = [t \in SessionIds |->
                 IF t \in Given
                 THEN [state |-> IF t \in GivenOpen THEN "open" ELSE "ended",
                       user |-> Owner[t], expires |-> Life, heir |-> NoSession]
                 ELSE NoRow]
  /\ link = [l \in LinkIds |->
              IF l \in GivenLinks THEN [state |-> "fresh", user |-> Owner[l], expires |-> LinkLife]
              ELSE NoLink]
  /\ audit = {}
  /\ now = 0
  /\ call = [r \in Requests |-> NoCall]
  /\ phase = [r \in Requests |-> "new"]
  /\ saw = [r \in Requests |-> NewAccount]
  /\ found = [r \in Requests |-> NoRow]
  /\ listed = [r \in Requests |-> {}]
  /\ stamp = [r \in Requests |-> 0]
  /\ holds = [r \in Requests |-> {}]
  /\ before = [r \in Requests |-> {}]
-----------------------------------------------------------------------------
\* A client presents a token that it has been given, or (its own number) one
\* that never was issued.
Presentable(r, c) ==
  c.target \in Requests \ {r} =>
    IF c.kind = "reset_password" THEN link[c.target].state # "none"
    ELSE session[c.target].state # "none"

\* A request begins with its first statement.
Begin(r, c) ==
  /\ phase[r] = "new"
  /\ \A s \in Requests : s < r => phase[s] # "new"
  /\ Presentable(r, c)
  /\ call' = [call EXCEPT ![r] = c]
  /\ before' = [before EXCEPT ![r] = {s \in Requests : phase[s] \in {"done", "refused"}}]

\* What follows the SELECT of a session, given its row.
AfterSession(c, row) ==
  CASE c.kind = "logout" -> IF row.state = "open" THEN "lock_sessions" ELSE "done"
    [] c.kind = "refresh" /\ row.state = "ended" -> "list"
    [] c.kind = "refresh" /\ row.state = "open" /\ row.expires >= now -> "account"
    [] OTHER -> "refused"

\* A token to be exchanged is decoded before it is looked up: it must have been
\* issued, and carries the time at which it expires.
Decodes(row) == row.state # "none" /\ row.expires > now

\* A token that cannot be decoded is refused, and its session is not looked at.
RefuseToken(r, c) ==
  /\ Begin(r, c)
  /\ c.kind = "refresh" /\ ~Decodes(session[c.target])
  /\ Goto(r, "refused")
  /\ UNCHANGED <<tables, now, saw, found, listed, stamp, holds>>

\* SELECT .. FROM refresh_tokens WHERE token_hash = ..
FetchSession(r, c) ==
  /\ Begin(r, c)
  /\ c.kind = "logout" \/ (c.kind = "refresh" /\ Decodes(session[c.target]))
  /\ found' = [found EXCEPT ![r] = session[c.target]]
  /\ Goto(r, AfterSession(c, session[c.target]))
  /\ UNCHANGED <<tables, now, saw, listed, stamp, holds>>

\* A reset link that is there, is not used and has not expired.
Usable(row) == row.state = "fresh" /\ row.expires >= now

\* SELECT .. FROM password_reset_tokens WHERE token_hash = ..
FetchLink(r, c) ==
  /\ Begin(r, c)
  /\ c.kind = "reset_password"
  /\ found' = [found EXCEPT ![r] = link[c.target]]
  /\ Goto(r, IF Usable(link[c.target]) THEN "account" ELSE "refused")
  /\ UNCHANGED <<tables, now, saw, listed, stamp, holds>>

\* (variant) A wrong password is refused at once, and rolled back with the request.
AfterAccountRolledBack(c, a) ==
  CASE c.kind = "login" -> IF IsLocked(a) \/ Wrong(c, a) THEN "refused" ELSE "lock_account"
    [] c.kind = "forgot_password" -> "commit"
    [] c.kind = "refresh" -> IF a.active THEN "lock_sessions" ELSE "refused"
    [] c.kind = "revoke_session" -> IF a.active THEN "list" ELSE "refused"
    [] c.kind = "change_password" -> IF Wrong(c, a) THEN "refused" ELSE "lock_account"
    [] c.kind = "reset_password" -> "lock_link"
    [] OTHER -> "lock_account"

\* (variant) An exchange does not ask whether the user is still active.
AfterAccountUnasked(c, a) ==
  CASE c.kind = "login" -> IF IsLocked(a) THEN "refused" ELSE "lock_account"
    [] c.kind = "forgot_password" -> "commit"
    [] c.kind = "refresh" -> "lock_sessions"
    [] c.kind = "revoke_session" -> IF a.active THEN "list" ELSE "refused"
    [] c.kind = "change_password" -> IF Wrong(c, a) THEN "refused" ELSE "lock_account"
    [] c.kind = "reset_password" -> "lock_link"
    [] OTHER -> "lock_account"

\* What follows the SELECT of the user, given its row.
AfterAccount(c, a) ==
  CASE c.kind = "login" -> IF IsLocked(a) THEN "refused" ELSE "lock_account"
    [] c.kind = "forgot_password" -> "commit"
    [] c.kind = "refresh" -> IF a.active THEN "lock_sessions" ELSE "refused"
    [] c.kind = "revoke_session" -> IF a.active THEN "list" ELSE "refused"
    [] c.kind = "change_password" -> IF Wrong(c, a) THEN "refused" ELSE "lock_account"
    [] c.kind = "reset_password" -> "lock_link"
    [] OTHER -> "lock_account"

ReadAccount(r, c, u) ==
  /\ saw' = [saw EXCEPT ![r] = account[u]]
  /\ stamp' = [stamp EXCEPT ![r] = now]
  /\ Goto(r, AfterAccount(c, account[u]))
  /\ UNCHANGED <<tables, now, listed, holds>>

\* SELECT .. FROM users: the user a call names.
FetchUser(r, c) ==
  /\ Begin(r, c)
  /\ c.kind \notin {"logout", "refresh", "reset_password"} \union Updates
  /\ c.user \in Users
  /\ ReadAccount(r, c, c.user)
  /\ UNCHANGED found

\* An update begins with its UPDATE, having read nothing.
BeginUpdate(r, c) ==
  /\ Begin(r, c)
  /\ c.kind \in Updates
  /\ c.user \in Users
  /\ Goto(r, "lock_account")
  /\ UNCHANGED <<tables, now, saw, found, listed, stamp, holds>>

\* An unknown address fails a sign-in, and is no news to who has forgotten a
\* password; no unknown user is updated.
UnknownUser(r, c) ==
  /\ Begin(r, c)
  /\ c.kind \notin {"logout", "refresh", "reset_password"}
  /\ c.user = NoUser
  /\ Goto(r, IF c.kind = "forgot_password" THEN "done" ELSE "refused")
  /\ UNCHANGED <<tables, now, saw, found, listed, stamp, holds>>

\* SELECT .. FROM users: the user of the session or link.
FetchOwner(r) ==
  /\ phase[r] = "account"
  /\ ReadAccount(r, call[r], found[r].user)
  /\ UNCHANGED <<call, found, before>>

\* UPDATE password_reset_tokens SET used_at = .. WHERE id = ..  A flush updates
\* the tables in the order of their models' modules: links before users.
LockLink(r) ==
  /\ phase[r] = "lock_link"
  /\ Free(r, Row("links", call[r].target))
  /\ Lock(r, Row("links", call[r].target))
  /\ Goto(r, "lock_account")
  /\ UNCHANGED <<tables, now, call, saw, found, listed, stamp, before>>

\* UPDATE users .. WHERE id = ..
LockAccount(r) ==
  /\ phase[r] = "lock_account"
  /\ Free(r, Row("users", UserOf(r)))
  /\ Lock(r, Row("users", UserOf(r)))
  /\ Goto(r, IF call[r].kind = "reset_password" THEN "list" ELSE "commit")
  /\ UNCHANGED <<tables, now, call, saw, found, listed, stamp, before>>

\* An update WHERE version = .. finds another version than the one that the
\* client has sent, which may be any.
Conflict(r) ==
  /\ phase[r] = "lock_account"
  /\ call[r].kind \in Updates
  /\ Goto(r, "refused")
  /\ UNCHANGED <<tables, now, call, saw, found, listed, stamp, holds, before>>

\* The open sessions of the request's user.
OpenSessions(r) ==
  {t \in SessionIds : session[t].state = "open" /\ session[t].user = UserOf(r)}

\* SELECT .. FROM refresh_tokens WHERE user_id = .. AND revoked_at IS NULL
ListOpen(r) ==
  /\ phase[r] = "list"
  /\ listed' = [listed EXCEPT ![r] = OpenSessions(r)]
  /\ Goto(r, IF call[r].kind = "revoke_session"
             THEN IF call[r].target \in OpenSessions(r) THEN "lock_sessions" ELSE "refused"
             ELSE IF OpenSessions(r) = {} THEN "commit" ELSE "lock_sessions")
  /\ UNCHANGED <<tables, now, call, saw, found, stamp, holds, before>>

\* The sessions whose rows the request has still to lock.
Unlocked(r) == {t \in ToEnd(r) : Row("sessions", t) \notin holds[r]}

\* (variant) The rows are updated in the order in which they were listed.
NextToLockAsListed(r, t) == TRUE

\* A flush updates the rows of a table in the order of their primary keys.
NextToLock(r, t) == \A s \in Unlocked(r) : KeyOrder[t] <= KeyOrder[s]

\* UPDATE refresh_tokens SET revoked_at = .. WHERE id = ..
LockSession(r) ==
  /\ phase[r] = "lock_sessions"
  /\ \E t \in Unlocked(r) :
       /\ NextToLock(r, t)
       /\ Free(r, Row("sessions", t))
       /\ Lock(r, Row("sessions", t))
       /\ Goto(r, IF Unlocked(r) = {t} THEN "commit" ELSE "lock_sessions")
  /\ UNCHANGED <<tables, now, call, saw, found, listed, stamp, before>>
-----------------------------------------------------------------------------
\* What the commit of a request does to the tables.

\* (variant) An attempt counts twice.
FailedTwice(r) == saw[r].failed + 2

\* The value of failed_login_attempts that the UPDATE carries.
FailedOnce(r) == saw[r].failed + 1

LockedUntil(r) == stamp[r] + Lockout

\* record_failed_login
AfterFailure(r, a) ==
  [a EXCEPT !.failed = FailedOnce(r),
            !.locked_until = IF FailedOnce(r) >= MaxAttempts THEN LockedUntil(r) ELSE @]

\* record_successful_login writes the columns that differ from what was read.
AfterSuccess(r, a) ==
  [a EXCEPT !.failed = IF saw[r].failed = 0 THEN @ ELSE 0,
            !.locked_until = IF saw[r].locked_until = 0 THEN @ ELSE 0]

\* What the UPDATE of a request makes of a user's row.  Disabling writes
\* is_active only where it has read TRUE.
NewAccountRow(r, a) ==
  LET kind == call[r].kind
  IN  CASE kind = "login" -> IF Wrong(call[r], saw[r]) THEN AfterFailure(r, a) ELSE AfterSuccess(r, a)
        [] kind \in {"reset_password", "change_password", "admin_reset_password"} ->
             [a EXCEPT !.password = call[r].new]
        [] kind = "disable" -> [a EXCEPT !.active = @ /\ ~saw[r].active]
        [] kind \in Updates -> [a EXCEPT !.active = (kind = "activate")]
        [] OTHER -> a

\* The request is a sign-in with the right password, or a refresh.
Issues(r) ==
  \/ call[r].kind = "login" /\ ~Wrong(call[r], saw[r])
  \/ call[r].kind = "refresh" /\ ~Reused(r)

NewSession(r) == [state |-> "open", user |-> UserOf(r), expires |-> stamp[r] + Life,
                  heir |-> NoSession]

\* (variant) The session that was exchanged stays open.
EndedByHeirless(r, row) ==
  IF call[r].kind = "refresh" /\ ~Reused(r) THEN [row EXCEPT !.heir = r]
  ELSE [row EXCEPT !.state = "ended"]

EndedBy(r, row) ==
  [row EXCEPT !.state = "ended", !.heir = IF Issues(r) THEN r ELSE @]

\* (variant) A refresh opens its session under the row of the old one.
NewSessionsInPlace(r) ==
  [t \in SessionIds |->
     IF Issues(r) /\ t = (IF call[r].kind = "refresh" THEN call[r].target ELSE r)
     THEN NewSession(r)
     ELSE IF t \in ToEnd(r) THEN EndedBy(r, session[t])
     ELSE session[t]]

NewSessions(r) ==
  [t \in SessionIds |->
     IF t = r /\ Issues(r) THEN NewSession(r)
     ELSE IF t \in ToEnd(r) THEN EndedBy(r, session[t])
     ELSE session[t]]

NewLinks(r) ==
  [l \in LinkIds |->
     IF l = r /\ call[r].kind = "forgot_password"
     THEN [state |-> "fresh", user |-> UserOf(r), expires |-> stamp[r] + LinkLife]
     ELSE IF l = call[r].target /\ call[r].kind = "reset_password"
     THEN [link[l] EXCEPT !.state = "used"]
     ELSE link[l]]

\* (variant) A reset is logged as the change of password that it makes.
AuditEventsOfChange(r) ==
  LET kind == call[r].kind
  IN  CASE kind = "login" -> {IF Wrong(call[r], saw[r]) THEN "login.failed" ELSE "login.success"}
        [] kind = "logout" -> {"logout"}
        [] kind = "refresh" -> IF Reused(r) THEN {"refresh_token_reuse_detected"} ELSE {}
        [] kind = "forgot_password" -> {"password_reset_requested"}
        [] kind \in {"reset_password", "change_password"} -> {"password_changed"}
        [] OTHER -> {}

\* What the request says of itself in the audit log.
AuditEvents(r) ==
  LET kind == call[r].kind
  IN  CASE kind = "login" -> {IF Wrong(call[r], saw[r]) THEN "login.failed" ELSE "login.success"}
        [] kind = "logout" -> {"logout"}
        [] kind = "refresh" -> IF Reused(r) THEN {"refresh_token_reuse_detected"} ELSE {}
        [] kind = "forgot_password" -> {"password_reset_requested"}
        [] kind = "reset_password" -> {"password_reset_completed"}
        [] kind = "change_password" -> {"password_changed"}
        [] OTHER -> {}

\* A wrong password and a reused token commit what they have to record and are
\* then refused.
RefusedAfterCommit(r) ==
  Reused(r) \/ (call[r].kind = "login" /\ Wrong(call[r], saw[r]))

Commit(r) ==
  /\ phase[r] = "commit"
  /\ account' = [u \in Users |-> IF u = UserOf(r) THEN NewAccountRow(r, account[u])
                                 ELSE account[u]]
  /\ session' = NewSessions(r)
  /\ link' = NewLinks(r)
  /\ audit' = audit \union {[by |-> r, event |-> e, user |-> UserOf(r)] : e \in AuditEvents(r)}
  /\ holds' = [holds EXCEPT ![r] = {}]
  /\ Goto(r, IF RefusedAfterCommit(r) THEN "refused" ELSE "done")
  /\ UNCHANGED <<now, call, saw, found, listed, stamp, before>>

\* The connection is lost before the commit, and the transaction rolled back:
\* nothing is left of the request, its call included.
Lose(r) ==
  /\ phase[r] \in Open
  /\ Goto(r, "lost")
  /\ holds' = [holds EXCEPT ![r] = {}]
  /\ saw' = [saw EXCEPT ![r] = NewAccount]
  /\ found' = [found EXCEPT ![r] = NoRow]
  /\ listed' = [listed EXCEPT ![r] = {}]
  /\ stamp' = [stamp EXCEPT ![r] = 0]
  /\ call' = [call EXCEPT ![r] = NoCall]
  /\ before' = [before EXCEPT ![r] = {}]
  /\ UNCHANGED <<tables, now>>

Tick ==
  /\ now < Horizon
  /\ now' = now + 1
  /\ UNCHANGED <<tables, locals>>

Statement(r) ==
  \/ FetchOwner(r)
  \/ LockLink(r) \/ LockAccount(r) \/ Conflict(r)
  \/ ListOpen(r) \/ LockSession(r)
  \/ Commit(r)

Rest == (\A r \in Requests : phase[r] \in Ended) /\ UNCHANGED vars

FirstStatement(r, c) ==
  \/ RefuseToken(r, c) \/ FetchSession(r, c) \/ FetchLink(r, c)
  \/ FetchUser(r, c) \/ BeginUpdate(r, c) \/ UnknownUser(r, c)

Next ==
  \/ \E r \in Requests : (\E c \in Calls : FirstStatement(r, c)) \/ Statement(r) \/ Lose(r)
  \/ Tick
  \/ Rest

Spec == Init /\ [][Next]_vars
-----------------------------------------------------------------------------
\* Properties

TypeOK ==
  /\ account \in [Users -> AccountType]
  /\ session \in [SessionIds -> SessionType]
  /\ link \in [LinkIds -> LinkType]
  /\ audit \subseteq AuditType
  /\ now \in Nat
  /\ call \in [Requests -> Calls]
  /\ phase \in [Requests -> {"new"} \union Open \union Ended]
  /\ saw \in [Requests -> AccountType]
  /\ found \in [Requests -> SessionType \union LinkType]
  /\ listed \in [Requests -> SUBSET SessionIds]
  /\ stamp \in [Requests -> Nat]
  /\ holds \in [Requests -> SUBSET Rows]
  /\ before \in [Requests -> SUBSET Requests]

FailuresOf(u) == {e \in audit : e.event = "login.failed" /\ e.user = u}

\* An account is never charged with more failed sign-ins than the log has of
\* it, and is locked only if there were as many as a lock takes: however
\* attempts interleave, they can be lost to the counter but not made up.
CounterHasCauses ==
  \A u \in Users :
    /\ account[u].failed <= Cardinality(FailuresOf(u))
    /\ account[u].locked_until > 0 => Cardinality(FailuresOf(u)) >= MaxAttempts

\* The log and the tables tell the same story, in spite of lost connections: a
\* session opened by a sign-in and its "login.success" go together, and so do
\* a used link and a "password_reset_completed"; who has signed out is out.
LogAgrees ==
  /\ \A r \in Requests :
       session[r].state # "none" /\ call[r].kind = "login" <=>
         \E u \in Users : [by |-> r, event |-> "login.success", user |-> u] \in audit
  /\ \A l \in LinkIds :
       link[l].state = "used" <=>
         \E e \in audit : e.event = "password_reset_completed" /\ call[e.by].target = l
  /\ \A e \in audit : e.event = "logout" => session[call[e.by].target].state = "ended"

\* A sign-in that is refused for its password is on record, although the
\* request fails.
RefusalIsRecorded ==
  \A r \in Requests :
    phase[r] = "refused" /\ call[r].kind = "login" /\ call[r].user \in Users
    /\ ~(saw[r].locked_until > stamp[r]) =>
      [by |-> r, event |-> "login.failed", user |-> call[r].user] \in audit

\* Sessions replace one another in chains: what was replaced has ended, its
\* heir is a session of the same user that was opened later.
HeirsAreSound ==
  \A t \in SessionIds :
    LET h == session[t].heir
    IN  h # NoSession =>
          /\ session[t].state = "ended"
          /\ h \in Requests /\ session[h].state # "none"
          /\ session[h].user = session[t].user
          /\ t \in Requests => t < h

\* Ending all sessions of a user, after a new password or the reuse of a
\* token that has not expired, reaches every session that was there when the
\* request began.
EndsAll(r) == call[r].kind = "reset_password" \/ Reused(r)

Committed(r) == phase[r] = "done" \/ (phase[r] = "refused" /\ Reused(r))

EarlierSessionsEnd ==
  \A r \in Requests : Committed(r) /\ EndsAll(r) =>
    \A t \in Given \union before[r] :
      session[t].user = UserOf(r) => session[t].state # "open"

Disables(s) == call[s].kind \in {"disable", "deactivate"}

\* A user whom s has disabled has been enabled again, by a request that had not
\* committed before s began.
EnabledSince(s) ==
  \E a \in Requests :
    /\ phase[a] = "done" /\ call[a].kind = "activate" /\ call[a].user = call[s].user
    /\ a \notin before[s]

\* A link resets one password and a session is exchanged once, unless the two
\* requests overlap; and a session is opened for a user by a request that began
\* after the user was disabled only if somebody has enabled the user since.
OnceInTurn ==
  \A r, s \in Requests :
    phase[r] = "done" /\ phase[s] = "done" /\ s \in before[r] =>
      /\ call[r].kind \in {"reset_password", "refresh"} /\ call[s].kind = call[r].kind
           => call[r].target # call[s].target
      /\ Disables(s) /\ session[r].user = call[s].user => EnabledSince(s)

\* The service implements the abstract register of sessions.
Register == INSTANCE SessionRegister
  WITH opened <- {t \in SessionIds : session[t].state # "none"},
       open <- {t \in SessionIds : session[t].state = "open"}

RegisterSpec == Register!Spec

\* The row whose lock a request needs next.
Needs(r) ==
  CASE phase[r] = "lock_account" -> {Row("users", UserOf(r))}
    [] phase[r] = "lock_link" -> {Row("links", call[r].target)}
    [] phase[r] = "lock_sessions" -> {Row("sessions", t) : t \in {t \in Unlocked(r) : NextToLock(r, t)}}
    [] OTHER -> {}

WaitsFor(r, s) == r # s /\ Needs(r) # {} /\ Needs(r) \subseteq holds[s]

\* Requests never wait for each other in a circle, although some of them lock
\* several rows of several tables.
NoLockCycle ==
  \A S \in SUBSET Requests : S # {} => \E r \in S : \A s \in S : ~WaitsFor(r, s)
=============================================================================
