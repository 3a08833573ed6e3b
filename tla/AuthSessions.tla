----------------------------- MODULE AuthSessions -----------------------------
(***************************************************************************)
(* Refresh sessions: the rows of auth/sessions.rs and the handlers of      *)
(* handlers/auth.rs and handlers/users.rs that issue, rotate and revoke    *)
(* them, with the bearer check of middleware/authn.rs.                     *)
(*                                                                         *)
(* No handler uses a transaction, so every statement is one action and the *)
(* handlers interleave between them.  The three-second budget may drop a   *)
(* handler at any await; a crash of the process drops all of them, which   *)
(* is the same as dropping each.                                           *)
(***************************************************************************)
EXTENDS Naturals, FiniteSets

CONSTANTS
    User,              \* accounts
    Session,           \* rows the sessions table can come to hold
    NoSession,         \* "no parent": the session a login starts from
    Handler,           \* requests that may be in flight
    AccessTtl,         \* life of an access token (15 min)
    IdleTimeout,       \* IDLE_TIMEOUT_DAYS
    AbsoluteLifetime,  \* ABSOLUTE_LIFETIME_DAYS
    MaxTime,           \* bound: last moment of the clock
    MaxPassword        \* bound: password changes of one account

ASSUME NoSessionAssumption == NoSession \notin Session
ASSUME LifetimeAssumption ==
    /\ AccessTtl \in Nat \ {0}
    /\ IdleTimeout \in Nat \ {0}
    /\ AbsoluteLifetime \in Nat \ {0}
ASSUME BoundAssumption == MaxTime \in Nat /\ MaxPassword \in Nat

VARIABLES
    user,   \* rows of users: is_active, and a version of the password hash
    sess,   \* rows of sessions
    hnd,    \* handlers in flight and what they hold
    now,    \* the clock
    owed    \* owed[u]: a hash or is_active of u was written and no
            \* revoke_all_for_user of u has run since (history)

vars == <<user, sess, hnd, now, owed>>

\* parent, pwd and late are history: the session a row was rotated from, the
\* hash the chain's login was verified against, and whether a revoke_all passed
\* between reading and inserting.
Row == [state : {"live", "revoked"}, user : User, issued : Nat, expires : Nat,
        parent : Session \cup {NoSession}, pwd : Nat, late : BOOLEAN]
Unused == [state |-> "unused"]

Steps == {"rotate", "issue", "logout", "user", "inside", "hash", "sweep"}
Flight == [step : Steps, user : User, sess : Session \cup {NoSession},
           pwd : Nat, late : BOOLEAN]
Idle == [step |-> "idle"]

TypeOK ==
    /\ user \in [User -> [active : BOOLEAN, pwd : Nat]]
    /\ sess \in [Session -> Row \cup {Unused}]
    /\ hnd \in [Handler -> Flight \cup {Idle}]
    /\ now \in Nat
    /\ owed \in [User -> BOOLEAN]

Init ==
    /\ user = [u \in User |-> [active |-> TRUE, pwd |-> 0]]
    /\ sess = [s \in Session |-> Unused]
    /\ hnd = [h \in Handler |-> Idle]
    /\ now = 0
    /\ owed = [u \in User |-> FALSE]

-----------------------------------------------------------------------------
Live(s) == sess[s].state = "live"

\* is_session_active
Active(s) == Live(s) /\ sess[s].expires > now

\* lookup_active: the row it returns is usable for rotation.
Usable(s) == Active(s) /\ now < sess[s].issued + AbsoluteLifetime

\* Slip: a status of its own for a session ended early.
RevokedOther(row) == [row EXCEPT !.state = "ended"]

Revoked(row) == [row EXCEPT !.state = "revoked"]

\* revoke: only a row with revoked_at NULL is touched.
Revoke(s) ==
    sess' = [sess EXCEPT ![s] = IF Live(s) THEN Revoked(@) ELSE @]

\* A handler that has read the account or the session and will insert.
InFlight(f) == f.step \in {"rotate", "issue"}

\* Slip: only the caller's own session is revoked.
RevokeOwn(u, h) ==
    /\ sess' = [s \in Session |->
                  IF Live(s) /\ s = hnd[h].sess THEN Revoked(sess[s])
                  ELSE sess[s]]
    /\ hnd' = [hnd EXCEPT ![h] = Idle]
    /\ owed' = [owed EXCEPT ![u] = FALSE]

\* revoke_all_for_user, and its mark on the handlers it overtakes.
RevokeAll(u, h) ==
    /\ sess' = [s \in Session |->
                  IF Live(s) /\ sess[s].user = u THEN Revoked(sess[s])
                  ELSE sess[s]]
    /\ hnd' = [g \in Handler |->
                 IF g = h THEN Idle
                 ELSE IF InFlight(hnd[g]) /\ hnd[g].user = u
                 THEN [hnd[g] EXCEPT !.late = TRUE]
                 ELSE hnd[g]]
    /\ owed' = [owed EXCEPT ![u] = FALSE]

Start(h, f) ==
    /\ hnd[h] = Idle
    /\ hnd' = [hnd EXCEPT ![h] = f]

Advance(h, step) == hnd' = [hnd EXCEPT ![h].step = step]
Finish(h) == hnd' = [hnd EXCEPT ![h] = Idle]

\* The INSERT of issue, for a handler that reached it.
Insert(h, s) ==
    /\ sess[s] = Unused
    /\ sess' = [sess EXCEPT ![s] =
                  [state |-> "live", user |-> hnd[h].user, issued |-> now,
                   expires |-> now + IdleTimeout, parent |-> hnd[h].sess,
                   pwd |-> hnd[h].pwd, late |-> hnd[h].late]]

-----------------------------------------------------------------------------
(* POST /auth/login *)

\* authenticate with the right password: an active account.  (Lockout is the
\* subject of its own module.)
LoginVerify(h, u) ==
    /\ user[u].active
    /\ Start(h, [step |-> "issue", user |-> u, sess |-> NoSession,
                 pwd |-> user[u].pwd, late |-> FALSE])
    /\ UNCHANGED <<user, sess, now, owed>>

\* sessions::issue, of a login or of a rotation.
Issue(h, s) ==
    /\ hnd[h].step = "issue"
    /\ Insert(h, s)
    /\ Finish(h)
    /\ UNCHANGED <<user, now, owed>>

(* POST /auth/refresh: lookup_active, revoke, issue.  is_active is not read. *)

RefreshLookup(h, s) ==
    /\ Usable(s)
    /\ Start(h, [step |-> "rotate", user |-> sess[s].user, sess |-> s,
                 pwd |-> sess[s].pwd,
                 late |-> sess[s].late])
    /\ UNCHANGED <<user, sess, now, owed>>

\* Slip: the old row is left as it is.
RefreshKeeps(h) ==
    /\ hnd[h].step = "rotate"
    /\ Advance(h, "issue")
    /\ UNCHANGED <<user, sess, now, owed>>

RefreshRevoke(h) ==
    /\ hnd[h].step = "rotate"
    /\ Revoke(hnd[h].sess)
    /\ Advance(h, "issue")
    /\ UNCHANGED <<user, now, owed>>

(* POST /auth/logout *)

LogoutLookup(h, s) ==
    /\ Usable(s)
    /\ Start(h, [step |-> "logout", user |-> sess[s].user, sess |-> s,
                 pwd |-> sess[s].pwd,
                 late |-> sess[s].late])
    /\ UNCHANGED <<user, sess, now, owed>>

LogoutRevoke(h) ==
    /\ hnd[h].step = "logout"
    /\ Revoke(hnd[h].sess)
    /\ Finish(h)
    /\ UNCHANGED <<user, now, owed>>

-----------------------------------------------------------------------------
(* resolve_auth: the session, then the account, in two queries *)

BearerSession(h, s) ==
    /\ Active(s)
    /\ now < sess[s].issued + AccessTtl
    /\ Start(h, [step |-> "user", user |-> sess[s].user, sess |-> s,
                 pwd |-> sess[s].pwd,
                 late |-> sess[s].late])
    /\ UNCHANGED <<user, sess, now, owed>>

BearerUser(h) ==
    /\ hnd[h].step = "user"
    /\ user[hnd[h].user].active
    /\ Advance(h, "inside")
    /\ UNCHANGED <<user, sess, now, owed>>

(* POST /auth/change-password *)

\* The caller knows the current password.
ChangeVerify(h) ==
    /\ hnd[h].step = "inside"
    /\ Advance(h, "hash")
    /\ UNCHANGED <<user, sess, now, owed>>

\* update_password, first statement.
ChangeHash(h) ==
    /\ hnd[h].step = "hash"
    /\ LET u == hnd[h].user IN
         /\ user[u].pwd < MaxPassword
         /\ user' = [user EXCEPT ![u].pwd = @ + 1]
         /\ owed' = [owed EXCEPT ![u] = TRUE]
    /\ Advance(h, "sweep")
    /\ UNCHANGED <<sess, now>>

\* The revoke_all_for_user that ends a password change or a deactivation.
Sweep(h) ==
    /\ hnd[h].step = "sweep"
    /\ RevokeAll(hnd[h].user, h)
    /\ UNCHANGED <<user, now>>

(* The administrator's handlers: the caller's own session plays no part. *)

\* POST /users/{id}/reset-password: update_password without a check.
ResetHash(h, u) ==
    /\ user[u].pwd < MaxPassword
    /\ user' = [user EXCEPT ![u].pwd = @ + 1]
    /\ owed' = [owed EXCEPT ![u] = TRUE]
    /\ Start(h, [step |-> "sweep", user |-> u, sess |-> NoSession,
                 pwd |-> 0, late |-> FALSE])
    /\ UNCHANGED <<sess, now>>

\* DELETE /users/{id}, and PATCH with is_active = false.
Deactivate(h, u) ==
    /\ user' = [user EXCEPT ![u].active = FALSE]
    /\ owed' = [owed EXCEPT ![u] = TRUE]
    /\ Start(h, [step |-> "sweep", user |-> u, sess |-> NoSession,
                 pwd |-> 0, late |-> FALSE])
    /\ UNCHANGED <<sess, now>>

\* Slip: reactivation gives the account its sessions back.
ActivateRestores(u) ==
    /\ ~ user[u].active
    /\ user' = [user EXCEPT ![u].active = TRUE]
    /\ sess' = [s \in Session |->
                  IF sess[s] # Unused /\ sess[s].user = u
                  THEN [sess[s] EXCEPT !.state = "live"]
                  ELSE sess[s]]
    /\ UNCHANGED <<hnd, now, owed>>

\* PATCH with is_active = true.
Activate(u) ==
    /\ ~ user[u].active
    /\ user' = [user EXCEPT ![u].active = TRUE]
    /\ UNCHANGED <<sess, hnd, now, owed>>

-----------------------------------------------------------------------------
\* The budget, a failing statement or a crash ends the handler where it is;
\* a handler that was only admitted may as well do something not modelled.
Drop(h) ==
    /\ hnd[h] # Idle
    /\ Finish(h)
    /\ UNCHANGED <<user, sess, now, owed>>

\* The clock counts the units of the lifetimes, minutes at the least; the
\* budget ends every handler after three seconds, so none sees time pass.
Tick ==
    /\ now < MaxTime
    /\ \A h \in Handler : hnd[h] = Idle
    /\ now' = now + 1
    /\ UNCHANGED <<user, sess, hnd, owed>>

Next ==
    \/ \E h \in Handler, u \in User :
          LoginVerify(h, u) \/ ResetHash(h, u) \/ Deactivate(h, u)
    \/ \E h \in Handler, s \in Session :
          \/ Issue(h, s)
          \/ RefreshLookup(h, s)
          \/ LogoutLookup(h, s)
          \/ BearerSession(h, s)
    \/ \E h \in Handler :
          \/ RefreshRevoke(h)
          \/ LogoutRevoke(h)
          \/ BearerUser(h)
          \/ ChangeVerify(h)
          \/ ChangeHash(h)
          \/ Sweep(h)
          \/ Drop(h)
    \/ \E u \in User : Activate(u)
    \/ Tick

Spec == Init /\ [][Next]_vars

-----------------------------------------------------------------------------
(* Properties *)

Used == {s \in Session : sess[s] # Unused}
Children(s) == {t \in Used : sess[t].parent = s}

\* A token that still works has not been exchanged: rotation revokes the old
\* row before it inserts the new one, so a rotation cut short costs the user
\* a session and never leaves two.
LiveHasNoChild ==
    \A s \in Session : Live(s) => Children(s) = {}

\* The account of a session changed under it: another password, or inactive.
Outdated(s) ==
    LET u == sess[s].user IN sess[s].pwd < user[u].pwd \/ ~ user[u].active

\* The hash and is_active are written before revoke_all, so a session that
\* outlives a password change or a deactivation either has that revoke_all
\* still to come (or cut off), or was inserted by a handler that had read the
\* account, or the session it rotated, before revoke_all ran.
OutdatedOnlyByOverlap ==
    \A s \in Session :
        Live(s) /\ Outdated(s) => sess[s].late \/ owed[sess[s].user]

\* What a revoked row records is final: it does not become live again, and
\* no row changes its owner, its dates or its place in the chain.
RevokedIsFinal ==
    [][\A s \in Used :
         /\ sess[s].state = "revoked" => sess'[s] = sess[s]
         /\ sess'[s] \in {sess[s], Revoked(sess[s])}]_vars

-----------------------------------------------------------------------------
(* What the documentation promises and the code does not do *)

\* sessions.rs: "the presented token is single-use".  No row is rotated twice.
SingleUse ==
    \A s \in Session : Cardinality(Children(s)) <= 1

\* password.rs: "Successful change -> hash updated, all sessions revoked".
\* Once revoke_all has run, no session of the old password is live.
AllSessionsRevoked ==
    \A s \in Session :
        Live(s) /\ sess[s].pwd < user[sess[s].user].pwd => owed[sess[s].user]
=============================================================================
