--------------------------- MODULE Administration ---------------------------
(***************************************************************************)
(* What administrators manage: accounts with their lockout and roles       *)
(* (handlers/users.rs, services/users.rs, auth/password.rs), the address   *)
(* allowlist, device certificates and the mTLS switch                      *)
(* (handlers/security.rs), the audit log, and the TLS server with its pin  *)
(* set (tls.rs, app.rs).                                                   *)
(*                                                                         *)
(* A call is a list of statements still to run.  Each statement commits by *)
(* itself, other calls run in between, and the three-second budget or the  *)
(* end of the process may drop the rest of the list.  Callers that a       *)
(* handler refuses before its first statement change nothing and are left  *)
(* out.                                                                    *)
(***************************************************************************)
EXTENDS Integers, Sequences, FiniteSets

CONSTANTS
    User, Admin,         \* accounts; the administrator of the seed
    Addr, Net, Covers,   \* addresses; networks and the addresses in each
    Cert,                \* device certificates, by their key
    Threshold, LockTime, \* LOCKOUT_FAILURE_THRESHOLD, LOCKOUT_DURATION_MINUTES
    MaxRunning,          \* bound: calls at once
    Mixes                \* bounds of a behaviour: the kinds of its calls, their
                         \* number, the last moment, the number of failed reads
                         \* of the pin set and of restarts

ASSUME AdminAssumption == Admin \in User
ASSUME CoversAssumption == Covers \in [Net -> SUBSET Addr]
ASSUME LockAssumption == Threshold \in Nat \ {0} /\ LockTime \in Nat \ {0}
ASSUME BoundAssumption ==
    /\ MaxRunning \in Nat
    /\ \A m \in Mixes : {m.calls, m.time, m.faults} \subseteq Nat

VARIABLES
    user,    \* users: state, failed_login_count, locked_until
    grant,   \* user_roles: the roles of each, with the call that granted them
    live,    \* accounts with a session that is not revoked
    allow,   \* enabled rows of endpoint_allowlist
    cert,    \* device_certs
    mtls,    \* mtls_config.enforced
    server,  \* the process: its TLS mode, its pins, what it has read of them
    call,    \* the calls so far
    audit,   \* calls that audit_log tells of
    past,    \* history
    mix,     \* the bound of this behaviour
    now, faults

vars == <<user, grant, live, allow, cert, mtls, server, call, audit, past, mix,
          now, faults>>

Role == {"administrator", "analyst"}
Seed == 0
Made == DOMAIN call
Finished == {"ok", "refused", "dropped"}

Statement == {"wrong", "right", "issue", "name", "forbid", "active", "revoke",
              "unlock", "hash", "insert", "grant", "snapshot", "replace",
              "list", "unlist", "register", "retire", "switch", "audit"}
Tuple == [role : Role, by : Nat]

TypeOK ==
    /\ user \in [User -> [state : {"absent", "active", "inactive"},
                          failed : Nat, until : Nat]]
    /\ grant \in [User -> SUBSET Tuple]
    /\ live \subseteq User
    /\ allow \subseteq [id : Made, net : Net]
    /\ cert \in [Cert -> {"none", "active", "revoked"}]
    /\ mtls \in BOOLEAN
    /\ server \in [mode : BOOLEAN, pins : SUBSET Cert,
                   read : {<<>>} \cup {<<s>> : s \in SUBSET Cert}]
    /\ Made = 1..Len(call) /\ Len(call) <= mix.calls
    /\ \A c \in Made : call[c].todo \in Seq(Statement)
                       /\ call[c].result \in {"running"} \cup Finished
    /\ audit \subseteq Made
    /\ mix \in Mixes /\ now \in 0..mix.time /\ faults \in 0..mix.faults

Names(u) == {t.role : t \in grant[u]}

Init ==
    /\ \E new \in SUBSET (User \ {Admin}) :
          /\ user = [u \in User |-> [state |-> IF u \in new THEN "absent"
                                              ELSE "active",
                                    failed |-> 0, until |-> 0]]
          /\ live = User \ new
    /\ grant = [u \in User |-> IF u = Admin
                               THEN {[role |-> "administrator", by |-> Seed]}
                               ELSE {}]
    /\ allow = {} /\ cert = [c \in Cert |-> "none"] /\ mtls = FALSE
    /\ server = [mode |-> FALSE, pins |-> {}, read |-> <<>>]
    /\ call = <<>> /\ audit = {}
    /\ past = [tries |-> {}, changed |-> {}, asked |-> [u \in User |-> Names(u)],
               mixed |-> {}, retired |-> {}, older |-> {}]
    /\ mix \in Mixes /\ now = 0 /\ faults = 0

Locked(u) == user[u].until > now

-----------------------------------------------------------------------------
(* A call arrives *)

\* AuthnMw: an empty list lets everyone in.
Admitted(addr) == allow = {} \/ \E row \in allow : addr \in Covers[row.net]

\* resolve_auth and require_permission, for the permissions that only the
\* administrator has.
Known(u) == u \in live /\ user[u].state = "active"
Manages(u) == Known(u) /\ "administrator" \in Names(u)

Running == {c \in Made : call[c].result = "running"}

\* seen and waits belong to a role assignment: the rows it has read, and the
\* transactions that have locked some of them.
Arrive(op, by, on, arg, todo) ==
    /\ op \in mix.kinds
    /\ Len(call) < mix.calls /\ Cardinality(Running) < MaxRunning
    /\ \E addr \in Addr : Admitted(addr)
    /\ call' = Append(call, [op |-> op, by |-> by, on |-> on, arg |-> arg,
                             todo |-> todo, result |-> "running",
                             seen |-> {}, waits |-> {}, start |-> now])
    /\ UNCHANGED <<user, grant, live, allow, cert, mtls, server, audit, past,
                   mix, now, faults>>

\* authenticate: the account and its lock are looked at, then the password is
\* verified, which takes a while.
Login ==
    \E u \in User, right \in BOOLEAN :
        /\ user[u].state = "active" /\ ~Locked(u)
        /\ IF right THEN Arrive("login", u, u, <<>>, <<"right", "issue", "audit">>)
           ELSE Arrive("guess", u, u, <<>>, <<"wrong">>)

\* update_user: one's own name, or the state of anyone.  Only when its turn
\* comes is a change of the state refused.
Patch ==
    \E u, v \in User, name \in BOOLEAN, active \in {<<>>, <<TRUE>>, <<FALSE>>} :
        /\ Manages(u) \/ (Known(u) /\ u = v)
        /\ Arrive("patch", u, v, active,
                  (IF name THEN <<"name">> ELSE <<>>)
                  \o (IF active = <<>> THEN <<>>
                      ELSE IF ~Manages(u) THEN <<"forbid">>
                      ELSE IF active[1] THEN <<"active">>
                      ELSE <<"active", "revoke">>)
                  \o <<"audit">>)

DeleteUser ==
    \E u, v \in User :
        /\ Manages(u) /\ u # v /\ user[v].state # "absent"
        /\ Arrive("delete", u, v, <<FALSE>>, <<"active", "revoke", "audit">>)

Unlock == \E u, v \in User :
    Manages(u) /\ Arrive("unlock", u, v, <<>>, <<"unlock", "audit">>)

ResetPassword == \E u, v \in User :
    Manages(u) /\ Arrive("reset", u, v, <<>>, <<"hash", "revoke", "audit">>)

CreateUser == \E u, v \in User, roles \in SUBSET Role :
    Manages(u) /\ Arrive("create", u, v, roles,
                         <<"insert">> \o (IF roles = {} THEN <<>> ELSE <<"grant">>)
                         \o <<"audit">>)

AssignRoles == \E u, v \in User, roles \in SUBSET Role :
    Manages(u) /\ Arrive("roles", u, v, roles, <<"snapshot", "replace", "audit">>)

\* The five handlers of security.rs that change something.
Security ==
    \E u \in User :
        /\ Manages(u)
        /\ \/ \E n \in Net :
                 Arrive("allow", u, u, n, <<"list", "audit">>)
           \/ \E row \in allow :
                 Arrive("unlist", u, u, row, <<"unlist", "audit">>)
           \/ \E k \in Cert :
                 \/ Arrive("register", u, u, k, <<"register", "audit">>)
                 \/ Arrive("retire", u, u, k, <<"retire", "audit">>)
           \/ \E on \in BOOLEAN :
                 Arrive("mtls", u, u, on, <<"switch", "audit">>)

-----------------------------------------------------------------------------
(* The statements *)

Next1(c) == Head(call[c].todo)
At(c, s) == c \in Running /\ Next1(c) = s

Over(c, result) == [op |-> call[c].op, todo |-> <<>>, result |-> result]
Stop(c, result) == call' = [call EXCEPT ![c] = Over(c, result)]

\* The statement ran: the rest of the list, or the answer.
Ran(c) == IF Len(call[c].todo) = 1 THEN Stop(c, "ok")
          ELSE call' = [call EXCEPT ![c].todo = Tail(@)]

Changed(c) == [past EXCEPT !.changed = @ \cup {c}]
Others(same) == UNCHANGED <<mix, now, faults>> /\ UNCHANGED same

\* Slip: only the failure that reaches the threshold locks.
FailedOnce(row) ==
    [row EXCEPT !.failed = @ + 1,
                !.until = IF row.failed + 1 = Threshold THEN now + LockTime ELSE @]

\* note_failed_login
Failed(row) ==
    [row EXCEPT !.failed = @ + 1,
                !.until = IF row.failed + 1 >= Threshold THEN now + LockTime ELSE @]

Wrong(c) ==
    LET u == call[c].on IN
    /\ At(c, "wrong")
    /\ user' = [user EXCEPT ![u] = Failed(@)]
    /\ past' = [past EXCEPT !.tries = @ \cup {[user |-> u, start |-> call[c].start,
                                              nth |-> user[u].failed + 1,
                                              end |-> now]}]
    /\ Stop(c, "refused")
    /\ Others(<<grant, live, allow, cert, mtls, server, audit>>)

\* Slip: one failure is taken back.
Forgiven(row) == [row EXCEPT !.failed = @ - 1, !.until = 0]

\* The count is forgotten by reset_failed_login, unlock_user, update_password.
Cleared(row) == [row EXCEPT !.failed = 0, !.until = 0]

Clear(c) ==
    LET u == call[c].on IN
    /\ \E s \in {"right", "unlock", "hash"} : At(c, s)
    /\ user[u].state # "absent"
    /\ user' = [user EXCEPT ![u] = Cleared(@)]
    /\ past' = [past EXCEPT !.tries = {t \in @ : t.user # u},
                            !.changed = IF call[c].op = "login" THEN @
                                        ELSE @ \cup {c}]
    /\ Ran(c)
    /\ Others(<<grant, live, allow, cert, mtls, server, audit>>)

\* sessions::issue (AuthSessions has the whole of it)
Issue(c) ==
    /\ At(c, "issue")
    /\ live' = live \cup {call[c].on}
    /\ Ran(c)
    /\ Others(<<user, grant, allow, cert, mtls, server, audit, past>>)

\* An UPDATE of an account that is not there touches no row and is no error.
NoRow(c) ==
    /\ \E s \in {"name", "active", "unlock", "hash"} : At(c, s)
    /\ user[call[c].on].state = "absent"
    /\ Ran(c)
    /\ Others(<<user, grant, live, allow, cert, mtls, server, audit, past>>)

Name(c) ==
    /\ At(c, "name") /\ user[call[c].on].state # "absent"
    /\ past' = Changed(c)
    /\ Ran(c)
    /\ Others(<<user, grant, live, allow, cert, mtls, server, audit>>)

Forbid(c) ==
    /\ At(c, "forbid")
    /\ Stop(c, "refused")
    /\ Others(<<user, grant, live, allow, cert, mtls, server, audit, past>>)

SetActive(c) ==
    LET u == call[c].on IN
    /\ At(c, "active") /\ user[u].state # "absent"
    /\ user' = [user EXCEPT ![u].state =
                  IF call[c].arg[1] THEN "active" ELSE "inactive"]
    /\ past' = Changed(c)
    /\ Ran(c)
    /\ Others(<<grant, live, allow, cert, mtls, server, audit>>)

\* revoke_all_for_user
Revoke(c) ==
    /\ At(c, "revoke")
    /\ live' = live \ {call[c].on}
    /\ Ran(c)
    /\ Others(<<user, grant, allow, cert, mtls, server, audit, past>>)

\* The name and the hash of the e-mail address are unique.
Insert(c) ==
    LET u == call[c].on IN
    /\ At(c, "insert")
    /\ IF user[u].state # "absent" THEN Stop(c, "refused") /\ UNCHANGED <<user, past>>
       ELSE /\ user' = [user EXCEPT ![u].state = "active"]
            /\ past' = Changed(c)
            /\ Ran(c)
    /\ Others(<<grant, live, allow, cert, mtls, server, audit>>)

Given(c) == {[role |-> r, by |-> c] : r \in call[c].arg}

\* The new account has no roles, unless an assignment came in between: then a
\* role that is there already is an error.
Grant(c) ==
    LET u == call[c].on IN
    /\ At(c, "grant")
    /\ IF Names(u) \cap call[c].arg # {}
       THEN Stop(c, "refused") /\ UNCHANGED <<grant, past>>
       ELSE /\ grant' = [grant EXCEPT ![u] = @ \cup Given(c)]
            /\ past' = [past EXCEPT !.asked[u] = call[c].arg,
                                    !.mixed = IF grant[u] = {} THEN @
                                              ELSE @ \cup {u}]
            /\ Ran(c)
    /\ Others(<<user, live, allow, cert, mtls, server, audit>>)

\* assign_roles, in a transaction.  The DELETE works on the rows that its
\* statement sees, of those it locks the ones that are still there, and waits
\* for the transaction that has locked one of them.
Replacing(u) == {c \in Running : call[c].op = "roles" /\ call[c].on = u
                                 /\ Next1(c) = "replace"}
Snapshot(c) ==
    LET u == call[c].on IN
    /\ At(c, "snapshot")
    /\ call' = [call EXCEPT ![c].todo = Tail(@), ![c].seen = grant[u],
                            ![c].waits = {d \in Replacing(u) :
                                            call[d].seen \cap grant[u] # {}}]
    /\ Others(<<user, grant, live, allow, cert, mtls, server, audit, past>>)

\* Slip: the roles are added.
AddRoles(c) ==
    LET kept == grant[call[c].on]
    IN  kept \cup {t \in Given(c) : \A k \in kept : k.role # t.role}

\* The DELETE and the INSERTs, which leave a role that is there as it is.
NewRoles(c) ==
    LET kept == grant[call[c].on] \ call[c].seen
    IN  kept \cup {t \in Given(c) : \A k \in kept : k.role # t.role}

\* A role of an account that is not there breaks the foreign key.
Replace(c) ==
    LET u == call[c].on IN
    /\ At(c, "replace") /\ call[c].waits \cap Running = {}
    /\ IF user[u].state = "absent" /\ call[c].arg # {}
       THEN Stop(c, "refused") /\ UNCHANGED <<grant, past>>
       ELSE /\ grant' = [grant EXCEPT ![u] = NewRoles(c)]
            /\ past' = [Changed(c) EXCEPT !.asked[u] = call[c].arg,
                                       !.mixed = IF grant[u] = call[c].seen
                                                 THEN @ \ {u} ELSE @ \cup {u}]
            /\ Ran(c)
    /\ Others(<<user, live, allow, cert, mtls, server, audit>>)

List(c) ==
    /\ At(c, "list")
    /\ allow' = allow \cup {[id |-> c, net |-> call[c].arg]}
    /\ past' = Changed(c)
    /\ Ran(c)
    /\ Others(<<user, grant, live, cert, mtls, server, audit>>)

Unlist(c) ==
    /\ At(c, "unlist")
    /\ IF call[c].arg \notin allow THEN Stop(c, "refused") /\ UNCHANGED <<allow, past>>
       ELSE /\ allow' = allow \ {call[c].arg}
            /\ past' = Changed(c)
            /\ Ran(c)
    /\ Others(<<user, grant, live, cert, mtls, server, audit>>)

\* A key is registered once: a revoked one cannot come back.
Register(c) ==
    /\ At(c, "register")
    /\ IF cert[call[c].arg] # "none"
       THEN Stop(c, "refused") /\ UNCHANGED <<cert, past>>
       ELSE /\ cert' = [cert EXCEPT ![call[c].arg] = "active"]
            /\ past' = Changed(c)
            /\ Ran(c)
    /\ Others(<<user, grant, live, allow, mtls, server, audit>>)

Retire(c) ==
    /\ At(c, "retire")
    /\ IF cert[call[c].arg] # "active"
       THEN Stop(c, "refused") /\ UNCHANGED <<cert, past>>
       ELSE /\ cert' = [cert EXCEPT ![call[c].arg] = "revoked"]
            /\ past' = [Changed(c) EXCEPT !.retired = @ \cup {call[c].arg}]
            /\ Ran(c)
    /\ Others(<<user, grant, live, allow, mtls, server, audit>>)

Switch(c) ==
    /\ At(c, "switch")
    /\ mtls' = call[c].arg
    /\ past' = Changed(c)
    /\ Ran(c)
    /\ Others(<<user, grant, live, allow, cert, server, audit>>)

\* Slip: an answer may be given before the record is written.
NoRecord(c) == audit

Record(c) == audit \cup {c}

\* audit::record
Audit(c) ==
    /\ At(c, "audit")
    /\ audit' = Record(c)
    /\ Ran(c)
    /\ Others(<<user, grant, live, allow, cert, mtls, server, past>>)

\* BudgetMw: the rest of the call is dropped.  A transaction rolls back.
Drop(c) ==
    /\ c \in Running
    /\ Stop(c, "dropped")
    /\ Others(<<user, grant, live, allow, cert, mtls, server, audit, past>>)

-----------------------------------------------------------------------------
(* The process and its pin set *)

\* Slip: the revoked rows are read as well.
Registered == {k \in Cert : cert[k] # "none"}

Active == {k \in Cert : cert[k] = "active"}

\* load_pins, every 30 seconds while the server was started to enforce pins.
LoadPins ==
    /\ server.mode /\ server.read = <<>>
    /\ server' = [server EXCEPT !.read = <<Active>>]
    /\ past' = [past EXCEPT !.retired = {}, !.older = past.retired]
    /\ Others(<<user, grant, live, allow, cert, mtls, call, audit>>)

\* Slip: the pins read are added.
AddPins(pins, read) == pins \cup read

NewPins(pins, read) == read

SwapPins ==
    /\ server.read # <<>>
    /\ server' = [server EXCEPT !.pins = NewPins(@, server.read[1]), !.read = <<>>]
    /\ Others(<<user, grant, live, allow, cert, mtls, call, audit, past>>)

\* The read fails: the pins stay as they are until the next time.
LoadFails ==
    /\ server.mode /\ server.read = <<>> /\ faults < mix.faults
    /\ faults' = faults + 1
    /\ UNCHANGED <<user, grant, live, allow, cert, mtls, server, call, audit,
                   past, mix, now>>

\* run: the mode of the TLS server is that of the row at the start.
Restart ==
    /\ faults < mix.faults
    /\ faults' = faults + 1
    /\ server' = [mode |-> mtls, pins |-> IF mtls THEN Active ELSE {},
                  read |-> <<>>]
    /\ call' = [c \in Made |->
                  IF c \in Running THEN Over(c, "dropped") ELSE call[c]]
    /\ past' = [past EXCEPT !.retired = {}, !.older = {}]
    /\ UNCHANGED <<user, grant, live, allow, cert, mtls, audit, mix, now>>

Tick ==
    /\ now < mix.time
    /\ now' = now + 1
    /\ UNCHANGED <<user, grant, live, allow, cert, mtls, server, call, audit,
                   past, mix, faults>>

Statements(c) ==
    \/ Wrong(c) \/ Clear(c) \/ Issue(c) \/ NoRow(c) \/ Name(c) \/ Forbid(c)
    \/ SetActive(c) \/ Revoke(c) \/ Insert(c) \/ Grant(c) \/ Snapshot(c)
    \/ Replace(c) \/ List(c) \/ Unlist(c) \/ Register(c) \/ Retire(c)
    \/ Switch(c) \/ Audit(c)

Next ==
    \/ Login \/ Patch \/ DeleteUser \/ Unlock \/ ResetPassword \/ CreateUser
    \/ AssignRoles \/ Security
    \/ \E c \in Made : Statements(c) \/ Drop(c)
    \/ LoadPins \/ SwapPins \/ LoadFails \/ Restart \/ Tick

\* The refresher loops for as long as the process lives.
Spec == Init /\ [][Next]_vars /\ WF_vars(LoadPins) /\ WF_vars(SwapPins)

-----------------------------------------------------------------------------
(* Properties *)

\* Once an account has had Threshold wrong passwords, another one is looked at
\* only after the lock time, or when its check began before: the lock is set
\* again by every later failure, although the count outlives it.
LockHolds ==
    \A s, t \in past.tries :
        s.user = t.user /\ s.nth >= Threshold /\ t.nth > s.nth =>
            t.start <= s.end \/ t.start >= s.end + LockTime

\* A change is told in the audit log, unless the call still runs or has been
\* cut short: dropped, or refused after its first statement.  A call answered
\* with success is always told.
ChangesAreAudited ==
    /\ \A c \in Made : call[c].result = "ok" => c \in audit
    /\ \A c \in past.changed \ audit :
          \/ call[c].result \in {"running", "dropped"}
          \/ call[c].result = "refused" /\ call[c].op \in {"patch", "create"}

\* The roles of an account are those of the last request to set them, unless
\* two requests overlapped.
RolesReplaced ==
    \A u \in User : u \notin past.mixed => Names(u) = past.asked[u]

\* The server accepts a revoked certificate for one reading of the pins at most.
PinsAgeOnce ==
    server.pins \subseteq
        Active \cup past.retired
               \cup (IF server.read = <<>> THEN {} ELSE past.older)

\* What an administrator has set is in force, at the latest after one reading of
\* the pins: locks, the roles of an account, the certificates that are accepted.
SettingsHold == TypeOK /\ LockHolds /\ RolesReplaced /\ PinsAgeOnce

\* In the end the server does not accept a revoked certificate, if its reads of
\* the pin set do not go on failing.
PinsSettle ==
    \A k \in Cert : cert[k] = "revoked" ~> k \notin server.pins
=============================================================================
