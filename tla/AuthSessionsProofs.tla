-------------------------- MODULE AuthSessionsProofs --------------------------
(***************************************************************************)
(* Safety of AuthSessions for any number of accounts, rows and handlers,   *)
(* any lifetimes and any number of password changes.                       *)
(***************************************************************************)
EXTENDS AuthSessions, TLAPS

\* What a handler may rely on: the row it is about to revoke exists, and the
\* row it rotates is revoked before it inserts the next.
HandlerInv ==
    \A h \in Handler :
        /\ hnd[h].step \in {"rotate", "logout"} =>
              hnd[h].sess \in Session /\ sess[hnd[h].sess] # Unused
        /\ hnd[h].step = "issue" /\ hnd[h].sess # NoSession =>
              sess[hnd[h].sess].state = "revoked"

\* A row with a child is revoked.
ParentRevoked ==
    \A t \in Session :
        sess[t] # Unused /\ sess[t].parent # NoSession =>
            sess[sess[t].parent].state = "revoked"

\* The account of an inserting handler changed since it was read only if the
\* sweep has overtaken the handler or is still to come.
FlightInv ==
    \A h \in Handler :
        InFlight(hnd[h]) =>
            LET u == hnd[h].user IN
            \/ hnd[h].late
            \/ owed[u]
            \/ hnd[h].pwd >= user[u].pwd /\ user[u].active

IInv == /\ TypeOK /\ HandlerInv /\ ParentRevoked /\ FlightInv
        /\ OutdatedOnlyByOverlap

-----------------------------------------------------------------------------
LEMMA InitIInv == Init => IInv
  BY DEF Init, IInv, TypeOK, HandlerInv, ParentRevoked, FlightInv, InFlight,
         OutdatedOnlyByOverlap, Live, Unused, Idle

\* The two shapes of a row, and of a handler.
LEMMA Shapes ==
  ASSUME TypeOK
  PROVE  /\ \A s \in Session :
              \/ sess[s] = Unused /\ sess[s].state = "unused"
              \/ sess[s] \in Row /\ sess[s] # Unused
                 /\ sess[s].state \in {"live", "revoked"}
         /\ \A h \in Handler :
              \/ hnd[h] = Idle /\ hnd[h].step = "idle"
              \/ hnd[h] \in Flight /\ hnd[h] # Idle /\ hnd[h].step \in Steps
  BY DEF TypeOK, Row, Unused, Flight, Idle, Steps

\* Revoking a row changes its state only.
LEMMA RevokedRow ==
  ASSUME NEW row \in Row
  PROVE  /\ Revoked(row) \in Row
         /\ Revoked(row).state = "revoked"
         /\ Revoked(row).user = row.user
         /\ Revoked(row).parent = row.parent
         /\ Revoked(row).pwd = row.pwd
         /\ Revoked(row).late = row.late
  BY DEF Revoked, Row

\* The live rows among S are revoked, and nothing else happens to the table.
Revoking(S) ==
    sess' = [s \in Session |->
               IF s \in S /\ Live(s) THEN Revoked(sess[s]) ELSE sess[s]]

LEMMA RevokeIsRevoking ==
  ASSUME TypeOK, NEW s \in Session, Revoke(s)
  PROVE  Revoking({s})
  BY DEF Revoke, Revoking, TypeOK

LEMMA RevokingFacts ==
  ASSUME TypeOK, NEW S, Revoking(S)
  PROVE  /\ sess' \in [Session -> Row \cup {Unused}]
         /\ \A s \in Session :
              /\ sess[s] # Unused => sess'[s] # Unused
              /\ sess'[s] \in {sess[s], Revoked(sess[s])}
              /\ sess[s].state # "live" => sess'[s] = sess[s]
              /\ sess'[s].state = "live" => sess'[s] = sess[s] /\ s \notin S
              /\ s \in S /\ sess[s] # Unused => sess'[s].state = "revoked"
              /\ sess'[s] # Unused =>
                    sess[s] # Unused /\ sess'[s].parent = sess[s].parent
<1>1. \A s \in Session :
        /\ sess'[s] = IF s \in S /\ Live(s) THEN Revoked(sess[s]) ELSE sess[s]
        /\ Live(s) => sess[s] \in Row
  BY Shapes DEF Revoking, Live
<1>2. \A s \in Session : Live(s) => /\ Revoked(sess[s]) \in Row
                                    /\ Revoked(sess[s]).state = "revoked"
                                    /\ Revoked(sess[s]).parent = sess[s].parent
                                    /\ Revoked(sess[s]) # Unused
  BY <1>1, RevokedRow DEF Unused
<1>3. sess' \in [Session -> Row \cup {Unused}]
  BY <1>1, <1>2 DEF Revoking, TypeOK
<1> QED
  BY <1>1, <1>2, <1>3, Shapes DEF Live

\* The handler's part of a step: it starts, advances, or ends.
LEMMA StartFacts ==
  ASSUME TypeOK, NEW h \in Handler, NEW f \in Flight, Start(h, f)
  PROVE  /\ hnd' \in [Handler -> Flight \cup {Idle}]
         /\ hnd'[h] = f
         /\ \A g \in Handler \ {h} : hnd'[g] = hnd[g]
  BY DEF Start, TypeOK

LEMMA FinishFacts ==
  ASSUME TypeOK, NEW h \in Handler, Finish(h)
  PROVE  /\ hnd' \in [Handler -> Flight \cup {Idle}]
         /\ hnd'[h] = Idle
         /\ \A g \in Handler \ {h} : hnd'[g] = hnd[g]
  BY DEF Finish, TypeOK

LEMMA AdvanceFacts ==
  ASSUME TypeOK, NEW h \in Handler, NEW step \in Steps, hnd[h] # Idle,
         Advance(h, step)
  PROVE  /\ hnd' \in [Handler -> Flight \cup {Idle}]
         /\ hnd'[h].step = step
         /\ hnd'[h].user = hnd[h].user
         /\ hnd'[h].sess = hnd[h].sess
         /\ hnd'[h].pwd = hnd[h].pwd
         /\ hnd'[h].late = hnd[h].late
         /\ \A g \in Handler \ {h} : hnd'[g] = hnd[g]
<1> DEFINE f == [hnd[h] EXCEPT !.step = step]
<1>1. hnd[h] \in Flight
  BY Shapes
<1>2. f \in Flight /\ f.step = step /\ f.user = hnd[h].user
      /\ f.sess = hnd[h].sess /\ f.pwd = hnd[h].pwd /\ f.late = hnd[h].late
  BY <1>1 DEF Flight
<1>3. hnd' = [hnd EXCEPT ![h] = f]
  BY <1>1 DEF Advance, TypeOK
<1> HIDE DEF f
<1> QED
  BY <1>2, <1>3 DEF TypeOK

\* A sweep revokes the user's rows, marks the handlers it overtakes, ends.
LEMMA SweepFacts ==
  ASSUME TypeOK, NEW u \in User, NEW h \in Handler, RevokeAll(u, h)
  PROVE  /\ Revoking({s \in Session : sess[s].user = u})
         /\ hnd' \in [Handler -> Flight \cup {Idle}]
         /\ hnd'[h] = Idle
         /\ \A g \in Handler \ {h} :
              /\ hnd'[g].step = hnd[g].step
              /\ hnd[g] # Idle =>
                   /\ hnd'[g].user = hnd[g].user
                   /\ hnd'[g].sess = hnd[g].sess
                   /\ hnd'[g].pwd = hnd[g].pwd
                   /\ hnd[g].late => hnd'[g].late
                   /\ InFlight(hnd[g]) /\ hnd[g].user = u => hnd'[g].late
         /\ owed' = [owed EXCEPT ![u] = FALSE]
<1>1. Revoking({s \in Session : sess[s].user = u})
  BY DEF RevokeAll, Revoking
<1>2. \A g \in Handler :
        hnd[g] \in Flight =>
          LET f == [hnd[g] EXCEPT !.late = TRUE] IN
          /\ f \in Flight /\ f.late = TRUE
          /\ f.step = hnd[g].step /\ f.user = hnd[g].user
          /\ f.sess = hnd[g].sess /\ f.pwd = hnd[g].pwd
  BY DEF Flight
<1>3. \A g \in Handler : InFlight(hnd[g]) => hnd[g] \in Flight
  BY Shapes DEF InFlight
<1>4. \A g \in Handler :
        hnd'[g] = IF g = h THEN Idle
                  ELSE IF InFlight(hnd[g]) /\ hnd[g].user = u
                  THEN [hnd[g] EXCEPT !.late = TRUE] ELSE hnd[g]
  BY DEF RevokeAll
<1>5. hnd' \in [Handler -> Flight \cup {Idle}]
  BY <1>2, <1>3, <1>4 DEF RevokeAll, TypeOK
<1>6. \A g \in Handler \ {h} :
        /\ hnd'[g].step = hnd[g].step
        /\ hnd[g] # Idle =>
             /\ hnd'[g].user = hnd[g].user
             /\ hnd'[g].sess = hnd[g].sess
             /\ hnd'[g].pwd = hnd[g].pwd
             /\ hnd[g].late => hnd'[g].late
             /\ InFlight(hnd[g]) /\ hnd[g].user = u => hnd'[g].late
  <2> TAKE g \in Handler \ {h}
  <2>1. CASE InFlight(hnd[g]) /\ hnd[g].user = u
    BY <2>1, <1>2, <1>3, <1>4
  <2>2. CASE ~ (InFlight(hnd[g]) /\ hnd[g].user = u)
    BY <2>2, <1>4
  <2> QED
    BY <2>1, <2>2
<1> QED
  BY <1>1, <1>4, <1>5, <1>6 DEF RevokeAll

-----------------------------------------------------------------------------
\* Types are kept by every step.
LEMMA NextTypeOK == TypeOK /\ HandlerInv /\ [Next]_vars => TypeOK'
<1> SUFFICES ASSUME TypeOK, HandlerInv, [Next]_vars PROVE TypeOK'
  OBVIOUS
<1> USE NoSessionAssumption, LifetimeAssumption
<1>f. \A st \in Steps, u \in User, x \in Session \cup {NoSession},
         n \in Nat, b \in BOOLEAN :
        [step |-> st, user |-> u, sess |-> x, pwd |-> n, late |-> b] \in Flight
  BY DEF Flight
<1>1. ASSUME NEW h \in Handler, NEW u \in User, LoginVerify(h, u) PROVE TypeOK'
  <2>1. hnd' \in [Handler -> Flight \cup {Idle}]
    BY <1>1, <1>f, StartFacts DEF LoginVerify, TypeOK, Steps
  <2> QED
    BY <1>1, <2>1 DEF LoginVerify, TypeOK
<1>2. ASSUME NEW h \in Handler, NEW u \in User, ResetHash(h, u) PROVE TypeOK'
  <2>1. hnd' \in [Handler -> Flight \cup {Idle}]
    BY <1>2, <1>f, StartFacts DEF ResetHash, Steps
  <2> QED
    BY <1>2, <2>1 DEF ResetHash, TypeOK
<1>3. ASSUME NEW h \in Handler, NEW u \in User, Deactivate(h, u) PROVE TypeOK'
  <2>1. hnd' \in [Handler -> Flight \cup {Idle}]
    BY <1>3, <1>f, StartFacts DEF Deactivate, Steps
  <2> QED
    BY <1>3, <2>1 DEF Deactivate, TypeOK
<1>4. ASSUME NEW h \in Handler, NEW s \in Session, Issue(h, s) PROVE TypeOK'
  <2>1. hnd[h] \in Flight
    BY <1>4, Shapes DEF Issue
  <2>2. sess' \in [Session -> Row \cup {Unused}]
    BY <1>4, <2>1 DEF Issue, Insert, TypeOK, Row, Flight
  <2> QED
    BY <1>4, <2>2, FinishFacts DEF Issue, TypeOK
<1>5. ASSUME NEW h \in Handler, NEW s \in Session,
             RefreshLookup(h, s) \/ LogoutLookup(h, s) \/ BearerSession(h, s)
      PROVE TypeOK'
  <2>1. sess[s] \in Row
    BY <1>5, Shapes
    DEF RefreshLookup, LogoutLookup, BearerSession, Usable, Active, Live
  <2>2. sess[s].user \in User /\ sess[s].pwd \in Nat /\ sess[s].late \in BOOLEAN
    BY <2>1 DEF Row
  <2>3. hnd' \in [Handler -> Flight \cup {Idle}]
    BY <1>5, <2>2, <1>f, StartFacts
    DEF RefreshLookup, LogoutLookup, BearerSession, Steps
  <2> QED
    BY <1>5, <2>3 DEF RefreshLookup, LogoutLookup, BearerSession, TypeOK
<1>6. ASSUME NEW h \in Handler, RefreshRevoke(h) \/ LogoutRevoke(h)
      PROVE TypeOK'
  <2>1. hnd[h].sess \in Session /\ hnd[h] # Idle
    BY <1>6, Shapes DEF RefreshRevoke, LogoutRevoke, HandlerInv, Idle
  <2>2. sess' \in [Session -> Row \cup {Unused}]
    BY <1>6, <2>1, RevokeIsRevoking, RevokingFacts
    DEF RefreshRevoke, LogoutRevoke
  <2>3. hnd' \in [Handler -> Flight \cup {Idle}]
    BY <1>6, <2>1, AdvanceFacts, FinishFacts
    DEF RefreshRevoke, LogoutRevoke, Steps
  <2> QED
    BY <1>6, <2>2, <2>3 DEF RefreshRevoke, LogoutRevoke, TypeOK
<1>7. ASSUME NEW h \in Handler, BearerUser(h) \/ ChangeVerify(h)
      PROVE TypeOK'
  <2>1. hnd[h] # Idle
    BY <1>7, Shapes DEF BearerUser, ChangeVerify, Idle
  <2>2. hnd' \in [Handler -> Flight \cup {Idle}]
    BY <1>7, <2>1, AdvanceFacts DEF BearerUser, ChangeVerify, Steps
  <2> QED
    BY <1>7, <2>2 DEF BearerUser, ChangeVerify, TypeOK
<1>8. ASSUME NEW h \in Handler, ChangeHash(h) PROVE TypeOK'
  <2>1. hnd[h] \in Flight /\ hnd[h] # Idle
    BY <1>8, Shapes DEF ChangeHash, Idle
  <2>2. hnd[h].user \in User
    BY <2>1 DEF Flight
  <2>3. hnd' \in [Handler -> Flight \cup {Idle}]
    BY <1>8, <2>1, AdvanceFacts DEF ChangeHash, Steps
  <2> QED
    BY <1>8, <2>2, <2>3 DEF ChangeHash, TypeOK
<1>9. ASSUME NEW h \in Handler, Sweep(h) PROVE TypeOK'
  <2>1. hnd[h] \in Flight
    BY <1>9, Shapes DEF Sweep
  <2>2. hnd[h].user \in User
    BY <2>1 DEF Flight
  <2>3. /\ Revoking({s \in Session : sess[s].user = hnd[h].user})
        /\ hnd' \in [Handler -> Flight \cup {Idle}]
        /\ owed' = [owed EXCEPT ![hnd[h].user] = FALSE]
    BY <1>9, <2>2, SweepFacts DEF Sweep
  <2>4. sess' \in [Session -> Row \cup {Unused}]
    BY <2>3, RevokingFacts
  <2> QED
    BY <1>9, <2>3, <2>4 DEF Sweep, TypeOK
<1>10. ASSUME NEW h \in Handler, Drop(h) PROVE TypeOK'
  BY <1>10, FinishFacts DEF Drop, TypeOK
<1>11. ASSUME NEW u \in User, Activate(u) PROVE TypeOK'
  BY <1>11 DEF Activate, TypeOK
<1>12. CASE Tick
  BY <1>12 DEF Tick, TypeOK
<1>13. CASE UNCHANGED vars
  BY <1>13 DEF vars, TypeOK
<1> QED
  BY <1>1, <1>2, <1>3, <1>4, <1>5, <1>6, <1>7, <1>8, <1>9, <1>10, <1>11,
     <1>12, <1>13
  DEF Next

\* A step that inserts nothing keeps what the rows say of one another and
\* what the handlers hold of them.
LEMMA TableKept ==
  ASSUME TypeOK, HandlerInv, ParentRevoked,
         sess' = sess \/ \E S : Revoking(S)
  PROVE  /\ ParentRevoked'
         /\ \A g \in Handler :
              /\ hnd[g].step \in {"rotate", "logout"} =>
                    hnd[g].sess \in Session /\ sess'[hnd[g].sess] # Unused
              /\ hnd[g].step = "issue" /\ hnd[g].sess # NoSession =>
                    sess'[hnd[g].sess].state = "revoked"
         /\ \A s \in Session :
              /\ sess'[s].state = "live" => sess'[s] = sess[s]
              /\ sess[s] # Unused => sess'[s] # Unused
<1>1. \A s \in Session :
        /\ sess[s] # Unused => sess'[s] # Unused
        /\ sess[s].state = "revoked" => sess'[s].state = "revoked"
        /\ sess'[s].state = "live" => sess'[s] = sess[s]
        /\ sess'[s] # Unused =>
              sess[s] # Unused /\ sess'[s].parent = sess[s].parent
  <2>1. CASE sess' = sess
    BY <2>1
  <2>2. ASSUME NEW S, Revoking(S)
        PROVE \A s \in Session :
                /\ sess[s] # Unused => sess'[s] # Unused
                /\ sess[s].state = "revoked" => sess'[s].state = "revoked"
                /\ sess'[s].state = "live" => sess'[s] = sess[s]
                /\ sess'[s] # Unused =>
                      sess[s] # Unused /\ sess'[s].parent = sess[s].parent
    BY <2>2, RevokingFacts
  <2> QED
    BY <2>1, <2>2
<1>2. \A s \in Session :
        sess[s] # Unused => sess[s].parent \in Session \cup {NoSession}
  BY Shapes DEF Row
<1>3. ParentRevoked'
  BY <1>1, <1>2 DEF ParentRevoked
<1>4. \A g \in Handler :
        hnd[g].step = "issue" => hnd[g].sess \in Session \cup {NoSession}
  BY Shapes DEF Flight
<1> QED
  BY <1>1, <1>3, <1>4 DEF HandlerInv

\* The rest of the inductive invariant, action by action.
LEMMA NextInv ==
  IInv /\ TypeOK' /\ [Next]_vars =>
    HandlerInv' /\ ParentRevoked' /\ FlightInv' /\ OutdatedOnlyByOverlap'
<1> SUFFICES ASSUME IInv, TypeOK', [Next]_vars
             PROVE HandlerInv' /\ ParentRevoked' /\ FlightInv'
                   /\ OutdatedOnlyByOverlap'
  OBVIOUS
<1> USE NoSessionAssumption
<1> USE DEF IInv
<1> DEFINE Goal == HandlerInv' /\ ParentRevoked' /\ FlightInv'
                   /\ OutdatedOnlyByOverlap'
\* The account of a live row, or of a handler in flight, is fine or excused.
<1>o. \A s \in Session :
        sess[s].state = "live" =>
          \/ sess[s].late \/ owed[sess[s].user]
          \/ /\ sess[s].pwd >= user[sess[s].user].pwd
             /\ user[sess[s].user].active
  <2>1. \A s \in Session : sess[s].state = "live" =>
          sess[s].user \in User /\ sess[s].pwd \in Nat
    BY Shapes DEF Row
  <2>2. \A u \in User : user[u].pwd \in Nat
    BY DEF TypeOK
  <2> QED
    BY <2>1, <2>2 DEF OutdatedOnlyByOverlap, Outdated, Live
<1>p. ASSUME \A s \in Session :
               sess'[s].state = "live" =>
                 \/ sess'[s].late \/ owed'[sess'[s].user]
                 \/ /\ sess'[s].pwd >= user'[sess'[s].user].pwd
                    /\ user'[sess'[s].user].active
      PROVE OutdatedOnlyByOverlap'
  <2>1. \A s \in Session : sess'[s].state = "live" =>
          sess'[s].user \in User /\ sess'[s].pwd \in Nat
    BY DEF TypeOK, Row, Unused
  <2>2. \A u \in User : user'[u].pwd \in Nat
    BY DEF TypeOK
  <2> QED
    BY <1>p, <2>1, <2>2 DEF OutdatedOnlyByOverlap, Outdated, Live
<1>1. ASSUME NEW h \in Handler, NEW u \in User, LoginVerify(h, u) PROVE Goal
  <2> DEFINE f == [step |-> "issue", user |-> u, sess |-> NoSession,
                   pwd |-> user[u].pwd, late |-> FALSE]
  <2>1. f \in Flight
    BY DEF TypeOK, Flight, Steps
  <2>2. hnd'[h] = f /\ \A g \in Handler \ {h} : hnd'[g] = hnd[g]
    BY <1>1, <2>1, StartFacts DEF LoginVerify
  <2>3. f.step = "issue" /\ f.sess = NoSession /\ f.user = u
        /\ f.pwd = user[u].pwd /\ user[u].pwd \in Nat
    BY DEF TypeOK
  <2> HIDE DEF f
  <2>4. HandlerInv' /\ ParentRevoked'
    BY <1>1, <2>2, <2>3, TableKept DEF LoginVerify, HandlerInv
  <2>5. FlightInv'
    BY <1>1, <2>2, <2>3 DEF LoginVerify, FlightInv, InFlight
  <2>6. OutdatedOnlyByOverlap'
    BY <1>1 DEF LoginVerify, OutdatedOnlyByOverlap, Outdated, Live
  <2> QED
    BY <2>4, <2>5, <2>6
<1>2. ASSUME NEW h \in Handler, NEW u \in User,
             ResetHash(h, u) \/ Deactivate(h, u)
      PROVE Goal
  <2> DEFINE f == [step |-> "sweep", user |-> u, sess |-> NoSession,
                   pwd |-> 0, late |-> FALSE]
  <2>1. f \in Flight
    BY DEF Flight, Steps
  <2>2. hnd'[h] = f /\ \A g \in Handler \ {h} : hnd'[g] = hnd[g]
    BY <1>2, <2>1, StartFacts DEF ResetHash, Deactivate
  <2>3. f.step = "sweep"
    OBVIOUS
  <2>4. owed'[u] = TRUE
        /\ \A v \in User \ {u} : owed'[v] = owed[v] /\ user'[v] = user[v]
    BY <1>2 DEF ResetHash, Deactivate, TypeOK
  <2> HIDE DEF f
  <2>5. HandlerInv' /\ ParentRevoked'
    BY <1>2, <2>2, <2>3, TableKept DEF ResetHash, Deactivate, HandlerInv
  <2>6. \A g \in Handler : InFlight(hnd[g]) => hnd[g].user \in User
    BY Shapes DEF InFlight, Flight
  <2>7. FlightInv'
    BY <2>2, <2>3, <2>4, <2>6 DEF FlightInv, InFlight
  <2>8. \A s \in Session : sess[s].state = "live" => sess[s].user \in User
    BY Shapes DEF Row
  <2>9. sess' = sess
    BY <1>2 DEF ResetHash, Deactivate
  <2>10. OutdatedOnlyByOverlap'
    BY <2>4, <2>8, <2>9, <1>o, <1>p
  <2> QED
    BY <2>5, <2>7, <2>10
<1>3. ASSUME NEW h \in Handler, NEW s \in Session, Issue(h, s) PROVE Goal
  <2> DEFINE row == [state |-> "live", user |-> hnd[h].user, issued |-> now,
                     expires |-> now + IdleTimeout, parent |-> hnd[h].sess,
                     pwd |-> hnd[h].pwd, late |-> hnd[h].late]
  <2>1. sess[s] = Unused /\ sess' = [sess EXCEPT ![s] = row]
    BY <1>3 DEF Issue, Insert
  <2>2. row.state = "live" /\ row.user = hnd[h].user
        /\ row.parent = hnd[h].sess /\ row.pwd = hnd[h].pwd
        /\ row.late = hnd[h].late /\ row # Unused
    BY DEF Unused
  <2> HIDE DEF row
  <2>3. sess'[s] = row /\ \A t \in Session \ {s} : sess'[t] = sess[t]
    BY <2>1 DEF TypeOK
  <2>4. hnd'[h] = Idle /\ \A g \in Handler \ {h} : hnd'[g] = hnd[g]
    BY <1>3, FinishFacts DEF Issue
  <2>5. /\ \A t \in Session : sess[t] # Unused =>
              sess[t].parent \in Session \cup {NoSession}
        /\ \A g \in Handler : hnd[g].step = "issue" =>
              hnd[g].sess \in Session \cup {NoSession}
        /\ sess[s].state = "unused"
    BY <2>1, Shapes DEF Row, Flight, Unused
  <2>6. HandlerInv'
    BY <2>1, <2>2, <2>3, <2>4, <2>5 DEF HandlerInv, Idle
  <2>7. ParentRevoked'
    BY <1>3, <2>2, <2>3, <2>5 DEF ParentRevoked, HandlerInv, Issue
  <2>8. FlightInv'
    BY <1>3, <2>4 DEF Issue, FlightInv, InFlight, Idle
  <2>9. InFlight(hnd[h])
    BY <1>3 DEF Issue, InFlight
  <2>10. user' = user /\ owed' = owed
    BY <1>3 DEF Issue
  <2>11. OutdatedOnlyByOverlap'
    BY <2>2, <2>3, <2>9, <2>10, <1>o, <1>p DEF FlightInv
  <2> QED
    BY <2>6, <2>7, <2>8, <2>11
<1>4. ASSUME NEW h \in Handler, NEW s \in Session,
             RefreshLookup(h, s) \/ LogoutLookup(h, s) \/ BearerSession(h, s)
      PROVE Goal
  <2>1. sess[s].state = "live" /\ sess[s] \in Row /\ sess[s] # Unused
    BY <1>4, Shapes
    DEF RefreshLookup, LogoutLookup, BearerSession, Usable, Active, Live
  <2>2. sess[s].user \in User /\ sess[s].pwd \in Nat /\ sess[s].late \in BOOLEAN
    BY <2>1 DEF Row
  <2>3. PICK st \in {"rotate", "logout", "user"} :
          Start(h, [step |-> st, user |-> sess[s].user, sess |-> s,
                    pwd |-> sess[s].pwd, late |-> sess[s].late])
    BY <1>4 DEF RefreshLookup, LogoutLookup, BearerSession
  <2> DEFINE f == [step |-> st, user |-> sess[s].user, sess |-> s,
                   pwd |-> sess[s].pwd, late |-> sess[s].late]
  <2>4. f \in Flight
    BY <2>2 DEF Flight, Steps
  <2>5. f.step = st /\ f.sess = s /\ f.user = sess[s].user
        /\ f.pwd = sess[s].pwd /\ f.late = sess[s].late
    OBVIOUS
  <2>6. hnd'[h] = f /\ \A g \in Handler \ {h} : hnd'[g] = hnd[g]
    BY <2>3, <2>4, StartFacts
  <2> HIDE DEF f
  <2>7. user' = user /\ owed' = owed /\ sess' = sess
    BY <1>4 DEF RefreshLookup, LogoutLookup, BearerSession
  <2>8. HandlerInv' /\ ParentRevoked'
    BY <2>1, <2>3, <2>5, <2>6, <2>7, TableKept DEF HandlerInv
  <2>9. FlightInv'
    BY <2>1, <2>5, <2>6, <2>7, <1>o DEF FlightInv, InFlight
  <2>10. OutdatedOnlyByOverlap'
    BY <2>7 DEF OutdatedOnlyByOverlap, Outdated, Live
  <2> QED
    BY <2>8, <2>9, <2>10
<1>5. ASSUME NEW h \in Handler, RefreshRevoke(h) \/ LogoutRevoke(h)
      PROVE Goal
  <2>1. hnd[h].sess \in Session /\ hnd[h] # Idle
        /\ sess[hnd[h].sess] # Unused
    BY <1>5, Shapes DEF RefreshRevoke, LogoutRevoke, HandlerInv, Idle
  <2>2. Revoking({hnd[h].sess})
    BY <1>5, <2>1, RevokeIsRevoking DEF RefreshRevoke, LogoutRevoke
  <2>3. user' = user /\ owed' = owed
    BY <1>5 DEF RefreshRevoke, LogoutRevoke
  <2>4. sess'[hnd[h].sess].state = "revoked"
    BY <2>1, <2>2, RevokingFacts
  <2>5. \A g \in Handler \ {h} : hnd'[g] = hnd[g]
    BY <1>5, <2>1, AdvanceFacts, FinishFacts DEF RefreshRevoke, LogoutRevoke, Steps
  <2>6. \/ hnd'[h] = Idle
        \/ /\ hnd[h].step = "rotate" /\ hnd'[h].step = "issue"
           /\ hnd'[h].user = hnd[h].user /\ hnd'[h].sess = hnd[h].sess
           /\ hnd'[h].pwd = hnd[h].pwd /\ hnd'[h].late = hnd[h].late
    BY <1>5, <2>1, AdvanceFacts, FinishFacts DEF RefreshRevoke, LogoutRevoke, Steps
  <2>7. HandlerInv' /\ ParentRevoked'
    BY <2>2, <2>4, <2>5, <2>6, TableKept DEF HandlerInv, Idle
  <2>8. FlightInv'
    BY <2>3, <2>5, <2>6 DEF FlightInv, InFlight, Idle
  <2>9. OutdatedOnlyByOverlap'
    BY <2>2, <2>3, TableKept, <1>o, <1>p
  <2> QED
    BY <2>7, <2>8, <2>9
<1>6. ASSUME NEW h \in Handler, BearerUser(h) \/ ChangeVerify(h)
      PROVE Goal
  <2>1. hnd[h] # Idle
    BY <1>6, Shapes DEF BearerUser, ChangeVerify, Idle
  <2>2. /\ hnd'[h].step \in {"inside", "hash"}
        /\ \A g \in Handler \ {h} : hnd'[g] = hnd[g]
    BY <1>6, <2>1, AdvanceFacts DEF BearerUser, ChangeVerify, Steps
  <2>3. user' = user /\ owed' = owed /\ sess' = sess
    BY <1>6 DEF BearerUser, ChangeVerify
  <2>4. HandlerInv' /\ ParentRevoked'
    BY <2>2, <2>3, TableKept DEF HandlerInv
  <2>5. FlightInv'
    BY <2>2, <2>3 DEF FlightInv, InFlight
  <2>6. OutdatedOnlyByOverlap'
    BY <2>3 DEF OutdatedOnlyByOverlap, Outdated, Live
  <2> QED
    BY <2>4, <2>5, <2>6
<1>7. ASSUME NEW h \in Handler, ChangeHash(h) PROVE Goal
  <2> DEFINE u == hnd[h].user
  <2>1. hnd[h] \in Flight /\ hnd[h] # Idle
    BY <1>7, Shapes DEF ChangeHash, Idle
  <2>2. u \in User
    BY <2>1 DEF Flight
  <2>3. /\ hnd'[h].step = "sweep"
        /\ \A g \in Handler \ {h} : hnd'[g] = hnd[g]
    BY <1>7, <2>1, AdvanceFacts DEF ChangeHash, Steps
  <2>4. owed'[u] = TRUE
        /\ \A v \in User \ {u} : owed'[v] = owed[v] /\ user'[v] = user[v]
    BY <1>7, <2>2 DEF ChangeHash, TypeOK
  <2>5. sess' = sess
    BY <1>7 DEF ChangeHash
  <2> HIDE DEF u
  <2>6. HandlerInv' /\ ParentRevoked'
    BY <2>3, <2>5, TableKept DEF HandlerInv
  <2>7. \A g \in Handler : InFlight(hnd[g]) => hnd[g].user \in User
    BY Shapes DEF InFlight, Flight
  <2>8. FlightInv'
    BY <2>3, <2>4, <2>7 DEF FlightInv, InFlight
  <2>9. \A s \in Session : sess[s].state = "live" => sess[s].user \in User
    BY Shapes DEF Row
  <2>10. OutdatedOnlyByOverlap'
    BY <2>4, <2>5, <2>9, <1>o, <1>p
  <2> QED
    BY <2>6, <2>8, <2>10
<1>8. ASSUME NEW h \in Handler, Sweep(h) PROVE Goal
  <2> DEFINE u == hnd[h].user
             S == {s \in Session : sess[s].user = u}
  <2>1. u \in User
    BY <1>8, Shapes DEF Sweep, Flight
  <2>2. /\ Revoking(S)
        /\ hnd'[h] = Idle
        /\ \A g \in Handler \ {h} :
             /\ hnd'[g].step = hnd[g].step
             /\ hnd[g] # Idle =>
                  /\ hnd'[g].user = hnd[g].user
                  /\ hnd'[g].sess = hnd[g].sess
                  /\ hnd'[g].pwd = hnd[g].pwd
                  /\ hnd[g].late => hnd'[g].late
                  /\ InFlight(hnd[g]) /\ hnd[g].user = u => hnd'[g].late
        /\ owed' = [owed EXCEPT ![u] = FALSE]
    BY <1>8, <2>1, SweepFacts DEF Sweep
  <2>3. \A v \in User \ {u} : owed'[v] = owed[v]
    BY <2>2 DEF TypeOK
  <2>4. \A s \in Session :
          sess'[s].state = "live" => sess'[s] = sess[s] /\ sess[s].user # u
    BY <2>2, RevokingFacts
  <2> HIDE DEF u, S
  <2>5. user' = user
    BY <1>8 DEF Sweep
  <2>6. \A g \in Handler :
          hnd[g].step \in {"rotate", "logout", "issue"} => hnd[g] # Idle
    BY DEF Idle
  <2>7. HandlerInv' /\ ParentRevoked'
    BY <2>2, <2>6, TableKept DEF HandlerInv, Idle
  <2>8. \A g \in Handler : InFlight(hnd[g]) => hnd[g].user \in User
    BY Shapes DEF InFlight, Flight
  <2>9. FlightInv'
    BY <2>2, <2>3, <2>5, <2>6, <2>8 DEF FlightInv, InFlight, Idle
  <2>10. \A s \in Session : sess[s].state = "live" => sess[s].user \in User
    BY Shapes DEF Row
  <2>11. OutdatedOnlyByOverlap'
    BY <2>3, <2>4, <2>5, <2>10, <1>o, <1>p
  <2> QED
    BY <2>7, <2>9, <2>11
<1>9. ASSUME NEW h \in Handler, Drop(h) PROVE Goal
  <2>1. hnd'[h] = Idle /\ \A g \in Handler \ {h} : hnd'[g] = hnd[g]
    BY <1>9, FinishFacts DEF Drop
  <2>2. user' = user /\ owed' = owed /\ sess' = sess
    BY <1>9 DEF Drop
  <2>3. HandlerInv' /\ ParentRevoked'
    BY <2>1, <2>2, TableKept DEF HandlerInv, Idle
  <2>4. FlightInv'
    BY <2>1, <2>2 DEF FlightInv, InFlight, Idle
  <2>5. OutdatedOnlyByOverlap'
    BY <2>2 DEF OutdatedOnlyByOverlap, Outdated, Live
  <2> QED
    BY <2>3, <2>4, <2>5
<1>10. ASSUME NEW u \in User, Activate(u) PROVE Goal
  <2>1. hnd' = hnd /\ owed' = owed /\ sess' = sess
    BY <1>10 DEF Activate
  <2>2. \A v \in User : /\ user'[v].pwd = user[v].pwd
                        /\ user[v].active => user'[v].active
    BY <1>10 DEF Activate, TypeOK
  <2>3. HandlerInv' /\ ParentRevoked'
    BY <2>1, TableKept DEF HandlerInv
  <2>4. \A g \in Handler : InFlight(hnd[g]) => hnd[g].user \in User
    BY Shapes DEF InFlight, Flight
  <2>5. FlightInv'
    BY <2>1, <2>2, <2>4 DEF FlightInv, InFlight
  <2>6. \A s \in Session : sess[s].state = "live" => sess[s].user \in User
    BY Shapes DEF Row
  <2>7. OutdatedOnlyByOverlap'
    BY <2>1, <2>2, <2>6, <1>o, <1>p
  <2> QED
    BY <2>3, <2>5, <2>7
<1>11. CASE Tick \/ UNCHANGED vars
  <2>1. hnd' = hnd /\ owed' = owed /\ sess' = sess /\ user' = user
    BY <1>11 DEF Tick, vars
  <2> QED
    BY <2>1 DEF HandlerInv, ParentRevoked, FlightInv, InFlight,
                OutdatedOnlyByOverlap, Outdated, Live
<1> QED
  BY <1>1, <1>2, <1>3, <1>4, <1>5, <1>6, <1>7, <1>8, <1>9, <1>10, <1>11
  DEF Next

\* The inductive invariant holds in every state of every behaviour.
THEOREM Inductive == Spec => []IInv
<1>1. IInv /\ [Next]_vars => IInv'
  BY NextTypeOK, NextInv DEF IInv
<1> QED
  BY InitIInv, <1>1, PTL DEF Spec

\* Rows, accounts and handlers keep their types.
THEOREM TypeCorrect == Spec => []TypeOK
<1>1. IInv => TypeOK
  BY DEF IInv
<1> QED
  BY Inductive, <1>1, PTL

\* For any number of refreshes cut off anywhere, a token that still works has
\* not been exchanged for another.
THEOREM NoLiveParent == Spec => []LiveHasNoChild
<1>1. IInv => LiveHasNoChild
  BY NoSessionAssumption
  DEF IInv, ParentRevoked, LiveHasNoChild, Children, Used, Live
<1> QED
  BY Inductive, <1>1, PTL

\* A session outlives a password change or a deactivation only while the sweep
\* is still to come, or if it was read before the sweep and inserted after.
THEOREM OnlyOverlapOutlives == Spec => []OutdatedOnlyByOverlap
<1>1. IInv => OutdatedOnlyByOverlap
  BY DEF IInv
<1> QED
  BY Inductive, <1>1, PTL

\* No step revives a revoked row or rewrites what a row records.
THEOREM RevocationIsFinal == Spec => RevokedIsFinal
<1> DEFINE Final == \A s \in Used :
                      /\ sess[s].state = "revoked" => sess'[s] = sess[s]
                      /\ sess'[s] \in {sess[s], Revoked(sess[s])}
<1>1. IInv /\ [Next]_vars => Final
  <2> SUFFICES ASSUME IInv, [Next]_vars PROVE Final
    OBVIOUS
  <2> USE DEF IInv
  <2>1. CASE sess' = sess
    BY <2>1 DEF Used
  <2>2. ASSUME NEW S, Revoking(S) PROVE Final
    BY <2>2, RevokingFacts DEF Used
  <2>3. ASSUME NEW h \in Handler, NEW s \in Session, Issue(h, s) PROVE Final
    BY <2>3 DEF Issue, Insert, Used, TypeOK
  <2>4. ASSUME NEW h \in Handler, RefreshRevoke(h) \/ LogoutRevoke(h)
        PROVE Final
    <3>1. hnd[h].sess \in Session
      BY <2>4 DEF RefreshRevoke, LogoutRevoke, HandlerInv
    <3> QED
      BY <2>2, <2>4, <3>1, RevokeIsRevoking DEF RefreshRevoke, LogoutRevoke
  <2>5. ASSUME NEW h \in Handler, Sweep(h) PROVE Final
    <3>1. hnd[h].user \in User
      BY <2>5, Shapes DEF Sweep, Flight
    <3> QED
      BY <2>2, <2>5, <3>1, SweepFacts DEF Sweep
  <2> QED
    BY <2>1, <2>3, <2>4, <2>5
    DEF Next, LoginVerify, ResetHash, Deactivate, RefreshLookup, LogoutLookup,
        BearerSession, BearerUser, ChangeVerify, ChangeHash, Drop, Activate,
        Tick, vars
<1> QED
  BY Inductive, <1>1, PTL DEF Spec, RevokedIsFinal
=============================================================================
