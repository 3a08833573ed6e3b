------------------------- MODULE AlertEvaluatorProofs -------------------------
(***************************************************************************)
(* Safety of AlertEvaluator for any rules, users, values and handlers, and *)
(* any number of edits, faults and passes.                                 *)
(***************************************************************************)
EXTENDS AlertEvaluator, SequenceTheorems, FiniteSetTheorems, TLAPS

\* What the pass has in hand, and what it has found out about it.
PassInv ==
    /\ pc \notin {"idle", "next"} => cur \in Loaded
    /\ pc \in {"window", "fire"} => Open(cur.rule) = {}
    /\ pc = "insert" => who \in User /\ who \notin pending

\* A rule's open events are one and the same.
AtMostOne ==
    \A e, f \in DOMAIN events :
        /\ events[e].state = "open" /\ events[f].state = "open"
        /\ events[e].rule = events[f].rule
        => e = f

\* The user may still be told of the last event in this pass.
Awaiting(u) ==
    \/ pc = "users"
    \/ pc \in {"emit", "insert"} /\ u \in pending
    \/ pc = "insert" /\ who = u

\* Notices come in the order of the events, and a user who may still be told
\* of the last event has not been told of it.
NoticeInv ==
    \A u \in User :
        /\ \A i \in DOMAIN notices[u] : notices[u][i] \in DOMAIN events
        /\ \A i, j \in DOMAIN notices[u] :
              i < j => notices[u][i] < notices[u][j]
        /\ Awaiting(u) =>
              /\ events # <<>>
              /\ \A i \in DOMAIN notices[u] : notices[u][i] # Len(events)

\* A barred user is opted out, is not the one being told, and was not told.
BarredInv ==
    \A u \in barred :
        /\ ~ subs[u]
        /\ ~ (pc = "insert" /\ who = u)
        /\ \A i \in DOMAIN notices[u] : notices[u][i] # Len(events)

IInv == TypeOK /\ PassInv /\ AtMostOne /\ NoticeInv /\ BarredInv

-----------------------------------------------------------------------------
LEMMA InitIInv == Init => IInv
<1> SUFFICES ASSUME Init PROVE IInv
  OBVIOUS
<1>1. TypeOK
  BY DEF Init, TypeOK, Phase
<1>2. PassInv /\ AtMostOne /\ NoticeInv /\ BarredInv
  BY DEF Init, PassInv, AtMostOne, NoticeInv, BarredInv, Awaiting
<1> QED
  BY <1>1, <1>2 DEF IInv

\* Rewriting the states of the events keeps their number and their types.
LEMMA Relabel ==
  ASSUME events \in Seq(Event),
         NEW S, NEW st \in {"open", "resolved", "gone"},
         events' = [e \in DOMAIN events |->
                      IF e \in S THEN [events[e] EXCEPT !.state = st]
                      ELSE events[e]]
  PROVE  /\ events' \in Seq(Event)
         /\ Len(events') = Len(events)
         /\ DOMAIN events' = DOMAIN events
         /\ \A e \in DOMAIN events :
              /\ events'[e].rule = events[e].rule
              /\ events'[e].state = IF e \in S THEN st ELSE events[e].state
<1>1. \A e \in DOMAIN events : events[e] \in Event
  OBVIOUS
<1>2. \A ev \in Event : /\ [ev EXCEPT !.state = st] \in Event
                        /\ [ev EXCEPT !.state = st].rule = ev.rule
                        /\ [ev EXCEPT !.state = st].state = st
  BY DEF Event
<1>3. DOMAIN events = 1 .. Len(events) /\ Len(events) \in Nat
  OBVIOUS
<1>4. events' \in [1 .. Len(events) -> Event]
  BY <1>1, <1>2, <1>3
<1>5. events' \in Seq(Event) /\ Len(events') = Len(events)
  BY <1>3, <1>4, IsASeq, LenProperties
<1> QED
  BY <1>1, <1>2, <1>3, <1>5

\* A new event is the last one and leaves the others alone.
LEMMA Appended ==
  ASSUME events \in Seq(Event), NEW ev \in Event, events' = Append(events, ev)
  PROVE  /\ events' \in Seq(Event)
         /\ Len(events') = Len(events) + 1
         /\ DOMAIN events' = DOMAIN events \cup {Len(events) + 1}
         /\ Len(events) + 1 \notin DOMAIN events
         /\ \A e \in DOMAIN events : events'[e] = events[e]
         /\ events'[Len(events) + 1] = ev
  OBVIOUS

\* Fire and its event.
LEMMA FireFacts ==
  ASSUME TypeOK, PassInv, Fire, Live(cur.rule)
  PROVE  LET ev == [rule |-> cur.rule, state |-> "open", comp |-> at,
                    bad |-> cur.bad, hold |-> cur.hold]
         IN ev \in Event /\ events' = Append(events, ev)
<1>1. cur \in Loaded
  BY DEF Fire, PassInv
<1>2. cur.rule \in Rule /\ cur.bad \in Conditions /\ cur.hold \in Holds
  BY <1>1 DEF Loaded
<1> QED
  BY <1>2, HoldAssumption DEF Fire, Event, TypeOK

-----------------------------------------------------------------------------
\* The evaluator's steps keep the types.
LEMMA EvaluatorTypeOK == TypeOK /\ PassInv /\ Evaluator => TypeOK'
<1> SUFFICES ASSUME TypeOK, PassInv, Evaluator PROVE TypeOK'
  OBVIOUS
<1> USE DEF tableVars, passVars, Goto
<1>1. CASE LoadRules
  <2>1. \A r \in Rule : Live(r) => rule[r] \in Row
    <3>1. NoRow.state # "live" /\ Gone.state # "live"
      BY DEF NoRow, Gone
    <3> QED
      BY <3>1 DEF TypeOK, Live
  <2>2. todo' \subseteq Loaded
    BY <1>1, <2>1 DEF LoadRules, Loaded, Row
  <2> QED
    BY <1>1, <2>2 DEF LoadRules, TypeOK, Phase
<1>2. ASSUME NEW t \in todo, FetchLatest(t) PROVE TypeOK'
  <2>1. Len(comps) \in Nat /\ t \in Loaded
    BY DEF TypeOK
  <2> QED
    BY <1>2, <2>1 DEF FetchLatest, TypeOK, Phase
<1>3. CASE EndPass \/ CheckActive \/ CountWindow \/ LoadUsers \/ EndEmit
  BY <1>3 DEF EndPass, CheckActive, CountWindow, LoadUsers, EndEmit, TypeOK, Phase
<1>4. CASE Fire
  <2>1. CASE Live(cur.rule)
    <3>1. events' \in Seq(Event) /\ DOMAIN events \subseteq DOMAIN events'
      BY <1>4, <2>1, FireFacts, Appended DEF TypeOK
    <3> QED
      BY <1>4, <2>1, <3>1 DEF Fire, TypeOK, Phase
  <2>2. CASE ~ Live(cur.rule)
    BY <1>4, <2>2 DEF Fire, TypeOK, Phase
  <2> QED
    BY <2>1, <2>2
<1>5. CASE Resolve
  <2>1. events' \in Seq(Event) /\ DOMAIN events' = DOMAIN events
    BY <1>5, Relabel DEF Resolve, TypeOK
  <2> QED
    BY <1>5, <2>1 DEF Resolve, TypeOK, Phase
<1>6. ASSUME NEW u \in User, EmitCheck(u) PROVE TypeOK'
  BY <1>6 DEF EmitCheck, TypeOK, Phase
<1>7. CASE EmitInsert
  <2>1. Len(events) \in Nat
    BY DEF TypeOK
  <2>2. \A u \in User : Append(notices[u], Len(events)) \in Seq(Nat)
    BY <2>1 DEF TypeOK
  <2>3. notices' \in [User -> Seq(Nat)]
    BY <1>7, <2>2 DEF EmitInsert, TypeOK
  <2> QED
    BY <1>7, <2>3 DEF EmitInsert, TypeOK, Phase
<1> QED
  BY <1>1, <1>2, <1>3, <1>4, <1>5, <1>6, <1>7 DEF Evaluator

\* Everybody's steps keep the types.
LEMMA NextTypeOK == TypeOK /\ PassInv /\ [Next]_vars => TypeOK'
<1> SUFFICES ASSUME TypeOK, PassInv, [Next]_vars PROVE TypeOK'
  OBVIOUS
<1> USE DEF tableVars, passVars, Goto
<1>1. CASE StatementFails
  BY <1>1 DEF StatementFails, TypeOK, Phase
<1>2. CASE Crash
  BY <1>2 DEF Crash, TypeOK, Phase
<1>3. CASE Tick
  BY <1>3 DEF Tick, TypeOK
<1>4. ASSUME NEW v \in Value, Compute(v) PROVE TypeOK'
  BY <1>4 DEF Compute, TypeOK
<1>5. ASSUME NEW u \in User, NEW on \in BOOLEAN, Subscribe(u, on) PROVE TypeOK'
  BY <1>5 DEF Subscribe, TypeOK
<1>6. ASSUME NEW r \in Rule, NEW bad \in Conditions, NEW hold \in Holds,
             CreateRule(r, bad, hold)
      PROVE TypeOK'
  BY <1>6 DEF CreateRule, TypeOK, Row
<1>7. ASSUME NEW h \in Handler, NEW r \in Rule, NEW row \in Row,
             PatchRead(h, r, row)
      PROVE TypeOK'
  BY <1>7 DEF PatchRead, TypeOK
<1>8. ASSUME NEW h \in Handler, PatchWrite(h) PROVE TypeOK'
  <2>1. edit[h].rule \in Rule /\ edit[h].row \in Row
    BY <1>8 DEF PatchWrite, TypeOK
  <2> QED
    BY <1>8, <2>1 DEF PatchWrite, TypeOK
<1>9. ASSUME NEW h \in Handler, DropPatch(h) PROVE TypeOK'
  BY <1>9 DEF DropPatch, TypeOK
<1>10. ASSUME NEW r \in Rule, DeleteRule(r) PROVE TypeOK'
  <2> DEFINE S == {e \in DOMAIN events : events[e].rule = r}
  <2>1. events' = [e \in DOMAIN events |->
                     IF e \in S THEN [events[e] EXCEPT !.state = "gone"]
                     ELSE events[e]]
    BY <1>10 DEF DeleteRule
  <2> HIDE DEF S
  <2>2. events' \in Seq(Event) /\ DOMAIN events' = DOMAIN events
    BY <2>1, Relabel DEF TypeOK
  <2> QED
    BY <1>10, <2>2 DEF DeleteRule, TypeOK
<1>11. ASSUME NEW e \in DOMAIN events, AckEvent(e) PROVE TypeOK'
  BY <1>11 DEF AckEvent, TypeOK
<1>12. CASE UNCHANGED vars
  BY <1>12 DEF vars, TypeOK
<1> QED
  BY EvaluatorTypeOK, <1>1, <1>2, <1>3, <1>4, <1>5, <1>6, <1>7, <1>8, <1>9,
     <1>10, <1>11, <1>12
  DEF Next

-----------------------------------------------------------------------------
\* The rest of the invariant, through the steps of the evaluator.
LEMMA EvaluatorInv ==
  IInv /\ TypeOK' /\ Evaluator => PassInv' /\ AtMostOne' /\ NoticeInv' /\ BarredInv'
<1> SUFFICES ASSUME IInv, TypeOK', Evaluator
             PROVE PassInv' /\ AtMostOne' /\ NoticeInv' /\ BarredInv'
  OBVIOUS
<1> USE DEF IInv, tableVars, passVars, Goto
<1> DEFINE Goal == PassInv' /\ AtMostOne' /\ NoticeInv' /\ BarredInv'
\* A step that leaves the events and the notices alone and lets nobody wait
\* who did not wait before.
<1>q. ASSUME events' = events, notices' = notices, barred' = barred, subs' = subs,
             \A u \in User : Awaiting(u)' => Awaiting(u),
             \A u \in barred : ~ (pc' = "insert" /\ who' = u)
      PROVE AtMostOne' /\ NoticeInv' /\ BarredInv'
  BY <1>q DEF AtMostOne, NoticeInv, BarredInv
<1>1. CASE LoadRules \/ EndPass
  <2>1. pc' \in {"idle", "next"}
    BY <1>1 DEF LoadRules, EndPass
  <2>2. PassInv'
    BY <2>1 DEF PassInv
  <2> QED
    BY <1>1, <2>1, <2>2, <1>q DEF LoadRules, EndPass, Awaiting
<1>2. ASSUME NEW t \in todo, FetchLatest(t) PROVE Goal
  <2>1. PassInv'
    BY <1>2 DEF FetchLatest, PassInv, TypeOK
  <2> QED
    BY <1>2, <2>1, <1>q DEF FetchLatest, Awaiting
<1>3. CASE CheckActive \/ CountWindow
  <2>1. PassInv'
    BY <1>3 DEF CheckActive, CountWindow, PassInv, Open
  <2> QED
    BY <1>3, <2>1, <1>q DEF CheckActive, CountWindow, Awaiting
<1>4. CASE Fire
  <2>1. CASE ~ Live(cur.rule)
    <3>1. PassInv'
      BY <1>4, <2>1 DEF Fire, PassInv
    <3> QED
      BY <1>4, <2>1, <3>1, <1>q DEF Fire, Awaiting
  <2>2. CASE Live(cur.rule)
    <3> DEFINE ev == [rule |-> cur.rule, state |-> "open", comp |-> at,
                      bad |-> cur.bad, hold |-> cur.hold]
               n == Len(events) + 1
    <3>1. ev \in Event /\ events' = Append(events, ev)
      BY <1>4, <2>2, FireFacts
    <3>2. ev.rule = cur.rule
      OBVIOUS
    <3> HIDE DEF ev
    <3>3. /\ Len(events') = n
          /\ DOMAIN events' = DOMAIN events \cup {n}
          /\ n \notin DOMAIN events
          /\ \A e \in DOMAIN events : events'[e] = events[e]
          /\ events'[n] = ev
      BY <3>1, Appended DEF TypeOK
    <3> HIDE DEF n
    <3>4. PassInv'
      BY <1>4, <2>2 DEF Fire, PassInv
    <3>5. \A e \in DOMAIN events :
            events[e].state = "open" => events[e].rule # cur.rule
      BY <1>4 DEF Fire, PassInv, Open
    <3>6. AtMostOne'
      BY <3>2, <3>3, <3>5 DEF AtMostOne
    <3>7. \A u \in User : \A i \in DOMAIN notices[u] : notices[u][i] # n
      BY <3>3 DEF NoticeInv
    <3>8. notices' = notices /\ subs' = subs /\ pc' = "users"
          /\ barred' = {u \in User : ~ subs[u]}
      BY <1>4, <2>2 DEF Fire
    <3>9. NoticeInv'
      BY <3>3, <3>7, <3>8 DEF NoticeInv
    <3>10. BarredInv'
      BY <3>3, <3>7, <3>8 DEF BarredInv
    <3> QED
      BY <3>4, <3>6, <3>9, <3>10
  <2> QED
    BY <2>1, <2>2
<1>5. CASE Resolve
  <2>1. /\ Len(events') = Len(events)
        /\ DOMAIN events' = DOMAIN events
        /\ \A e \in DOMAIN events :
             /\ events'[e].rule = events[e].rule
             /\ events'[e].state = "open" => events[e].state = "open"
    BY <1>5, Relabel DEF Resolve, TypeOK
  <2>2. pc' = "next" /\ notices' = notices /\ barred' = barred /\ subs' = subs
    BY <1>5 DEF Resolve
  <2>3. PassInv'
    BY <2>2 DEF PassInv
  <2>4. AtMostOne'
    BY <2>1 DEF AtMostOne
  <2>5. NoticeInv' /\ BarredInv'
    BY <2>1, <2>2 DEF NoticeInv, BarredInv, Awaiting
  <2> QED
    BY <2>3, <2>4, <2>5
<1>6. CASE LoadUsers
  <2>1. PassInv'
    BY <1>6 DEF LoadUsers, PassInv
  <2> QED
    BY <1>6, <2>1, <1>q DEF LoadUsers, Awaiting
<1>7. ASSUME NEW u \in User, EmitCheck(u) PROVE Goal
  <2>1. PassInv'
    BY <1>7 DEF EmitCheck, PassInv
  <2>2. \A v \in barred : ~ (pc' = "insert" /\ who' = v)
    BY <1>7 DEF EmitCheck, BarredInv
  <2> QED
    BY <1>7, <2>1, <2>2, <1>q DEF EmitCheck, Awaiting
<1>8. CASE EmitInsert
  <2>1. who \in User /\ who \notin pending
    BY <1>8 DEF EmitInsert, PassInv
  <2> DEFINE n == Len(events)
  <2>2. events # <<>> /\ \A i \in DOMAIN notices[who] : notices[who][i] # n
    BY <1>8, <2>1 DEF EmitInsert, NoticeInv, Awaiting
  <2>3. n \in DOMAIN events /\ \A e \in DOMAIN events : e # n => e < n
    BY <2>2 DEF TypeOK
  <2> HIDE DEF n
  <2>4. notices[who] \in Seq(Nat)
    BY <2>1 DEF TypeOK
  <2> DEFINE m == Len(notices[who]) + 1
  <2>5. notices'[who] = Append(notices[who], n)
        /\ \A v \in User \ {who} : notices'[v] = notices[v]
    BY <1>8, <2>1 DEF EmitInsert, TypeOK, n
  <2>6. n \in Nat
    BY DEF TypeOK, n
  <2>7. /\ DOMAIN notices'[who] = DOMAIN notices[who] \cup {m}
        /\ \A i \in DOMAIN notices[who] : notices'[who][i] = notices[who][i] /\ i < m
        /\ notices'[who][m] = n
    BY <2>4, <2>5, <2>6
  <2> HIDE DEF m
  <2>8. pc' = "emit" /\ pending' = pending /\ events' = events
        /\ barred' = barred /\ subs' = subs
    BY <1>8 DEF EmitInsert
  <2>9. PassInv'
    BY <1>8 DEF EmitInsert, PassInv
  <2>10. AtMostOne'
    BY <2>8 DEF AtMostOne
  <2>11. NoticeInv'
    <3> SUFFICES ASSUME NEW v \in User
                 PROVE  /\ \A i \in DOMAIN notices'[v] :
                             notices'[v][i] \in DOMAIN events
                        /\ \A i, j \in DOMAIN notices'[v] :
                             i < j => notices'[v][i] < notices'[v][j]
                        /\ Awaiting(v)' =>
                             /\ events # <<>>
                             /\ \A i \in DOMAIN notices'[v] :
                                  notices'[v][i] # Len(events)
      BY <2>8 DEF NoticeInv
    <3>1. CASE v # who
      BY <1>8, <2>5, <2>8, <3>1 DEF NoticeInv, Awaiting, EmitInsert
    <3>2. CASE v = who
      <4>1. \A i \in DOMAIN notices'[v] : notices'[v][i] \in DOMAIN events
        BY <2>3, <2>7, <3>2 DEF NoticeInv
      <4>2. ASSUME NEW i \in DOMAIN notices'[v], NEW j \in DOMAIN notices'[v], i < j
            PROVE notices'[v][i] < notices'[v][j]
        <5>1. i # m
          <6> DEFINE k == Len(notices[who])
          <6>1. k \in Nat /\ m = k + 1 /\ DOMAIN notices[who] = 1 .. k
            BY <2>4 DEF m
          <6> QED
            BY <2>7, <3>2, <4>2, <6>1
        <5>2. i \in DOMAIN notices[who] /\ notices'[v][i] = notices[who][i]
          BY <2>7, <3>2, <5>1
        <5>3. CASE j = m
          BY <2>2, <2>3, <2>7, <3>2, <5>2, <5>3 DEF NoticeInv
        <5>4. CASE j # m
          BY <2>1, <2>7, <3>2, <4>2, <5>2, <5>4 DEF NoticeInv
        <5> QED
          BY <5>3, <5>4
      <4>3. ~ Awaiting(v)'
        BY <2>1, <2>8, <3>2 DEF Awaiting
      <4> QED
        BY <4>1, <4>2, <4>3
    <3> QED
      BY <3>1, <3>2
  <2>12. BarredInv'
    <3>1. who \notin barred
      BY <1>8 DEF EmitInsert, BarredInv
    <3> QED
      BY <2>5, <2>8, <3>1 DEF BarredInv, TypeOK
  <2> QED
    BY <2>9, <2>10, <2>11, <2>12
<1>9. CASE EndEmit
  <2>1. PassInv'
    BY <1>9 DEF EndEmit, PassInv
  <2> QED
    BY <1>9, <2>1, <1>q DEF EndEmit, Awaiting
<1> QED
  BY <1>1, <1>2, <1>3, <1>4, <1>5, <1>6, <1>7, <1>8, <1>9 DEF Evaluator

\* The rest of the invariant, through everybody's steps.
LEMMA NextInv ==
  IInv /\ TypeOK' /\ [Next]_vars => PassInv' /\ AtMostOne' /\ NoticeInv' /\ BarredInv'
<1> SUFFICES ASSUME IInv, TypeOK', [Next]_vars
             PROVE PassInv' /\ AtMostOne' /\ NoticeInv' /\ BarredInv'
  OBVIOUS
<1> USE DEF IInv, tableVars, passVars, Goto
<1> DEFINE Goal == PassInv' /\ AtMostOne' /\ NoticeInv' /\ BarredInv'
\* A step that leaves the pass, its events and its notices alone.
<1>q. ASSUME events' = events, notices' = notices, UNCHANGED passVars,
             \A u \in barred' : u \in barred /\ subs'[u] = subs[u]
      PROVE Goal
  BY <1>q DEF PassInv, Open, AtMostOne, NoticeInv, BarredInv, Awaiting
<1>1. CASE StatementFails
  <2>1. PassInv'
    BY <1>1 DEF StatementFails, PassInv
  <2>2. AtMostOne'
    BY <1>1 DEF StatementFails, AtMostOne
  <2>3. \A u \in User : Awaiting(u)' => Awaiting(u)
    BY <1>1 DEF StatementFails, Awaiting
  <2>4. NoticeInv'
    BY <1>1, <2>3 DEF StatementFails, NoticeInv
  <2>5. BarredInv'
    BY <1>1 DEF StatementFails, BarredInv
  <2> QED
    BY <2>1, <2>2, <2>4, <2>5
<1>2. CASE Crash
  BY <1>2 DEF Crash, PassInv, AtMostOne, NoticeInv, BarredInv, Awaiting
<1>3. ASSUME NEW u \in User, NEW on \in BOOLEAN, Subscribe(u, on) PROVE Goal
  <2>1. \A v \in barred' : v \in barred /\ subs'[v] = subs[v]
    BY <1>3 DEF Subscribe, BarredInv, TypeOK
  <2> QED
    BY <1>3, <2>1, <1>q DEF Subscribe
<1>4. ASSUME NEW r \in Rule, DeleteRule(r) PROVE Goal
  <2> DEFINE S == {e \in DOMAIN events : events[e].rule = r}
  <2>1. events' = [e \in DOMAIN events |->
                     IF e \in S THEN [events[e] EXCEPT !.state = "gone"]
                     ELSE events[e]]
    BY <1>4 DEF DeleteRule
  <2> HIDE DEF S
  <2>2. /\ Len(events') = Len(events)
        /\ DOMAIN events' = DOMAIN events
        /\ \A e \in DOMAIN events :
             /\ events'[e].rule = events[e].rule
             /\ events'[e].state = "open" => events[e].state = "open"
    BY <2>1, Relabel DEF TypeOK
  <2>3. UNCHANGED passVars /\ notices' = notices /\ barred' = barred /\ subs' = subs
    BY <1>4 DEF DeleteRule
  <2>4. PassInv'
    BY <2>2, <2>3 DEF PassInv, Open
  <2>5. AtMostOne'
    BY <2>2 DEF AtMostOne
  <2>6. NoticeInv' /\ BarredInv'
    BY <2>2, <2>3 DEF NoticeInv, BarredInv, Awaiting, TypeOK
  <2> QED
    BY <2>4, <2>5, <2>6
<1>5. CASE Tick \/ UNCHANGED vars
  BY <1>5, <1>q DEF Tick, vars
<1>6. ASSUME NEW v \in Value, Compute(v) PROVE Goal
  BY <1>6, <1>q DEF Compute
<1>7. ASSUME NEW r \in Rule, NEW bad \in Conditions, NEW hold \in Holds,
             CreateRule(r, bad, hold)
      PROVE Goal
  BY <1>7, <1>q DEF CreateRule
<1>8. ASSUME NEW h \in Handler, NEW r \in Rule, NEW row \in Row,
             PatchRead(h, r, row)
      PROVE Goal
  BY <1>8, <1>q DEF PatchRead
<1>9. ASSUME NEW h \in Handler, PatchWrite(h) \/ DropPatch(h) PROVE Goal
  BY <1>9, <1>q DEF PatchWrite, DropPatch
<1>10. ASSUME NEW e \in DOMAIN events, AckEvent(e) PROVE Goal
  BY <1>10, <1>q DEF AckEvent
<1> QED
  BY EvaluatorInv, <1>1, <1>2, <1>3, <1>4, <1>5, <1>6, <1>7, <1>8, <1>9, <1>10
  DEF Next

\* The inductive invariant holds in every state of every behaviour.
THEOREM Inductive == Spec => []IInv
<1>1. IInv /\ [Next]_vars => IInv'
  BY NextTypeOK, NextInv DEF IInv
<1> QED
  BY InitIInv, <1>1, PTL DEF Spec

\* Tables, the pass's locals and the handlers' keep their types.
THEOREM TypeCorrect == Spec => []TypeOK
<1>1. IInv => TypeOK
  BY DEF IInv
<1> QED
  BY Inductive, <1>1, PTL

\* For any number of edits, faults and passes, checking for an open event and
\* inserting one in two statements never leaves a rule with two.
THEOREM AtMostOneOpen == Spec => []OneOpenEvent
<1>1. IInv => OneOpenEvent
  <2> SUFFICES ASSUME IInv, NEW r \in Rule PROVE Cardinality(Open(r)) <= 1
    BY DEF OneOpenEvent
  <2>1. CASE Open(r) = {}
    BY <2>1, FS_EmptySet
  <2>2. ASSUME NEW e \in Open(r) PROVE Cardinality(Open(r)) <= 1
    <3>1. Open(r) = {e}
      BY <2>2 DEF IInv, AtMostOne, Open
    <3>2. Cardinality({e}) = 1
      BY FS_Singleton
    <3> QED
      BY <3>1, <3>2
  <2> QED
    BY <2>1, <2>2
<1> QED
  BY Inductive, <1>1, PTL

\* However many users a pass notifies, and wherever it fails or is killed,
\* nobody is told twice of an event or of one that was not recorded.
THEOREM ToldAtMostOnce == Spec => []NoticesOnce
<1>1. IInv => NoticesOnce
  <2> SUFFICES ASSUME IInv, NEW u \in User
               PROVE  /\ \A i \in DOMAIN notices[u] : notices[u][i] \in DOMAIN events
                      /\ \A i, j \in DOMAIN notices[u] :
                            notices[u][i] = notices[u][j] => i = j
    BY DEF NoticesOnce
  <2>1. notices[u] \in Seq(Nat)
    BY DEF IInv, TypeOK
  <2>2. \A i \in DOMAIN notices[u] : i \in Nat /\ notices[u][i] \in Nat
    BY <2>1
  <2> QED
    BY <2>2 DEF IInv, NoticeInv
<1> QED
  BY Inductive, <1>1, PTL

\* A user opted out since before an event was recorded is not told of it.
THEOREM OptOutsAreHonoured == Spec => []OptOutHonoured
<1>1. IInv => OptOutHonoured
  BY DEF IInv, BarredInv, OptOutHonoured
<1> QED
  BY Inductive, <1>1, PTL
=============================================================================
