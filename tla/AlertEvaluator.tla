---------------------------- MODULE AlertEvaluator ----------------------------
(***************************************************************************)
(* Alert rules: the thirty-second pass of alerts/evaluator.rs, the rule    *)
(* and event statements of alerts/rules.rs, the notifications it inserts   *)
(* through services/notifications.rs, failing statements and crashes.      *)
(*                                                                         *)
(* The evaluator is one task that runs outside any transaction: its        *)
(* statements interleave with the handlers that change the rules, with new *)
(* computations of the metric and with users who opt out of the topic.     *)
(* All rules look at one metric definition; operator and threshold of a    *)
(* rule are the set of the metric's values that check_operator accepts.    *)
(***************************************************************************)
EXTENDS Naturals, Sequences, FiniteSets

CONSTANTS
    Rule,        \* alert_rules rows that may be created
    User,        \* users who hold alert.ack
    Value,       \* values of the metric
    Conditions,  \* sets of values a rule may call a violation
    Holds,       \* values of duration_seconds
    Handler,     \* PATCH requests that may be in flight
    MaxTime,     \* bound: last moment of the clock
    MaxEdits,    \* bound: PATCH and DELETE requests admitted
    MaxFaults,   \* bound: crashes and failing statements
    MaxEvents    \* bound: events the liveness properties look at

ASSUME ConditionAssumption == Conditions \subseteq SUBSET Value
ASSUME HoldAssumption == Holds \subseteq Nat
ASSUME BoundAssumption ==
    /\ MaxTime \in Nat /\ MaxEdits \in Nat
    /\ MaxFaults \in Nat /\ MaxEvents \in Nat

VARIABLES
    rule,     \* rows of alert_rules
    comps,    \* metric_computations in the order of computed_at
    events,   \* alert_events in the order of fired_at
    subs,     \* subs[u]: u has not opted out of alert.fired
    notices,  \* notices[u]: the events u was notified of, in order
    refused,  \* events whose acknowledgement was answered with an error
    pc,       \* where the evaluator's pass stands
    todo,     \* rules the pass has loaded and not come to yet
    cur,      \* the loaded rule in hand
    at,       \* the computation in hand, as an index into comps
    pending,  \* users still to be notified of the event just fired
    who,      \* the user whose notification is inserted next
    barred,   \* users opted out ever since that event was fired (history)
    edit,     \* PATCH handlers between their SELECT and their UPDATE
    now, edits, faults

tableVars == <<rule, comps, events, subs, notices, refused>>
passVars  == <<pc, todo, cur, at, pending, who>>
vars == <<rule, comps, events, subs, notices, refused, pc, todo, cur, at,
          pending, who, barred, edit, now, edits, faults>>

Row == [state : {"live"}, enabled : BOOLEAN, bad : Conditions, hold : Holds]
NoRow == [state |-> "absent"]
Gone  == [state |-> "deleted"]

Loaded == [rule : Rule, bad : Conditions, hold : Holds]
None == [rule |-> "none"]

\* comp, bad and hold are history: what the event was fired on.
Event == [rule : Rule, state : {"open", "resolved", "gone"}, comp : Nat,
          bad : Conditions, hold : Holds]

Phase == {"idle", "next", "latest", "window", "fire", "resolve",
          "users", "emit", "insert"}

TypeOK ==
    /\ rule \in [Rule -> Row \cup {NoRow, Gone}]
    /\ comps \in Seq([value : Value, time : Nat])
    /\ events \in Seq(Event)
    /\ subs \in [User -> BOOLEAN]
    /\ notices \in [User -> Seq(Nat)]
    /\ refused \subseteq DOMAIN events
    /\ pc \in Phase
    /\ todo \subseteq Loaded
    /\ cur \in Loaded \cup {None}
    /\ at \in Nat
    /\ pending \subseteq User /\ barred \subseteq User
    /\ who \in User \cup {None}
    /\ edit \in [Handler -> [rule : Rule, row : Row] \cup {None}]
    /\ now \in Nat /\ edits \in Nat /\ faults \in Nat

Init ==
    /\ rule = [r \in Rule |-> NoRow]
    /\ comps = <<>> /\ events = <<>>
    /\ subs = [u \in User |-> TRUE]
    /\ notices = [u \in User |-> <<>>]
    /\ refused = {}
    /\ pc = "idle"
    /\ todo = {} /\ cur = None /\ at = 0 /\ pending = {}
    /\ who = None /\ barred = {}
    /\ edit = [h \in Handler |-> None]
    /\ now = 0 /\ edits = 0 /\ faults = 0

-----------------------------------------------------------------------------
Live(r) == rule[r].state = "live"

Open(r) == {e \in DOMAIN events : events[e].rule = r /\ events[e].state = "open"}

\* check_operator on the computation in hand.
Violated == comps[at].value \in cur.bad

\* Computations in the window that ends at computation c.  The query counts
\* them all, whatever their value.
Window(c, hold) ==
    {k \in DOMAIN comps : /\ comps[k].time + hold >= comps[c].time
                          /\ comps[k].time <= comps[c].time}

-----------------------------------------------------------------------------
(* The surroundings *)

\* A computation is stored; no two have the same microsecond.
Compute(v) ==
    /\ \A k \in DOMAIN comps : comps[k].time < now
    /\ comps' = Append(comps, [value |-> v, time |-> now])
    /\ UNCHANGED <<rule, events, subs, notices, refused, passVars, barred,
                   edit, now, edits, faults>>

\* upsert_subs for the topic alert.fired.
Subscribe(u, on) ==
    /\ subs[u] # on
    /\ subs' = [subs EXCEPT ![u] = on]
    /\ barred' = IF on THEN barred \ {u} ELSE barred
    /\ UNCHANGED <<rule, comps, events, notices, refused, passVars, edit,
                   now, edits, faults>>

CreateRule(r, bad, hold) ==
    /\ rule[r] = NoRow
    /\ rule' = [rule EXCEPT ![r] = [state |-> "live", enabled |-> TRUE,
                                    bad |-> bad, hold |-> hold]]
    /\ UNCHANGED <<comps, events, subs, notices, refused, passVars, barred,
                   edit, now, edits, faults>>

\* update_rule reads the row and fills in the columns the body leaves out.
PatchRead(h, r, row) ==
    /\ edit[h] = None
    /\ Live(r)
    /\ edits < MaxEdits
    /\ edits' = edits + 1
    /\ \/ row = [rule[r] EXCEPT !.enabled = row.enabled]
       \/ row = [rule[r] EXCEPT !.bad = row.bad, !.hold = row.hold]
    /\ edit' = [edit EXCEPT ![h] = [rule |-> r, row |-> row]]
    /\ UNCHANGED <<tableVars, passVars, barred, now, faults>>

\* Its UPDATE writes every column; a deleted row is not found.
PatchWrite(h) ==
    /\ edit[h] # None
    /\ rule' = IF Live(edit[h].rule)
               THEN [rule EXCEPT ![edit[h].rule] = edit[h].row]
               ELSE rule
    /\ edit' = [edit EXCEPT ![h] = None]
    /\ UNCHANGED <<comps, events, subs, notices, refused, passVars, barred,
                   now, edits, faults>>

DropPatch(h) ==
    /\ edit[h] # None
    /\ edit' = [edit EXCEPT ![h] = None]
    /\ UNCHANGED <<tableVars, passVars, barred, now, edits, faults>>

\* DELETE cascades to the rule's events.
DeleteRule(r) ==
    /\ Live(r)
    /\ edits < MaxEdits
    /\ edits' = edits + 1
    /\ rule' = [rule EXCEPT ![r] = Gone]
    /\ events' = [e \in DOMAIN events |->
                    IF events[e].rule = r
                    THEN [events[e] EXCEPT !.state = "gone"]
                    ELSE events[e]]
    /\ UNCHANGED <<comps, subs, notices, refused, passVars, barred, edit,
                   now, faults>>

\* The UPDATE of ack_event names a table alias it does not declare, so the
\* database refuses the statement.
AckEvent(e) ==
    /\ events[e].state # "gone"
    /\ refused' = refused \cup {e}
    /\ UNCHANGED <<rule, comps, events, subs, notices, passVars, barred, edit,
                   now, edits, faults>>

Tick ==
    /\ now < MaxTime
    /\ now' = now + 1
    /\ UNCHANGED <<tableVars, passVars, barred, edit, edits, faults>>

-----------------------------------------------------------------------------
(* The evaluator *)

Goto(p) == pc' = p

\* SELECT ... FROM alert_rules WHERE enabled = TRUE.
LoadRules ==
    /\ pc = "idle"
    /\ Goto("next")
    /\ todo' = {[rule |-> r, bad |-> rule[r].bad, hold |-> rule[r].hold] :
                  r \in {q \in Rule : Live(q) /\ rule[q].enabled}}
    /\ UNCHANGED <<tableVars, cur, at, pending, who, barred, edit, now, edits, faults>>

\* Slip: ORDER BY computed_at without DESC.
FetchOldest(t) ==
    /\ pc = "next"
    /\ t \in todo
    /\ todo' = todo \ {t}
    /\ IF comps = <<>>
       THEN UNCHANGED <<pc, cur, at>>
       ELSE Goto("latest") /\ cur' = t /\ at' = 1
    /\ UNCHANGED <<tableVars, pending, who, barred, edit, now, edits, faults>>

\* The latest computation for the next rule; without one the rule is skipped.
FetchLatest(t) ==
    /\ pc = "next"
    /\ t \in todo
    /\ todo' = todo \ {t}
    /\ IF comps = <<>>
       THEN UNCHANGED <<pc, cur, at>>
       ELSE Goto("latest") /\ cur' = t /\ at' = Len(comps)
    /\ UNCHANGED <<tableVars, pending, who, barred, edit, now, edits, faults>>

EndPass ==
    /\ pc = "next"
    /\ todo = {}
    /\ Goto("idle")
    /\ cur' = None /\ at' = 0
    /\ UNCHANGED <<tableVars, todo, pending, who, barred, edit, now, edits, faults>>

\* Slip: the open event is not looked for before firing.
CheckActiveBlind ==
    /\ pc = "latest"
    /\ \/ Violated /\ cur.hold = 0 /\ Goto("fire")
       \/ Violated /\ cur.hold > 0 /\ Goto("window")
       \/ ~ Violated /\ Goto("resolve")
    /\ UNCHANGED <<tableVars, todo, cur, at, pending, who, barred, edit,
                   now, edits, faults>>

\* has_active_event, and the branch it decides.
CheckActive ==
    /\ pc = "latest"
    /\ \/ Violated /\ Open(cur.rule) = {} /\ cur.hold = 0 /\ Goto("fire")
       \/ Violated /\ Open(cur.rule) = {} /\ cur.hold > 0 /\ Goto("window")
       \/ ~ Violated /\ Open(cur.rule) # {} /\ Goto("resolve")
       \/ (Violated <=> Open(cur.rule) # {}) /\ Goto("next")
    /\ UNCHANGED <<tableVars, todo, cur, at, pending, who, barred, edit,
                   now, edits, faults>>

CountWindow ==
    /\ pc = "window"
    /\ Goto(IF Cardinality(Window(at, cur.hold)) >= 2 THEN "fire" ELSE "next")
    /\ UNCHANGED <<tableVars, todo, cur, at, pending, who, barred, edit,
                   now, edits, faults>>

\* fire_event; the foreign key refuses the event of a rule deleted meanwhile,
\* and evaluate_all goes on with the next rule.
Fire ==
    /\ pc = "fire"
    /\ IF Live(cur.rule)
       THEN /\ events' = Append(events,
                           [rule |-> cur.rule, state |-> "open", comp |-> at,
                            bad |-> cur.bad, hold |-> cur.hold])
            /\ barred' = {u \in User : ~ subs[u]}
            /\ Goto("users")
       ELSE Goto("next") /\ UNCHANGED <<events, barred>>
    /\ UNCHANGED <<rule, comps, subs, notices, refused, todo, cur, at, pending, who,
                   edit, now, edits, faults>>

\* Slip: a status the readers of the table do not know.
ResolveSpelt ==
    /\ pc = "resolve"
    /\ Goto("next")
    /\ events' = [e \in DOMAIN events |->
                    IF e \in Open(cur.rule)
                    THEN [events[e] EXCEPT !.state = "cleared"]
                    ELSE events[e]]
    /\ UNCHANGED <<rule, comps, subs, notices, refused, todo, cur, at, pending,
                   who, barred, edit, now, edits, faults>>

\* resolve_event: every open event of the rule.
Resolve ==
    /\ pc = "resolve"
    /\ Goto("next")
    /\ events' = [e \in DOMAIN events |->
                    IF e \in Open(cur.rule)
                    THEN [events[e] EXCEPT !.state = "resolved"]
                    ELSE events[e]]
    /\ UNCHANGED <<rule, comps, subs, notices, refused, todo, cur, at, pending, who,
                   barred, edit, now, edits, faults>>

\* notify_alert_fired: the users with alert.ack, then emit for each of them.
LoadUsers ==
    /\ pc = "users"
    /\ Goto("emit")
    /\ pending' = User
    /\ UNCHANGED <<tableVars, todo, cur, at, who, barred, edit, now, edits, faults>>

\* Slip: the user stays in the list and is notified again.
EmitCheckKeeps(u) ==
    /\ pc = "emit"
    /\ u \in pending
    /\ pending' = IF subs[u] THEN pending ELSE pending \ {u}
    /\ IF subs[u]
       THEN Goto("insert") /\ who' = u
       ELSE UNCHANGED <<pc, who>>
    /\ UNCHANGED <<tableVars, todo, cur, at, barred, edit, now, edits, faults>>

\* Slip: the subscription is not looked up.
EmitCheckBlind(u) ==
    /\ pc = "emit"
    /\ u \in pending
    /\ pending' = pending \ {u}
    /\ Goto("insert") /\ who' = u
    /\ UNCHANGED <<tableVars, todo, cur, at, barred, edit, now, edits, faults>>

\* Slip: the first user who opted out ends the loop.
EmitCheckReturns(u) ==
    /\ pc = "emit"
    /\ u \in pending
    /\ pending' = IF subs[u] THEN pending \ {u} ELSE {}
    /\ IF subs[u]
       THEN Goto("insert") /\ who' = u
       ELSE UNCHANGED <<pc, who>>
    /\ UNCHANGED <<tableVars, todo, cur, at, barred, edit, now, edits, faults>>

\* emit, first statement: the subscription.
EmitCheck(u) ==
    /\ pc = "emit"
    /\ u \in pending
    /\ pending' = pending \ {u}
    /\ IF subs[u]
       THEN Goto("insert") /\ who' = u
       ELSE UNCHANGED <<pc, who>>
    /\ UNCHANGED <<tableVars, todo, cur, at, barred, edit, now, edits, faults>>

\* Second statement: the notification of the event just fired.  The error of
\* the third, which records the delivery attempt, is ignored.
EmitInsert ==
    /\ pc = "insert"
    /\ Goto("emit")
    /\ notices' = [notices EXCEPT ![who] = Append(@, Len(events))]
    /\ who' = None
    /\ UNCHANGED <<rule, comps, events, subs, refused, todo, cur, at, pending,
                   barred, edit, now, edits, faults>>

EndEmit ==
    /\ pc = "emit"
    /\ pending = {}
    /\ Goto("next")
    /\ UNCHANGED <<tableVars, todo, cur, at, pending, who, barred, edit,
                   now, edits, faults>>

\* A statement of the pass fails: the rule in hand is given up, or the user
\* whose notification was under way, and the pass goes on.
StatementFails ==
    /\ pc # "idle"
    /\ faults < MaxFaults
    /\ faults' = faults + 1
    /\ \/ pc = "next" /\ (\E t \in todo : todo' = todo \ {t})
          /\ UNCHANGED <<pc, pending, who>>
       \/ pc \in {"latest", "window", "fire", "resolve", "users"} /\ Goto("next")
          /\ UNCHANGED <<todo, pending, who>>
       \/ pc = "emit" /\ (\E u \in pending : pending' = pending \ {u})
          /\ UNCHANGED <<pc, todo, who>>
       \/ pc = "insert" /\ Goto("emit") /\ who' = None
          /\ UNCHANGED <<todo, pending>>
    /\ UNCHANGED <<tableVars, cur, at, barred, edit, now, edits>>

\* The process stops and is started again.
Crash ==
    /\ faults < MaxFaults
    /\ faults' = faults + 1
    /\ Goto("idle")
    /\ todo' = {} /\ cur' = None /\ at' = 0 /\ pending' = {} /\ who' = None
    /\ edit' = [h \in Handler |-> None]
    /\ UNCHANGED <<tableVars, barred, now, edits>>

Evaluator ==
    \/ LoadRules
    \/ \E t \in todo : FetchLatest(t)
    \/ EndPass
    \/ CheckActive \/ CountWindow \/ Fire \/ Resolve
    \/ LoadUsers
    \/ \E u \in User : EmitCheck(u)
    \/ EmitInsert \/ EndEmit

Next ==
    \/ Evaluator \/ StatementFails \/ Crash \/ Tick
    \/ \E v \in Value : Compute(v)
    \/ \E u \in User, on \in BOOLEAN : Subscribe(u, on)
    \/ \E r \in Rule, bad \in Conditions, hold \in Holds : CreateRule(r, bad, hold)
    \/ \E h \in Handler, r \in Rule, row \in Row : PatchRead(h, r, row)
    \/ \E h \in Handler : PatchWrite(h) \/ DropPatch(h)
    \/ \E r \in Rule : DeleteRule(r)
    \/ \E e \in DOMAIN events : AckEvent(e)

Spec == Init /\ [][Next]_vars

\* The spawned loop always runs on; nothing else is bound to happen.
FairSpec == Spec /\ WF_vars(Evaluator)

-----------------------------------------------------------------------------
(* Properties *)

\* A rule has at most one event that is not resolved, though has_active_event
\* and fire_event are two statements with other people's edits between them:
\* only the evaluator inserts events, and one pass runs at a time.
OneOpenEvent == \A r \in Rule : Cardinality(Open(r)) <= 1

\* Nobody is told twice of the same event, and nobody of an event that was
\* not recorded, whatever fails and wherever the process dies.
NoticesOnce ==
    \A u \in User :
        /\ \A i \in DOMAIN notices[u] : notices[u][i] \in DOMAIN events
        /\ \A i, j \in DOMAIN notices[u] : notices[u][i] = notices[u][j] => i = j

\* A user who has been opted out of alert.fired ever since the last event was
\* recorded is not told of it.
OptOutHonoured ==
    \A u \in barred : \A i \in DOMAIN notices[u] : notices[u][i] # Len(events)

\* Whatever interleaves, fails or crashes: once values, rules and faults stop
\* changing, an enabled rule has an open event if the latest value violates it
\* (and its window holds two computations) and none if it does not.
Tripped(r) ==
    /\ comps # <<>>
    /\ comps[Len(comps)].value \in rule[r].bad
    /\ rule[r].hold > 0 => Cardinality(Window(Len(comps), rule[r].hold)) >= 2

Cleared(r) == comps # <<>> /\ comps[Len(comps)].value \notin rule[r].bad

Settled ==
    \A r \in Rule :
        Live(r) /\ rule[r].enabled =>
            /\ Tripped(r) => Open(r) # {}
            /\ Cleared(r) => Open(r) = {}

Converges == <>[]Settled

\* Unless a fault comes between, every subscriber who stays one is told of
\* every event; deleting or disabling the rule meanwhile does not stop it.
Told(u, e) == \E i \in DOMAIN notices[u] : notices[u][i] = e

AnnouncedWithoutFault ==
    \A u \in User, e \in 1 .. MaxEvents :
        (pc = "users" /\ Len(events) = e /\ subs[u])
            ~> (Told(u, e) \/ ~ subs[u] \/ faults > 0)

\* evaluator.rs:6-8 says an event is fired when "the condition has been held
\* for >= duration_seconds continuously": all computations of the window
\* violate the condition.  The query counts them without looking at the value.
FiredHeld ==
    \A e \in DOMAIN events :
        LET ev == events[e] IN
        \A k \in Window(ev.comp, ev.hold) : comps[k].value \in ev.bad

\* migrations/0022:8 says "Alert events track ack (who + when)": a user may
\* acknowledge an event.
AckAccepted == refused = {}

=============================================================================
