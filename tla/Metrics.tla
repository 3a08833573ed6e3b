------------------------------- MODULE Metrics -------------------------------
(***************************************************************************)
(* Observations, metric definitions and the computations made of them      *)
(* (metrics_env/), and the two hourly jobs that work on the same tables:   *)
(* the rollup and the retention sweep (jobs/mod.rs), with the handlers of  *)
(* retention policies (handlers/retention.rs).                             *)
(*                                                                         *)
(* Time goes by half days, so that the 36 hours of the rollup are three of *)
(* them; a TTL is in days.  Calls are lists of statements, as in Catalog.  *)
(* A value is abstracted to the rows it was computed from.                 *)
(***************************************************************************)
EXTENDS Integers, Sequences, FiniteSets, TLC

CONSTANTS
    Source, Def, Person, \* env_sources; metric_definitions; users
    Kind,                \* formula kinds, to each of which a metric_kind belongs
    Window,              \* window_seconds of the definitions
    Back,                \* the hours a rollup looks back
    MaxRunning,          \* bound: calls at once
    Mixes                \* bounds of a behaviour: kinds of its calls and jobs,
                         \* the number of calls, the last moment, the number of
                         \* faults; its TTLs, formula kinds and lists of sources,
                         \* and how old observations are when they arrive

\* A rollup looks 36 hours back.
ASSUME WindowAssumption == Window \in Nat /\ Back \in Nat /\ Back >= 3
ASSUME KindAssumption ==
    Kind \subseteq {"moving_average", "rate_of_change", "comfort_index",
                   "sku_on_shelf_compliance"}
ASSUME BoundAssumption ==
    /\ MaxRunning \in Nat
    /\ \A m \in Mixes :
          /\ {m.calls, m.time, m.faults} \cup m.ttls \cup m.ago \subseteq Nat
          /\ m.formulas \subseteq Kind /\ m.lists \subseteq Seq(Source)

VARIABLES
    obs,       \* env_observations
    source,    \* env_sources that are not deleted
    def,       \* metric_definitions
    comp,      \* metric_computations
    pending,   \* tasks that will INSERT a computation
    rollup,    \* kpi_rollup_daily
    ttl,       \* retention_policies
    feedback,  \* talent_feedback, by its owner
    issued,    \* the last issued_at of each owner's sessions, if any
    call,      \* the calls so far
    sweep,     \* the retention sweep: the policies it has still to enforce
    roll,      \* the rollup: its transaction, if one is open
    now, mix, faults,
    past       \* history

rows == <<obs, source, def, comp, rollup, ttl, feedback, issued>>
vars == <<rows, pending, call, sweep, roll, now, mix, faults, past>>

Domain == {"env_raw", "feedback", "kpi"}
Enforced == <<"env_raw", "feedback", "kpi">>   \* in the order of the SELECT
Day(t) == t \div 2
Today == Day(now)
Made == DOMAIN call
Over == [todo |-> <<>>]   \* a call that was answered, refused or dropped
Running == {c \in Made : call[c] # Over}
Idle == [pc |-> "idle"]

Observation == [id : Nat, source : Source, at : Int]
Row == [kind : Kind, sources : Seq(Source), live : BOOLEAN]

TypeOK ==
    /\ obs \subseteq Observation /\ source \subseteq Source
    /\ \A d \in Def : def[d] \in Row
    /\ \A c \in comp \cup pending : c.id \in Made /\ c.inputs \subseteq Observation
    /\ \A r \in rollup : r.kind \in Kind /\ r.day <= Today /\ r.of \subseteq Made
    /\ ttl \in [Domain -> mix.ttls]
    /\ feedback \subseteq [id : Made, owner : Person]
    /\ Made = 1..Len(call) /\ Len(call) <= mix.calls
    /\ roll.pc \in {"idle", "insert"} /\ sweep.pc \in {"idle", "delete", "mark"}
    /\ mix \in Mixes /\ now \in 0..mix.time /\ faults \in 0..mix.faults

Init ==
    /\ mix \in Mixes
    /\ obs = {[id |-> 0, source |-> s, at |-> 0] : s \in Source}
    /\ source = Source
    /\ \E k \in mix.formulas, list \in mix.lists :
          def = [d \in Def |-> [kind |-> k, sources |-> list, live |-> TRUE]]
    /\ \E t \in mix.ttls : ttl = [d \in Domain |-> t]
    /\ comp = {} /\ pending = {} /\ rollup = {} /\ feedback = {}
    /\ issued = [u \in Person |-> <<>>]
    /\ call = <<>> /\ sweep = Idle /\ roll = Idle
    /\ now = 0 /\ faults = 0
    /\ past = [ttls |-> [d \in Domain |-> {ttl[d]}], lost |-> {}, gone |-> {},
               rows |-> [d \in Def |-> {def[d]}], shown |-> {}, missed |-> {}]

-----------------------------------------------------------------------------
(* A call arrives *)

Arrive(op, arg, todo) ==
    /\ op \in mix.kinds
    /\ Len(call) < mix.calls /\ Cardinality(Running) < MaxRunning
    /\ call' = Append(call, [op |-> op, arg |-> arg, todo |-> todo,
                             read |-> <<>>, inputs |-> {}])
    /\ UNCHANGED <<rows, pending, sweep, roll, now, mix, faults, past>>

\* bulk_observations, of observations made now or some time ago; a call with one
\* is like a call that is cut off after the first of two.
Bulk == \E s \in Source, ago \in mix.ago :
    Arrive("bulk", [source |-> s, at |-> now - ago], <<"exists", "put", "put">>)

DropSource == \E s \in Source : Arrive("unsource", s, <<"unsource">>)

\* A PATCH may name the kind, the sources, or both.
Patch ==
    \E d \in Def, k \in mix.formulas \cup {""},
       list \in {<<l>> : l \in mix.lists} \cup {<<>>} :
        Arrive("patch", [def |-> d, kind |-> k, sources |-> list],
               <<"load", "store">>)

DropDefinition == \E d \in Def : Arrive("drop", [def |-> d], <<"drop">>)

Series == \E d \in Def : Arrive("series", [def |-> d], <<"load", "stored">>)

\* get_lineage, of a computation that some answer has named
Lineage == \E i \in past.shown : Arrive("lineage", i, <<"find", "describe">>)

SetTtl == \E d \in Domain, t \in mix.ttls :
    Arrive("ttl", [domain |-> d, ttl |-> t], <<"ttl">>)

RunRetention == \E d \in Domain :
    Arrive("run", [domain |-> d], <<"policy", "purge", "mark">>)

\* A person gives feedback, or gets a session.
Person1 == \E u \in Person :
    \/ Arrive("feedback", u, <<"feedback">>)
    \/ Arrive("issue", u, <<"issue">>)

-----------------------------------------------------------------------------
(* The statements *)

At(c, s) == c \in Running /\ Head(call[c].todo) = s
Ended(c) == [call EXCEPT ![c] = Over]
Step(c) == IF Len(call[c].todo) = 1 THEN Ended(c)
           ELSE [call EXCEPT ![c].todo = Tail(@)]
Ran(c) == call' = Step(c)
Refused(c) == call' = Ended(c)
Jobs == <<sweep, roll, now, mix, faults>>

Exists(c) ==
    /\ At(c, "exists")
    /\ IF call[c].arg.source \in source THEN Ran(c) ELSE Refused(c)
    /\ UNCHANGED <<rows, pending, Jobs, past>>

\* One INSERT for each observation.
Put(c) ==
    /\ At(c, "put")
    /\ obs' = obs \cup {[id |-> 2 * c + Len(call[c].todo),
                         source |-> call[c].arg.source, at |-> call[c].arg.at]}
    /\ Ran(c)
    /\ UNCHANGED <<source, def, comp, rollup, ttl, feedback, issued, pending,
                   Jobs, past>>

SoftDeleteSource(c) ==
    /\ At(c, "unsource")
    /\ source' = source \ {call[c].arg}
    /\ IF call[c].arg \in source THEN Ran(c) ELSE Refused(c)
    /\ UNCHANGED <<obs, def, comp, rollup, ttl, feedback, issued, pending, Jobs,
                   past>>

\* The sources that a formula looks at.
Used(row) ==
    CASE row.kind \in {"moving_average", "rate_of_change"} ->
            IF row.sources = <<>> THEN <<>> ELSE SubSeq(row.sources, 1, 1)
      [] row.kind = "comfort_index" ->
            IF Len(row.sources) < 2 THEN <<>>
            ELSE SubSeq(row.sources, 1, IF Len(row.sources) = 2 THEN 2 ELSE 3)
      [] row.kind = "sku_on_shelf_compliance" -> row.sources

\* definitions::get
Load(c) ==
    LET row == def[call[c].arg.def] IN
    /\ At(c, "load")
    /\ IF row.live THEN call' = [Step(c) EXCEPT ![c].read = <<row>>] ELSE Refused(c)
    /\ UNCHANGED <<rows, pending, Jobs, past>>

\* What the request does not name is written back as it was read.
Store(c) ==
    LET d == call[c].arg.def
        a == call[c].arg
        row == [kind |-> IF a.kind = "" THEN call[c].read[1].kind ELSE a.kind,
                sources |-> IF a.sources = <<>> THEN call[c].read[1].sources
                            ELSE a.sources[1],
                live |-> TRUE]
    IN  /\ At(c, "store")
        /\ IF def[d].live
           THEN /\ def' = [def EXCEPT ![d] = row]
                /\ past' = [past EXCEPT !.rows[d] = @ \cup {row}]
                /\ Ran(c)
           ELSE Refused(c) /\ UNCHANGED <<def, past>>
        /\ UNCHANGED <<obs, source, comp, rollup, ttl, feedback, issued, pending,
                       Jobs>>

SoftDelete(c) ==
    LET d == call[c].arg.def IN
    /\ At(c, "drop")
    /\ def' = [def EXCEPT ![d].live = FALSE]
    /\ IF def[d].live THEN Ran(c) ELSE Refused(c)
    /\ UNCHANGED <<obs, source, comp, rollup, ttl, feedback, issued, pending,
                   Jobs, past>>

\* latest_series, and the moment that the fresh point is for
Stored(c) ==
    /\ At(c, "stored")
    /\ call' = [call EXCEPT
          ![c].todo = [i \in 1..Len(Used(call[c].read[1])) |-> "window"]
                      \o <<"answer">>,
          ![c].read = @ \o <<now, {k.id : k \in {k \in comp : k.def = call[c].arg.def}}>>]
    /\ UNCHANGED <<rows, pending, Jobs, past>>

\* Slip: the list of sources is looked up again for every window.
SourceNow(c) ==
    LET list == Used(def[call[c].arg.def])
        left == Len(call[c].todo) - 1
    IN  IF left > Len(list) THEN {} ELSE {list[Len(list) + 1 - left]}

SourceOf(c) ==
    LET list == Used(call[c].read[1]) IN {list[Len(list) + 2 - Len(call[c].todo)]}

\* fetch_window, of one source after the other
FetchWindow(c) ==
    /\ At(c, "window")
    /\ call' = [Step(c) EXCEPT ![c].inputs = @ \cup
          {o \in obs : o.source \in SourceOf(c)
                       /\ o.at \in (call[c].read[2] - Window)..call[c].read[2]}]
    /\ UNCHANGED <<rows, pending, Jobs, past>>

\* Whether the formula has a result.  A comfort index whose inputs are badly
\* aligned may be withheld.
Yields(kind, inputs) ==
    CASE kind = "rate_of_change" -> {Cardinality(inputs) > 1}
      [] kind = "comfort_index" ->
            IF Cardinality({o.source : o \in inputs}) < 2 THEN {FALSE} ELSE BOOLEAN
      [] OTHER -> {inputs # {}}

\* The answer names the stored computations and the fresh one, whose id was
\* just made and whose INSERT is left to a task.
AnswerSeries(c) ==
    LET in == call[c] IN
    /\ At(c, "answer")
    /\ \E fresh \in Yields(in.read[1].kind, in.inputs) :
          /\ pending' = IF fresh
                THEN pending \cup {[id |-> c, def |-> in.arg.def,
                        kind |-> in.read[1].kind, inputs |-> in.inputs,
                        to |-> in.read[2]]}
                ELSE pending
          /\ past' = [past EXCEPT !.shown = @ \cup in.read[3]
                                       \cup (IF fresh THEN {c} ELSE {})]
    /\ Ran(c)
    /\ UNCHANGED <<rows, Jobs>>

\* save_computation: computed_at is the time of the INSERT.
Persist(p) ==
    /\ comp' = comp \cup {[id |-> p.id, def |-> p.def, kind |-> p.kind,
                          inputs |-> p.inputs, to |-> p.to, at |-> now]}
    /\ pending' = pending \ {p}
    /\ UNCHANGED <<obs, source, def, rollup, ttl, feedback, issued, call, Jobs, past>>

PersistFails(p) ==
    /\ faults < mix.faults
    /\ pending' = pending \ {p}
    /\ past' = [past EXCEPT !.gone = @ \cup {p.id}]
    /\ faults' = faults + 1
    /\ UNCHANGED <<rows, call, sweep, roll, now, mix>>

Missed(i) ==
    [past EXCEPT !.missed = IF i \in past.gone \cup {p.id : p \in pending} THEN @
                            ELSE @ \cup {i}]

Find(c) ==
    /\ At(c, "find")
    /\ IF \E k \in comp : k.id = call[c].arg
       THEN Ran(c) /\ UNCHANGED past
       ELSE Refused(c) /\ past' = Missed(call[c].arg)
    /\ UNCHANGED <<rows, pending, Jobs>>

\* Slip: the definition is looked up as everywhere else.
DescribesLive(d) == def[d].live

\* lineage::get, which also looks at definitions that were deleted
Describes(d) == TRUE

Describe(c) ==
    LET k == CHOOSE k \in comp : k.id = call[c].arg IN
    /\ At(c, "describe")
    /\ IF Describes(k.def)
       THEN Ran(c) /\ UNCHANGED past
       ELSE Refused(c) /\ past' = Missed(call[c].arg)
    /\ UNCHANGED <<rows, pending, Jobs>>

GiveFeedback(c) ==
    /\ At(c, "feedback")
    /\ feedback' = feedback \cup {[id |-> c, owner |-> call[c].arg]}
    /\ Ran(c)
    /\ UNCHANGED <<obs, source, def, comp, rollup, ttl, issued, pending, Jobs, past>>

\* sessions::issue
Issue(c) ==
    /\ At(c, "issue")
    /\ issued' = [issued EXCEPT ![call[c].arg] = <<now>>]
    /\ Ran(c)
    /\ UNCHANGED <<obs, source, def, comp, rollup, ttl, feedback, pending, Jobs,
                   past>>

-----------------------------------------------------------------------------
(* Retention *)

\* patch_retention; its audit record is that of Administration.
WriteTtl(c) ==
    LET d == call[c].arg.domain IN
    /\ At(c, "ttl")
    /\ ttl' = [ttl EXCEPT ![d] = call[c].arg.ttl]
    /\ past' = [past EXCEPT !.ttls[d] = @ \cup {call[c].arg.ttl}]
    /\ Ran(c)
    /\ UNCHANGED <<obs, source, def, comp, rollup, feedback, issued, pending, Jobs>>

\* When the owner was last there: their last session, or else the account,
\* which is as old as the system.
LastSeen(u) == IF issued[u] = <<>> THEN 0 ELSE issued[u][1]

\* How old a row is to its policy, in half days.
Age(d, row) ==
    CASE d = "env_raw" -> now - row.at
      [] d = "kpi" -> 2 * (Today - row.day)
      [] d = "feedback" -> now - LastSeen(row.owner)

Rows(d) == CASE d = "env_raw" -> obs [] d = "kpi" -> rollup [] d = "feedback" -> feedback

\* Slip: a TTL of zero keeps nothing.
ExpiredAtZero(d, t) == {row \in Rows(d) : Age(d, row) > 2 * t}

\* 0 is to keep for ever.
Expired(d, t) == IF t = 0 THEN {} ELSE {row \in Rows(d) : Age(d, row) > 2 * t}

\* The DELETE of one domain.  Where an open rollup has deleted a row already it
\* waits for the commit and then skips the row, or deletes it after a rollback:
\* either way the row is gone, and what the rollup inserts stays.
Purge(d, t) ==
    LET old == Expired(d, t) IN
    /\ obs' = obs \ old /\ rollup' = rollup \ old /\ feedback' = feedback \ old
    /\ past' = [past EXCEPT !.lost = @ \cup {row \in old :
                    \A u \in past.ttls[d] \ {0} : Age(d, row) <= 2 * u}]
    /\ UNCHANGED <<source, def, comp, ttl, issued, pending>>

\* run_retention: the policy, the DELETE, and last_enforced_at
ReadPolicy(c) ==
    /\ At(c, "policy")
    /\ call' = [Step(c) EXCEPT ![c].read = <<ttl[call[c].arg.domain]>>]
    /\ UNCHANGED <<rows, pending, Jobs, past>>

PurgeByHand(c) ==
    /\ At(c, "purge")
    /\ Purge(call[c].arg.domain, call[c].read[1])
    /\ Ran(c)
    /\ UNCHANGED Jobs

MarkByHand(c) == At(c, "mark") /\ Ran(c) /\ UNCHANGED <<rows, pending, Jobs, past>>

\* From the n-th policy on, the first one that has a TTL.
Enforce(n, t) ==
    IF \E i \in n..3 : t[Enforced[i]] > 0
    THEN [pc |-> "delete", ttl |-> t,
          next |-> CHOOSE i \in n..3 : /\ t[Enforced[i]] > 0
                                      /\ \A j \in n..(i - 1) : t[Enforced[j]] = 0]
    ELSE Idle

\* retention_sweep_once: the policies are read once, then enforced in turn.
SweepLoad ==
    /\ sweep.pc = "idle" /\ "sweep" \in mix.kinds
    /\ Enforce(1, ttl) # Idle
    /\ sweep' = Enforce(1, ttl)
    /\ UNCHANGED <<rows, pending, call, roll, now, mix, faults, past>>

SweepDelete ==
    /\ sweep.pc = "delete"
    /\ Purge(Enforced[sweep.next], sweep.ttl[Enforced[sweep.next]])
    /\ sweep' = [sweep EXCEPT !.pc = "mark"]
    /\ UNCHANGED <<call, roll, now, mix, faults>>

\* Slip: the pass ends with the first policy.
SweepOnce == Idle

SweepOn == Enforce(sweep.next + 1, sweep.ttl)

SweepMark ==
    /\ sweep.pc = "mark"
    /\ sweep' = SweepOn
    /\ UNCHANGED <<rows, pending, call, roll, now, mix, faults, past>>

\* A statement that fails ends the pass.
SweepFails ==
    /\ sweep.pc # "idle" /\ faults < mix.faults
    /\ sweep' = Idle
    /\ faults' = faults + 1
    /\ UNCHANGED <<rows, pending, call, roll, now, mix, past>>

Sweep == SweepLoad \/ SweepDelete \/ SweepMark

-----------------------------------------------------------------------------
(* The rollup *)

\* Slip: a day back, rather than 36 hours.
LastDay(start) == {k \in comp : k.at >= start - 2}

Recent(start) == {k \in comp : k.at >= start - Back}

Key(k) == [day |-> Day(k.at), kind |-> def[k.def].kind]
KeyOf(r) == [day |-> r.day, kind |-> r.kind]

\* BEGIN and DELETE: the rows stay in sight until the transaction commits.
RollDelete ==
    /\ roll.pc = "idle" /\ "roll" \in mix.kinds
    /\ roll' = [pc |-> "insert", start |-> now,
                locked |-> {r \in rollup : \E k \in Recent(now) : Key(k) = KeyOf(r)}]
    /\ UNCHANGED <<rows, pending, call, sweep, now, mix, faults, past>>

\* INSERT and COMMIT: an average for each key, of what is there by now.  A key
\* that still has a row, because a definition changed its kind in between, fails
\* the transaction.
RollInsert ==
    LET kept == rollup \ roll.locked
        new == {[day |-> Day(k.at), kind |-> def[k.def].kind, at |-> roll.start,
                 of |-> {j.id : j \in {j \in Recent(roll.start) :
                                          Key(j) = Key(k)}}] :
                   k \in Recent(roll.start)}
    IN  /\ roll.pc = "insert"
        /\ rollup' = IF \E r \in kept, n \in new : KeyOf(r) = KeyOf(n) THEN rollup
                     ELSE kept \cup new
        /\ roll' = Idle
        /\ UNCHANGED <<obs, source, def, comp, ttl, feedback, issued, pending, call,
                       sweep, now, mix, faults, past>>

Roll == RollDelete \/ RollInsert

-----------------------------------------------------------------------------
\* BudgetMw
Drop(c) ==
    /\ c \in Running
    /\ call' = Ended(c)
    /\ UNCHANGED <<rows, pending, Jobs, past>>

\* The process ends, and with it calls, tasks, and an open transaction.
Restart ==
    /\ faults < mix.faults
    /\ faults' = faults + 1
    /\ call' = [c \in Made |-> Over]
    /\ past' = [past EXCEPT !.gone = @ \cup {p.id : p \in pending}]
    /\ pending' = {} /\ sweep' = Idle /\ roll' = Idle
    /\ UNCHANGED <<rows, now, mix>>

Tick ==
    /\ now < mix.time
    /\ now' = now + 1
    /\ UNCHANGED <<rows, pending, call, sweep, roll, mix, faults, past>>

Next ==
    \/ Bulk \/ DropSource \/ Patch \/ DropDefinition \/ Series \/ Lineage
    \/ SetTtl \/ RunRetention \/ Person1
    \/ \E c \in Made :
          \/ Exists(c) \/ Put(c) \/ SoftDeleteSource(c) \/ Load(c) \/ Store(c)
          \/ SoftDelete(c) \/ Stored(c) \/ FetchWindow(c) \/ AnswerSeries(c)
          \/ Find(c) \/ Describe(c) \/ GiveFeedback(c) \/ Issue(c)
          \/ WriteTtl(c) \/ ReadPolicy(c) \/ PurgeByHand(c) \/ MarkByHand(c)
          \/ Drop(c)
    \/ \E p \in pending : Persist(p) \/ PersistFails(p)
    \/ Sweep \/ SweepFails \/ Roll \/ Restart \/ Tick

\* The sweep is a loop that goes on for as long as the process lives.
Spec == Init /\ [][Next]_vars /\ WF_vars(Sweep)

-----------------------------------------------------------------------------
(* Properties *)

\* A row was deleted only when it was older than a TTL that was in force at
\* some time: 0 keeps everything, one domain does not touch another's rows, and
\* feedback goes by its owner's last session.
YoungStay == past.lost = {}

\* A day's row is the average of all its computations stored before the pass,
\* if the pass was made before noon of the next day: until then the 36 hours
\* reach back to the start of the day.  What is later averages a part only.
DayIsWhole ==
    \A r \in rollup :
        r.at <= 2 * r.day + 3 /\ (\A d \in Def : Cardinality(past.rows[d]) = 1) =>
            \A k \in comp : Key(k) = KeyOf(r) /\ k.at < r.at => k.id \in r.of

\* A computation is made of observations of its window, by the sources of one
\* version of its definition, though it is edited in between.
InputsOfOneVersion ==
    \A k \in comp \cup pending : \E row \in past.rows[k.def] :
        /\ row.kind = k.kind
        /\ \A o \in k.inputs :
              /\ o.at \in (k.to - Window)..k.to
              /\ \E i \in DOMAIN Used(row) : Used(row)[i] = o.source

\* The id of a computation that an answer has named leads to its lineage, unless
\* its INSERT is still to come or was lost.
IdsResolve == past.missed = {}

RecordsHold ==
    TypeOK /\ YoungStay /\ DayIsWhole /\ InputsOfOneVersion /\ IdsResolve

\* What is older than its TTL goes, unless the TTL is changed first.
OldGoes ==
    \A d \in Domain :
        Expired(d, ttl[d]) # {} ~> Expired(d, ttl[d]) = {}
=============================================================================
