---------------------------- MODULE MetricsProofs ----------------------------
(***************************************************************************)
(* Safety of Metrics for any sources, definitions, persons and windows,    *)
(* and any mix and number of calls: young rows stay, a day is averaged     *)
(* whole, a computation is made of one version of its definition, and the  *)
(* ids that were shown lead to their lineage.                              *)
(***************************************************************************)
EXTENDS Metrics, FiniteSetTheorems, SequenceTheorems, TLAPS

Fields == {"op", "arg", "todo", "read", "inputs"}

\* The inputs in, collected at the moment t for the version row.
InputsOK(in, row, t) ==
    \A o \in in : /\ o \in Observation /\ o.at \in (t - Window)..t
                  /\ \E i \in DOMAIN Used(row) : Used(row)[i] = o.source

\* What a call has to do, is about and has read so far: p is the history, k are
\* the computations, m is the mix.
BulkCall(f) ==
    /\ f.todo \in {<<"exists", "put", "put">>, <<"put", "put">>, <<"put">>}
    /\ f.arg \in [source : Source, at : Int]

SingleCall(f, m) ==
    \/ f.todo = <<"unsource">>
    \/ f.todo = <<"drop">> /\ f.arg \in [def : Def]
    \/ f.todo = <<"ttl">> /\ f.arg \in [domain : Domain, ttl : m.ttls]
    \/ f.todo \in {<<"feedback">>, <<"issue">>} /\ f.arg \in Person

PatchCall(f, p, m) ==
    /\ f.todo \in {<<"load", "store">>, <<"store">>}
    /\ f.arg \in [def : Def, kind : m.formulas \cup {""},
                  sources : {<<l>> : l \in m.lists} \cup {<<>>}]
    /\ f.todo = <<"store">> => \E row \in p.rows[f.arg.def] : f.read = <<row>>

\* A series that is being computed: the windows that are left, and the answer.
Computing(f, p, k) ==
    LET row == f.read[1]
        n == Len(f.todo)
    IN  /\ f.todo \in Seq({"window", "answer"})
        /\ n > 0 /\ f.todo[n] = "answer"
        /\ \A i \in 1..(n - 1) : f.todo[i] = "window"
        /\ f.arg \in [def : Def]
        /\ f.read = <<row, f.read[2], f.read[3]>>
        /\ row \in p.rows[f.arg.def] /\ n <= Len(Used(row)) + 1
        /\ f.read[2] \in Int /\ f.read[3] \subseteq {j.id : j \in k}
        /\ InputsOK(f.inputs, row, f.read[2])

SeriesCall(f, p, k) ==
    \/ /\ f.todo = <<"load", "stored">> /\ f.inputs = {}
       /\ f.arg \in [def : Def]
    \/ /\ f.todo = <<"stored">> /\ f.inputs = {}
       /\ f.arg \in [def : Def]
       /\ \E row \in p.rows[f.arg.def] : f.read = <<row>>
    \/ Computing(f, p, k)

LineageCall(f, p) ==
    f.todo \in {<<"find", "describe">>, <<"describe">>} /\ f.arg \in p.shown

RunCall(f, p) ==
    /\ f.todo \in {<<"policy", "purge", "mark">>, <<"purge", "mark">>, <<"mark">>}
    /\ f.arg \in [domain : Domain]
    /\ f.todo = <<"purge", "mark">> =>
          \E t \in p.ttls[f.arg.domain] : f.read = <<t>>

CallOK(f, p, k, m) ==
    \/ f = Over
    \/ /\ DOMAIN f = Fields
       /\ \/ BulkCall(f) \/ SingleCall(f, m) \/ PatchCall(f, p, m)
          \/ SeriesCall(f, p, k) \/ LineageCall(f, p) \/ RunCall(f, p)

CallInv == /\ Len(call) \in Nat
           /\ \A c \in Made : CallOK(call[c], past, comp, mix)

\* The TTLs and versions that history remembers are those that were in force.
PastOK ==
    /\ DOMAIN past = {"ttls", "lost", "gone", "rows", "shown", "missed"}
    /\ past.ttls \in [Domain -> SUBSET Nat] /\ past.rows \in [Def -> SUBSET Row]
    /\ DOMAIN def = Def /\ \A d \in Domain : ttl[d] \in past.ttls[d]
    /\ \A d \in Def :
          /\ IsFiniteSet(past.rows[d])
          /\ \E row \in past.rows[d] : row.kind = def[d].kind
          /\ def[d].live => def[d] \in past.rows[d]

IssuedOK == issued \in [Person -> Seq(Nat)]

\* A pass of the sweep works on TTLs that were in force when it began.
SweepInv ==
    \/ sweep = Idle
    \/ /\ sweep = [pc |-> sweep.pc, ttl |-> sweep.ttl, next |-> sweep.next]
       /\ sweep.ttl \in [Domain -> Nat] /\ sweep.next \in 1..3
       /\ \A d \in Domain : sweep.ttl[d] \in past.ttls[d]

\* Nothing is stored or averaged in the future.
TimeInv ==
    /\ \A k \in comp : k.at \in 0..now
    /\ \A k \in comp \cup pending : k.def \in Def
    /\ \A r \in rollup : r.day \in Nat /\ r.at \in 0..now
    /\ roll.pc = "insert" => roll.start \in 0..now

\* Where an id that was shown can be.
ShownInv ==
    past.shown \subseteq {k.id : k \in comp \cup pending} \cup past.gone

IInv == /\ TypeOK /\ CallInv /\ PastOK /\ IssuedOK /\ SweepInv /\ TimeInv
        /\ ShownInv /\ YoungStay /\ DayIsWhole /\ InputsOfOneVersion
        /\ IdsResolve

-----------------------------------------------------------------------------
(* The operators of the model *)

\* The sources a formula looks at are sources.
LEMMA UsedFacts ==
  ASSUME NEW row \in Row
  PROVE  Used(row) \in Seq(Source)
<1> DEFINE s == row.sources
<1>1. s \in Seq(Source) /\ row.kind \in Kind
  BY DEF Row
<1>2. Len(s) \in Nat /\ \A i \in 1..Len(s) : s[i] \in Source
  BY <1>1
<1>3. \A n \in Nat : n <= Len(s) => SubSeq(s, 1, n) \in Seq(Source)
  <2> TAKE n \in Nat
  <2> HAVE n <= Len(s)
  <2>1. \A i \in 1..n : s[i] \in Source
    BY <1>2
  <2> HIDE DEF s
  <2> QED
    BY <2>1, SubSeqProperties
<1>4. s # <<>> => Len(s) >= 1
  BY <1>1
<1> HIDE DEF s
<1>5. CASE row.kind \in {"moving_average", "rate_of_change"}
  <2>1. Used(row) = IF s = <<>> THEN <<>> ELSE SubSeq(s, 1, 1)
    BY <1>5 DEF Used, s
  <2>2. s # <<>> => SubSeq(s, 1, 1) \in Seq(Source)
    BY <1>2, <1>3, <1>4
  <2> QED
    BY <2>1, <2>2
<1>6. CASE row.kind = "comfort_index"
  <2>1. Used(row) = IF Len(s) < 2 THEN <<>>
                    ELSE SubSeq(s, 1, IF Len(s) = 2 THEN 2 ELSE 3)
    BY <1>6 DEF Used, s
  <2>2. CASE Len(s) < 2
    BY <2>1, <2>2
  <2>3. CASE Len(s) = 2
    <3>1. Used(row) = SubSeq(s, 1, 2)
      BY <2>1, <2>3
    <3> QED
      BY <1>3, <2>3, <3>1
  <2>4. CASE Len(s) > 2
    <3>1. Used(row) = SubSeq(s, 1, 3)
      BY <1>2, <2>1, <2>4
    <3>2. 3 \in Nat /\ 3 <= Len(s)
      BY <1>2, <2>4
    <3> QED
      BY <1>3, <3>1, <3>2
  <2>5. Len(s) < 2 \/ Len(s) = 2 \/ Len(s) > 2
    <3>1. \A n \in Nat : n < 2 \/ n = 2 \/ n > 2
      OBVIOUS
    <3> QED
      BY <1>2, <3>1
  <2> QED
    BY <2>2, <2>3, <2>4, <2>5
<1>7. CASE row.kind = "sku_on_shelf_compliance"
  BY <1>1, <1>7 DEF Used, s
<1> QED
  BY <1>1, <1>5, <1>6, <1>7, KindAssumption

\* A moment is in its day.
LEMMA DayFacts ==
  ASSUME NEW t \in Nat
  PROVE  Day(t) \in Nat /\ 2 * Day(t) <= t /\ t < 2 * Day(t) + 2
  BY DEF Day

LEMMA DayMonotone ==
  ASSUME NEW t \in Nat, NEW u \in Nat, t <= u
  PROVE  Day(t) <= Day(u)
  BY DayFacts

\* The first policy that a pass enforces from the n-th on, if any.
LEMMA EnforceFacts ==
  ASSUME NEW n \in 1..4, NEW t \in [Domain -> Nat]
  PROVE  \/ Enforce(n, t) = Idle
         \/ \E i \in 1..3 : Enforce(n, t) = [pc |-> "delete", ttl |-> t, next |-> i]
<1> DEFINE First(i) == /\ t[Enforced[i]] > 0
                       /\ \A j \in n..(i - 1) : t[Enforced[j]] = 0
<1>1. \A i \in 1..3 : t[Enforced[i]] \in Nat
  BY DEF Enforced, Domain
<1>2. ASSUME \E i \in n..3 : t[Enforced[i]] > 0
      PROVE  \E i \in n..3 : First(i)
  <2>1. CASE n = 1
    <3>1. CASE t[Enforced[1]] > 0
      BY <2>1, <3>1
    <3>2. CASE t[Enforced[1]] = 0 /\ t[Enforced[2]] > 0
      BY <2>1, <3>2
    <3>3. CASE t[Enforced[1]] = 0 /\ t[Enforced[2]] = 0
      BY <1>1, <1>2, <2>1, <3>3
    <3> QED
      BY <1>1, <3>1, <3>2, <3>3
  <2>2. CASE n = 2
    BY <1>1, <1>2, <2>2
  <2>3. CASE n = 3
    BY <1>1, <1>2, <2>3
  <2>4. CASE n = 4
    BY <1>2, <2>4
  <2> QED
    BY <2>1, <2>2, <2>3, <2>4
<1> DEFINE k == CHOOSE i \in n..3 : First(i)
<1>3. ASSUME \E i \in n..3 : t[Enforced[i]] > 0
      PROVE  k \in 1..3
  <2>1. k \in n..3
    BY <1>2, <1>3
  <2> QED
    BY <2>1
<1>4. Enforce(n, t) = IF \E i \in n..3 : t[Enforced[i]] > 0
                      THEN [pc |-> "delete", ttl |-> t, next |-> k] ELSE Idle
  BY DEF Enforce
<1> HIDE DEF k
<1> QED
  BY <1>3, <1>4

-----------------------------------------------------------------------------
(* Calls and their lists of statements *)

\* What a list of a series has first.
LEMMA ComputingHead ==
  ASSUME NEW f, NEW p, NEW k, Computing(f, p, k)
  PROVE  /\ f.todo \in Seq({"window", "answer"}) /\ Len(f.todo) \in Nat \ {0}
         /\ Head(f.todo) = IF Len(f.todo) = 1 THEN "answer" ELSE "window"
<1> DEFINE s == f.todo
<1>1. /\ s \in Seq({"window", "answer"}) /\ Len(s) > 0 /\ s[Len(s)] = "answer"
      /\ \A i \in 1..(Len(s) - 1) : s[i] = "window"
  BY DEF Computing
<1> HIDE DEF s
<1>2. Len(s) \in Nat /\ Head(s) = s[1]
  BY <1>1
<1>3. Len(s) # 1 => 1 \in 1..(Len(s) - 1)
  <2>1. \A n \in Nat : n > 0 /\ n # 1 => 1 \in 1..(n - 1)
    OBVIOUS
  <2> QED
    BY <1>1, <1>2, <2>1
<1>4. s[1] = IF Len(s) = 1 THEN "answer" ELSE "window"
  <2>1. CASE Len(s) = 1
    BY <1>1, <2>1
  <2>2. CASE Len(s) # 1
    BY <1>1, <1>3, <2>2
  <2> QED
    BY <2>1, <2>2
<1>5. Len(s) \in Nat \ {0}
  BY <1>1, <1>2
<1> QED
  BY <1>1, <1>2, <1>4, <1>5 DEF s

\* What a call is that is at a statement.
LEMMA Shape ==
  ASSUME NEW f, NEW p, NEW k, NEW m, CallOK(f, p, k, m), f # Over
  PROVE  LET s == Head(f.todo) IN
         /\ DOMAIN f = Fields
         /\ s = "exists" => f.todo = <<"exists", "put", "put">> /\ BulkCall(f)
         /\ s = "put" => f.todo \in {<<"put", "put">>, <<"put">>} /\ BulkCall(f)
         /\ s = "unsource" => f.todo = <<"unsource">>
         /\ s = "drop" => f.todo = <<"drop">> /\ SingleCall(f, m)
         /\ s = "ttl" => f.todo = <<"ttl">> /\ SingleCall(f, m)
         /\ s = "feedback" => f.todo = <<"feedback">> /\ SingleCall(f, m)
         /\ s = "issue" => f.todo = <<"issue">> /\ SingleCall(f, m)
         /\ s = "load" => \/ f.todo = <<"load", "store">> /\ PatchCall(f, p, m)
                          \/ f.todo = <<"load", "stored">> /\ SeriesCall(f, p, k)
         /\ s = "store" => f.todo = <<"store">> /\ PatchCall(f, p, m)
         /\ s = "stored" => f.todo = <<"stored">> /\ SeriesCall(f, p, k)
         /\ s = "window" => Computing(f, p, k) /\ Len(f.todo) > 1
         /\ s = "answer" => Computing(f, p, k) /\ Len(f.todo) = 1
         /\ s = "find" => f.todo = <<"find", "describe">> /\ LineageCall(f, p)
         /\ s = "describe" => f.todo = <<"describe">> /\ LineageCall(f, p)
         /\ s = "policy" => f.todo = <<"policy", "purge", "mark">> /\ RunCall(f, p)
         /\ s = "purge" => f.todo = <<"purge", "mark">> /\ RunCall(f, p)
         /\ s = "mark" => f.todo = <<"mark">> /\ RunCall(f, p)
<1>1. /\ DOMAIN f = Fields
      /\ \/ BulkCall(f) \/ SingleCall(f, m) \/ PatchCall(f, p, m)
         \/ SeriesCall(f, p, k) \/ LineageCall(f, p) \/ RunCall(f, p)
  BY DEF CallOK
<1>2. CASE BulkCall(f)
  BY <1>1, <1>2 DEF BulkCall
<1>3. CASE SingleCall(f, m)
  BY <1>1, <1>3 DEF SingleCall
<1>4. CASE PatchCall(f, p, m)
  <2>1. f.todo \in {<<"load", "store">>, <<"store">>}
    BY <1>4 DEF PatchCall
  <2> QED
    BY <1>1, <1>4, <2>1
<1>5. CASE LineageCall(f, p)
  BY <1>1, <1>5 DEF LineageCall
<1>6. CASE RunCall(f, p)
  BY <1>1, <1>6 DEF RunCall
<1>7. CASE SeriesCall(f, p, k) /\ ~Computing(f, p, k)
  BY <1>1, <1>7 DEF SeriesCall
<1>8. CASE Computing(f, p, k)
  <2>1. Len(f.todo) \in Nat \ {0}
    BY <1>8, ComputingHead
  <2>2. Head(f.todo) = IF Len(f.todo) = 1 THEN "answer" ELSE "window"
    BY <1>8, ComputingHead
  <2>3. \A n \in Nat \ {0} : n = 1 \/ (n # 1 /\ n > 1)
    OBVIOUS
  <2>4. Len(f.todo) = 1 \/ (Len(f.todo) # 1 /\ Len(f.todo) > 1)
    BY <2>1, <2>3
  <2> QED
    BY <1>1, <1>8, <2>2, <2>4
<1> QED
  BY <1>1, <1>2, <1>3, <1>4, <1>5, <1>6, <1>7, <1>8

\* What history and the computations may become.
Grows(p, q, k, l) ==
    /\ \A d \in Domain : p.ttls[d] \subseteq q.ttls[d]
    /\ \A d \in Def : p.rows[d] \subseteq q.rows[d]
    /\ p.shown \subseteq q.shown /\ k \subseteq l

\* A call that stays as it is remains in order.
LEMMA CallMono ==
  ASSUME NEW f, NEW p, NEW q, NEW k, NEW l, NEW m,
         CallOK(f, p, k, m), Grows(p, q, k, l)
  PROVE  CallOK(f, q, l, m)
<1>1. PatchCall(f, p, m) => PatchCall(f, q, m)
  BY DEF PatchCall, Grows
<1>2. Computing(f, p, k) => Computing(f, q, l)
  <2>1. {j.id : j \in k} \subseteq {j.id : j \in l}
    BY DEF Grows
  <2>2. f.arg \in [def : Def] => p.rows[f.arg.def] \subseteq q.rows[f.arg.def]
    BY DEF Grows
  <2> QED
    BY <2>1, <2>2 DEF Computing
<1>3. SeriesCall(f, p, k) => SeriesCall(f, q, l)
  BY <1>2 DEF SeriesCall, Grows
<1>4. LineageCall(f, p) => LineageCall(f, q)
  BY DEF LineageCall, Grows
<1>5. RunCall(f, p) => RunCall(f, q)
  BY DEF RunCall, Grows
<1> QED
  BY <1>1, <1>3, <1>4, <1>5 DEF CallOK

\* One call goes on to e.
LEMMA CallMoved ==
  ASSUME TypeOK, CallInv, NEW c \in Made, NEW e, call' = [call EXCEPT ![c] = e],
         Grows(past, past', comp, comp'), mix' = mix, CallOK(e, past', comp', mix)
  PROVE  CallInv' /\ Made' = Made /\ Len(call') = Len(call)
<1>1. /\ Len(call') = Len(call) /\ Made' = Made
      /\ call'[c] = e /\ \A d \in Made \ {c} : call'[d] = call[d]
  BY DEF TypeOK, CallInv, Made
<1>2. \A d \in Made : CallOK(call[d], past, comp, mix)
  BY DEF CallInv
<1>3. \A d \in Made \ {c} : CallOK(call[d], past', comp', mix)
  BY <1>2, CallMono
<1>4. \A d \in Made' : CallOK(call'[d], past', comp', mix')
  BY <1>1, <1>3
<1>5. Len(call') \in Nat
  BY <1>1 DEF CallInv
<1> QED
  BY <1>1, <1>4, <1>5 DEF CallInv

LEMMA CallStill ==
  ASSUME TypeOK, CallInv, UNCHANGED <<call, mix>>, Grows(past, past', comp, comp')
  PROVE  CallInv' /\ Made' = Made /\ Len(call') = Len(call)
<1>1. Made' = Made /\ Len(call') = Len(call)
  BY DEF Made
<1>2. \A d \in Made : CallOK(call[d], past, comp, mix)
  BY DEF CallInv
<1>3. \A d \in Made : CallOK(call[d], past', comp', mix)
  BY <1>2, CallMono
<1>4. Len(call') \in Nat
  BY <1>1 DEF CallInv
<1> QED
  BY <1>1, <1>3, <1>4 DEF CallInv

LEMMA GrowsNot ==
  ASSUME NEW p, NEW k
  PROVE  Grows(p, p, k, k)
  BY DEF Grows

\* A call that runs has a record.
LEMMA AtFacts ==
  ASSUME TypeOK, CallInv, NEW c, NEW s, At(c, s)
  PROVE  /\ c \in Made /\ c \in Nat /\ call[c] # Over /\ Head(call[c].todo) = s
         /\ CallOK(call[c], past, comp, mix) /\ DOMAIN call[c] = Fields
<1>1. c \in Made /\ call[c] # Over /\ Head(call[c].todo) = s
  BY DEF At, Running
<1>2. CallOK(call[c], past, comp, mix) /\ c \in Nat
  BY <1>1 DEF CallInv, TypeOK
<1> QED
  BY <1>1, <1>2 DEF CallOK

\* What a statement leaves of its call.
LEMMA StepFacts ==
  ASSUME TypeOK, CallInv, NEW c \in Made, DOMAIN call[c] = Fields
  PROVE  \E e : /\ Step(c) = [call EXCEPT ![c] = e]
                /\ Len(call[c].todo) = 1 => e = Over
                /\ Len(call[c].todo) # 1 =>
                      /\ DOMAIN e = Fields /\ e.todo = Tail(call[c].todo)
                      /\ e.arg = call[c].arg /\ e.read = call[c].read
                      /\ e.inputs = call[c].inputs
<1>1. CASE Len(call[c].todo) = 1
  BY <1>1 DEF Step, Ended
<1>2. CASE Len(call[c].todo) # 1
  <2> DEFINE f == call[c]
             e == [f EXCEPT !.todo = Tail(@)]
  <2>1. Step(c) = [call EXCEPT ![c] = e]
    BY <1>2 DEF Step
  <2>2. DOMAIN f = Fields
    OBVIOUS
  <2> HIDE DEF f
  <2>3. /\ DOMAIN e = Fields /\ e.todo = Tail(f.todo) /\ e.arg = f.arg
        /\ e.read = f.read /\ e.inputs = f.inputs
    BY <2>2 DEF Fields
  <2> HIDE DEF e
  <2> QED
    BY <1>2, <2>1, <2>3 DEF f
<1> QED
  BY <1>1, <1>2

\* A call that ended is in order.
LEMMA OverOK ==
  ASSUME NEW p, NEW k, NEW m
  PROVE  CallOK(Over, p, k, m)
  BY DEF CallOK

-----------------------------------------------------------------------------
(* What a step leaves alone *)

\* A part of the invariant stays when what it is about does.
LEMMA Frames ==
  ASSUME IInv, mix' = mix
  PROVE  /\ UNCHANGED <<ttl, def, past>> => PastOK'
         /\ UNCHANGED issued => IssuedOK'
         /\ UNCHANGED sweep /\ past'.ttls = past.ttls => SweepInv'
         /\ UNCHANGED <<comp, pending, rollup, roll, now>> => TimeInv'
         /\ UNCHANGED <<comp, pending, past>> => ShownInv'
         /\ UNCHANGED past => YoungStay' /\ IdsResolve'
         /\ UNCHANGED <<comp, rollup, def>> /\ past'.rows = past.rows => DayIsWhole'
         /\ UNCHANGED <<comp, pending>> /\ past'.rows = past.rows =>
               InputsOfOneVersion'
<1>1. UNCHANGED <<ttl, def, past>> => PastOK'
  BY DEF IInv, PastOK
<1>2. UNCHANGED issued => IssuedOK'
  BY DEF IInv, IssuedOK
<1>3. UNCHANGED sweep /\ past'.ttls = past.ttls => SweepInv'
  BY DEF IInv, SweepInv, Idle
<1>4. UNCHANGED <<comp, pending, rollup, roll, now>> => TimeInv'
  BY DEF IInv, TimeInv
<1>5. UNCHANGED <<comp, pending, past>> => ShownInv'
  BY DEF IInv, ShownInv
<1>6. UNCHANGED past => YoungStay' /\ IdsResolve'
  BY DEF IInv, YoungStay, IdsResolve
<1>7. UNCHANGED <<comp, rollup, def>> /\ past'.rows = past.rows => DayIsWhole'
  BY DEF IInv, DayIsWhole, Key, KeyOf
<1>8. UNCHANGED <<comp, pending>> /\ past'.rows = past.rows => InputsOfOneVersion'
  BY DEF IInv, InputsOfOneVersion
<1> QED
  BY <1>1, <1>2, <1>3, <1>4, <1>5, <1>6, <1>7, <1>8

\* A call moves and nothing else.
LEMMA QuietInv ==
  ASSUME IInv, CallInv', Made' = Made, Len(call') = Len(call),
         UNCHANGED <<rows, pending, sweep, roll, now, mix, faults, past>>
  PROVE  IInv'
<1>1. /\ UNCHANGED <<obs, source, def, comp, rollup, ttl, feedback, issued>>
      /\ UNCHANGED <<pending, sweep, roll, now, mix, faults, past>>
  BY DEF rows
<1>2. TypeOK'
  BY <1>1 DEF IInv, TypeOK, Today, Row, Observation
<1>3. /\ PastOK' /\ IssuedOK' /\ SweepInv' /\ TimeInv' /\ ShownInv'
      /\ YoungStay' /\ IdsResolve' /\ DayIsWhole' /\ InputsOfOneVersion'
  BY <1>1, Frames
<1> QED
  BY <1>2, <1>3 DEF IInv

\* A call ends early and nothing else happens.
LEMMA EndedInv ==
  ASSUME IInv, NEW c \in Made, call' = Ended(c),
         UNCHANGED <<rows, pending, sweep, roll, now, mix, faults, past>>
  PROVE  IInv'
<1>1. call' = [call EXCEPT ![c] = Over] /\ comp' = comp /\ past' = past /\ mix' = mix
  BY DEF Ended, rows
<1>2. CallOK(Over, past', comp', mix)
  BY OverOK
<1>3. Grows(past, past', comp, comp')
  BY <1>1, GrowsNot
<1>4. CallInv' /\ Made' = Made /\ Len(call') = Len(call)
  BY <1>1, <1>2, <1>3, CallMoved DEF IInv
<1> QED
  BY <1>4, QuietInv

-----------------------------------------------------------------------------
(* The statements that write no table *)

\* What is left of a call, where this keeps nothing.
LEMMA RestOK ==
  ASSUME NEW f, NEW e, NEW p, NEW k, NEW m, CallOK(f, p, k, m), f # Over,
         Head(f.todo) \in {"exists", "put", "unsource", "drop", "store", "find",
                           "describe", "ttl", "purge", "mark", "feedback",
                           "issue", "answer"},
         Len(f.todo) = 1 => e = Over,
         Len(f.todo) # 1 => /\ DOMAIN e = Fields /\ e.todo = Tail(f.todo)
                            /\ e.arg = f.arg /\ e.read = f.read
                            /\ e.inputs = f.inputs
  PROVE  CallOK(e, p, k, m)
<1> DEFINE s == Head(f.todo)
<1>1. CASE s = "exists"
  <2>1. f.todo = <<"exists", "put", "put">> /\ BulkCall(f)
    BY <1>1, Shape
  <2>2. DOMAIN e = Fields /\ e.todo = <<"put", "put">> /\ e.arg = f.arg
    BY <2>1
  <2> QED
    BY <2>1, <2>2 DEF CallOK, BulkCall
<1>2. CASE s = "put"
  <2>1. f.todo \in {<<"put", "put">>, <<"put">>} /\ BulkCall(f)
    BY <1>2, Shape
  <2>2. CASE f.todo = <<"put">>
    BY <2>2 DEF CallOK
  <2>3. CASE f.todo = <<"put", "put">>
    <3>1. DOMAIN e = Fields /\ e.todo = <<"put">> /\ e.arg = f.arg
      BY <2>3
    <3> QED
      BY <2>1, <3>1 DEF CallOK, BulkCall
  <2> QED
    BY <2>1, <2>2, <2>3
<1>3. CASE s = "find"
  <2>1. f.todo = <<"find", "describe">> /\ LineageCall(f, p)
    BY <1>3, Shape
  <2>2. DOMAIN e = Fields /\ e.todo = <<"describe">> /\ e.arg = f.arg
    BY <2>1
  <2> QED
    BY <2>1, <2>2 DEF CallOK, LineageCall
<1>4. CASE s = "purge"
  <2>1. f.todo = <<"purge", "mark">> /\ RunCall(f, p)
    BY <1>4, Shape
  <2>2. DOMAIN e = Fields /\ e.todo = <<"mark">> /\ e.arg = f.arg
    BY <2>1
  <2> QED
    BY <2>1, <2>2 DEF CallOK, RunCall
<1>5. CASE s \in {"unsource", "drop", "store", "describe", "ttl", "mark",
                  "feedback", "issue", "answer"}
  <2>1. Len(f.todo) = 1
    <3>1. s = "answer" => Len(f.todo) = 1
      BY Shape
    <3>2. s # "answer" => f.todo = <<s>>
      BY <1>5, Shape
    <3> QED
      BY <3>1, <3>2
  <2> QED
    BY <2>1 DEF CallOK
<1> QED
  BY <1>1, <1>2, <1>3, <1>4, <1>5

\* Such a call is in order after the statement, whatever the tables became.
LEMMA RanInv ==
  ASSUME TypeOK, CallInv, NEW c, NEW s, At(c, s), Ran(c),
         s \in {"exists", "put", "unsource", "drop", "store", "find",
                "describe", "ttl", "purge", "mark", "feedback", "issue", "answer"},
         mix' = mix, Grows(past, past', comp, comp')
  PROVE  CallInv' /\ Made' = Made /\ Len(call') = Len(call)
<1>1. /\ c \in Made /\ call[c] # Over /\ Head(call[c].todo) = s
      /\ CallOK(call[c], past, comp, mix) /\ DOMAIN call[c] = Fields
  BY AtFacts
<1>2. PICK e : /\ call' = [call EXCEPT ![c] = e]
               /\ Len(call[c].todo) = 1 => e = Over
               /\ Len(call[c].todo) # 1 =>
                     /\ DOMAIN e = Fields /\ e.todo = Tail(call[c].todo)
                     /\ e.arg = call[c].arg /\ e.read = call[c].read
                     /\ e.inputs = call[c].inputs
  BY <1>1, StepFacts DEF Ran
<1>3. CallOK(call[c], past', comp', mix)
  BY <1>1, CallMono
<1>4. CallOK(e, past', comp', mix)
  BY <1>1, <1>2, <1>3, RestOK
<1> QED
  BY <1>1, <1>2, <1>4, CallMoved

\* What a statement keeps for the later ones.
Single(x) == <<x>>
WithRead(c, v) == [Step(c) EXCEPT ![c].read = v]
WithInputs(c, v) == [Step(c) EXCEPT ![c].inputs = v]

LEMMA KeepRead ==
  ASSUME NEW c \in Made, NEW v, DOMAIN call[c] = Fields, Len(call[c].todo) # 1,
         call' = WithRead(c, v)
  PROVE  \E e : /\ call' = [call EXCEPT ![c] = e]
                /\ DOMAIN e = Fields /\ e.todo = Tail(call[c].todo)
                /\ e.arg = call[c].arg /\ e.read = v
                /\ e.inputs = call[c].inputs
<1> DEFINE f == call[c]
           t == [f EXCEPT !.todo = Tail(@)]
           e == [t EXCEPT !.read = v]
<1>1. Step(c) = [call EXCEPT ![c] = t]
  BY DEF Step
<1>2. DOMAIN f = Fields
  OBVIOUS
<1>3. call' = [call EXCEPT ![c] = e]
  BY <1>1 DEF WithRead, Made
<1> HIDE DEF f
<1>4. /\ DOMAIN e = Fields /\ e.todo = Tail(f.todo) /\ e.arg = f.arg
      /\ e.read = v /\ e.inputs = f.inputs
  BY <1>2 DEF Fields
<1> HIDE DEF e
<1> QED
  BY <1>3, <1>4 DEF f

LEMMA KeepInputs ==
  ASSUME NEW c \in Made, NEW v, DOMAIN call[c] = Fields, Len(call[c].todo) # 1,
         call' = WithInputs(c, v)
  PROVE  \E e : /\ call' = [call EXCEPT ![c] = e]
                /\ DOMAIN e = Fields /\ e.todo = Tail(call[c].todo)
                /\ e.arg = call[c].arg /\ e.read = call[c].read
                /\ e.inputs = v
<1> DEFINE f == call[c]
           t == [f EXCEPT !.todo = Tail(@)]
           e == [t EXCEPT !.inputs = v]
<1>1. Step(c) = [call EXCEPT ![c] = t]
  BY DEF Step
<1>2. DOMAIN f = Fields
  OBVIOUS
<1>3. call' = [call EXCEPT ![c] = e]
  BY <1>1 DEF WithInputs, Made
<1> HIDE DEF f
<1>4. /\ DOMAIN e = Fields /\ e.todo = Tail(f.todo) /\ e.arg = f.arg
      /\ e.read = f.read /\ e.inputs = v
  BY <1>2 DEF Fields
<1> HIDE DEF e
<1> QED
  BY <1>3, <1>4 DEF f

\* A call that went on to a record in order, and nothing else.
LEMMA WentInv ==
  ASSUME IInv, NEW c \in Made, NEW e, call' = [call EXCEPT ![c] = e],
         CallOK(e, past, comp, mix),
         UNCHANGED <<rows, pending, sweep, roll, now, mix, faults, past>>
  PROVE  IInv'
<1>1. comp' = comp /\ past' = past /\ mix' = mix
  BY DEF rows
<1>2. CallOK(e, past', comp', mix) /\ Grows(past, past', comp, comp')
  BY <1>1, GrowsNot
<1>3. CallInv' /\ Made' = Made /\ Len(call') = Len(call)
  BY <1>1, <1>2, CallMoved DEF IInv
<1> QED
  BY <1>3, QuietInv

LEMMA LoadInv ==
  ASSUME IInv, NEW c, Load(c)
  PROVE  IInv'
<1> DEFINE f == call[c]
           row == def[f.arg.def]
<1>1. /\ At(c, "load")
      /\ IF row.live THEN call' = [Step(c) EXCEPT ![c].read = <<row>>]
         ELSE call' = Ended(c)
      /\ UNCHANGED <<rows, pending, sweep, roll, now, mix, faults, past>>
  BY DEF Load, Jobs, Refused
<1>2. /\ c \in Made /\ f # Over /\ Head(f.todo) = "load"
      /\ CallOK(f, past, comp, mix) /\ DOMAIN f = Fields
  BY <1>1, AtFacts DEF IInv
<1>3. \/ f.todo = <<"load", "store">> /\ PatchCall(f, past, mix)
      \/ f.todo = <<"load", "stored">> /\ SeriesCall(f, past, comp)
  BY <1>2, Shape
<1>4. CASE ~row.live
  BY <1>1, <1>2, <1>4, EndedInv
<1>5. CASE row.live
  <2>1. Len(f.todo) # 1
    BY <1>3
  <2>2. PICK e : /\ call' = [call EXCEPT ![c] = e]
                 /\ DOMAIN e = Fields /\ e.todo = Tail(f.todo)
                 /\ e.arg = f.arg /\ e.read = <<row>> /\ e.inputs = f.inputs
    <3> PICK v : v = row
      OBVIOUS
    <3>1. call' = WithRead(c, Single(v))
      BY <1>1, <1>5 DEF WithRead, Single
    <3> HIDE DEF row
    <3>2. \E e : /\ call' = [call EXCEPT ![c] = e]
                 /\ DOMAIN e = Fields /\ e.todo = Tail(f.todo)
                 /\ e.arg = f.arg /\ e.read = Single(v)
                 /\ e.inputs = f.inputs
      BY <1>2, <2>1, <3>1, KeepRead
    <3> QED
      BY <3>2 DEF Single
  <2>3. CASE f.todo = <<"load", "store">>
    <3>1. PatchCall(f, past, mix)
      BY <1>3, <2>3
    <3>2. f.arg.def \in Def
      BY <3>1 DEF PatchCall
    <3>3. row \in past.rows[f.arg.def]
      BY <1>5, <3>2 DEF IInv, PastOK
    <3>4. e.todo = <<"store">>
      BY <2>2, <2>3
    <3>5. PatchCall(e, past, mix)
      BY <2>2, <3>1, <3>3, <3>4 DEF PatchCall
    <3> QED
      BY <1>1, <1>2, <2>2, <3>5, WentInv DEF CallOK
  <2>4. CASE f.todo = <<"load", "stored">>
    <3>1. f.arg \in [def : Def] /\ f.inputs = {}
      <4>1. Head(f.todo) # "window" /\ Head(f.todo) # "answer"
        BY <2>4
      <4>2. ~Computing(f, past, comp)
        BY <4>1, ComputingHead
      <4> QED
        BY <1>3, <2>4, <4>2 DEF SeriesCall
    <3>2. row \in past.rows[f.arg.def]
      BY <1>5, <3>1 DEF IInv, PastOK
    <3>3. e.todo = <<"stored">>
      BY <2>2, <2>4
    <3>4. SeriesCall(e, past, comp)
      BY <2>2, <3>1, <3>2, <3>3 DEF SeriesCall
    <3> QED
      BY <1>1, <1>2, <2>2, <3>4, WentInv DEF CallOK
  <2> QED
    BY <1>3, <2>3, <2>4
<1> QED
  BY <1>4, <1>5

LEMMA ReadPolicyInv ==
  ASSUME IInv, NEW c, ReadPolicy(c)
  PROVE  IInv'
<1> DEFINE f == call[c]
           t == ttl[f.arg.domain]
<1>1. /\ At(c, "policy")
      /\ call' = [Step(c) EXCEPT ![c].read = <<t>>]
      /\ UNCHANGED <<rows, pending, sweep, roll, now, mix, faults, past>>
  BY DEF ReadPolicy, Jobs
<1>2. /\ c \in Made /\ f # Over /\ Head(f.todo) = "policy"
      /\ CallOK(f, past, comp, mix) /\ DOMAIN f = Fields
  BY <1>1, AtFacts DEF IInv
<1>3. f.todo = <<"policy", "purge", "mark">> /\ RunCall(f, past)
  BY <1>2, Shape
<1>4. PICK e : /\ call' = [call EXCEPT ![c] = e]
               /\ DOMAIN e = Fields /\ e.todo = Tail(f.todo)
               /\ e.arg = f.arg /\ e.read = <<t>> /\ e.inputs = f.inputs
  <2> PICK v : v = t
    OBVIOUS
  <2>1. Len(f.todo) # 1
    BY <1>3
  <2>2. call' = WithRead(c, Single(v))
    BY <1>1 DEF WithRead, Single
  <2> HIDE DEF t
  <2>3. \E e : /\ call' = [call EXCEPT ![c] = e]
               /\ DOMAIN e = Fields /\ e.todo = Tail(f.todo)
               /\ e.arg = f.arg /\ e.read = Single(v)
               /\ e.inputs = f.inputs
    BY <1>2, <2>1, <2>2, KeepRead
  <2> QED
    BY <2>3 DEF Single
<1>5. f.arg \in [domain : Domain]
  BY <1>3 DEF RunCall
<1>6. t \in past.ttls[f.arg.domain]
  BY <1>5 DEF IInv, PastOK
<1>7. e.todo = <<"purge", "mark">>
  BY <1>3, <1>4
<1>8. RunCall(e, past)
  BY <1>4, <1>5, <1>6, <1>7 DEF RunCall
<1> QED
  BY <1>1, <1>2, <1>4, <1>8, WentInv DEF CallOK

\* Looking for the source, setting last_enforced_at, and a call that is dropped.
LEMMA LookInv ==
  ASSUME IInv, NEW c, Exists(c) \/ MarkByHand(c) \/ Drop(c)
  PROVE  IInv'
<1>1. CASE Drop(c)
  BY <1>1, EndedInv DEF Drop, Jobs, Running
<1>2. CASE Exists(c) \/ MarkByHand(c)
  <2>1. PICK s \in {"exists", "mark"} : At(c, s)
    BY <1>2 DEF Exists, MarkByHand
  <2>2. UNCHANGED <<rows, pending, sweep, roll, now, mix, faults, past>>
    BY <1>2 DEF Exists, MarkByHand, Jobs
  <2>3. Ran(c) \/ call' = Ended(c)
    BY <1>2 DEF Exists, MarkByHand, Refused
  <2>4. CASE call' = Ended(c)
    BY <2>1, <2>2, <2>4, AtFacts, EndedInv DEF IInv
  <2>5. CASE Ran(c)
    <3>1. mix' = mix /\ Grows(past, past', comp, comp')
      BY <2>2, GrowsNot DEF rows
    <3>2. CallInv' /\ Made' = Made /\ Len(call') = Len(call)
      BY <2>1, <2>5, <3>1, RanInv DEF IInv
    <3> QED
      BY <2>2, <3>2, QuietInv
  <2> QED
    BY <2>3, <2>4, <2>5
<1> QED
  BY <1>1, <1>2

LEMMA Joined ==
  ASSUME NEW S, NEW one \in Seq(S), NEW two \in Seq(S), NEW all \in Seq(S),
         Len(one) = 1, Len(two) = 2, Len(all) = 3,
         all[1] = one[1], all[2] = two[1], all[3] = two[2]
  PROVE  one \o two = all
<1> DEFINE s == one \o two
<1>1. /\ s \in Seq(S) /\ Len(s) = 3
      /\ \A i \in 1..3 : s[i] = IF i <= 1 THEN one[i] ELSE two[i - 1]
  <2>1. /\ s \in Seq(S) /\ Len(s) = Len(one) + Len(two)
        /\ \A i \in 1..(Len(one) + Len(two)) :
              s[i] = IF i <= Len(one) THEN one[i] ELSE two[i - Len(one)]
    BY ConcatProperties
  <2>2. Len(one) + Len(two) = 3
    OBVIOUS
  <2> QED
    BY <2>1, <2>2
<1> HIDE DEF s
<1>2. s[1] = one[1] /\ s[2] = two[1] /\ s[3] = two[2]
  BY <1>1
<1>3. \A i \in 1..3 : s[i] = all[i]
  BY <1>2
<1>4. s = all
  BY <1>1, <1>3, SeqEqual
<1> QED
  BY <1>4 DEF s

LEMMA Triple ==
  ASSUME NEW a, NEW b, NEW d
  PROVE  <<a>> \o <<b, d>> = <<a, b, d>>
<1> DEFINE S == {a, b, d}
<1>1. PICK one, two, all : one = <<a>> /\ two = <<b, d>> /\ all = <<a, b, d>>
  OBVIOUS
<1>2. /\ one \in Seq(S) /\ two \in Seq(S) /\ all \in Seq(S)
      /\ Len(one) = 1 /\ Len(two) = 2 /\ Len(all) = 3
      /\ all[1] = one[1] /\ all[2] = two[1] /\ all[3] = two[2]
  BY <1>1
<1> HIDE DEF S
<1>3. one \o two = all
  BY <1>2, Joined
<1> QED
  BY <1>1, <1>3

\* The list of a series: its windows, and then the answer.
LEMMA WindowList ==
  ASSUME NEW n \in Nat
  PROVE  LET s == [i \in 1..n |-> "window"] \o <<"answer">> IN
         /\ s \in Seq({"window", "answer"}) /\ Len(s) = n + 1
         /\ s[n + 1] = "answer" /\ \A i \in 1..n : s[i] = "window"
<1> DEFINE w == [i \in 1..n |-> "window"]
           a == <<"answer">>
<1>1. w \in Seq({"window", "answer"}) /\ Len(w) = n /\ \A i \in 1..n : w[i] = "window"
  OBVIOUS
<1>2. a \in Seq({"window", "answer"}) /\ Len(a) = 1 /\ a[1] = "answer"
  OBVIOUS
<1> DEFINE s == w \o a
<1> HIDE DEF w, a
<1>3. /\ s \in Seq({"window", "answer"}) /\ Len(s) = n + 1
      /\ \A i \in 1..(n + 1) : s[i] = IF i <= n THEN w[i] ELSE a[i - n]
  <2>1. /\ s \in Seq({"window", "answer"}) /\ Len(s) = Len(w) + Len(a)
        /\ \A i \in 1..(Len(w) + Len(a)) :
              s[i] = IF i <= Len(w) THEN w[i] ELSE a[i - Len(w)]
    <3> DEFINE S == {"window", "answer"}
    <3>1. w \in Seq(S) /\ a \in Seq(S)
      BY <1>1, <1>2
    <3> HIDE DEF S
    <3>2. /\ s \in Seq(S) /\ Len(s) = Len(w) + Len(a)
          /\ \A i \in 1..(Len(w) + Len(a)) :
                s[i] = IF i <= Len(w) THEN w[i] ELSE a[i - Len(w)]
      BY <3>1, ConcatProperties
    <3> QED
      BY <3>2 DEF S
  <2> HIDE DEF s
  <2> QED
    BY <1>1, <1>2, <2>1
<1> HIDE DEF s
<1>4. \A i \in 1..n : s[i] = w[i]
  BY <1>3
<1>5. s[n + 1] = a[1]
  BY <1>3
<1> QED
  BY <1>1, <1>2, <1>3, <1>4, <1>5 DEF w, a, s

LEMMA StoredInv ==
  ASSUME IInv, NEW c, Stored(c)
  PROVE  IInv'
<1> DEFINE f == call[c]
           row == f.read[1]
           ids == {k.id : k \in {k \in comp : k.def = f.arg.def}}
           todo == [i \in 1..Len(Used(row)) |-> "window"] \o <<"answer">>
           read == f.read \o <<now, ids>>
           t == [f EXCEPT !.todo = todo]
           e == [t EXCEPT !.read = read]
<1>1. /\ At(c, "stored")
      /\ call' = [call EXCEPT ![c].todo = todo, ![c].read = @ \o <<now, ids>>]
      /\ UNCHANGED <<rows, pending, sweep, roll, now, mix, faults, past>>
  BY DEF Stored, Jobs
<1>2. /\ c \in Made /\ f # Over /\ Head(f.todo) = "stored"
      /\ CallOK(f, past, comp, mix) /\ DOMAIN f = Fields
  BY <1>1, AtFacts DEF IInv
<1>3. f.todo = <<"stored">> /\ SeriesCall(f, past, comp)
  BY <1>2, Shape
<1>4. /\ f.arg \in [def : Def] /\ f.inputs = {}
      /\ \E x \in past.rows[f.arg.def] : f.read = <<x>>
  <2>1. ~Computing(f, past, comp)
    <3>1. Head(f.todo) # "window" /\ Head(f.todo) # "answer"
      BY <1>2
    <3> QED
      BY <3>1, ComputingHead
  <2> QED
    BY <1>3, <2>1 DEF SeriesCall
<1>5. row \in past.rows[f.arg.def] /\ f.read = <<row>>
  BY <1>4
<1>6. call' = [call EXCEPT ![c] = e]
  <2> HIDE DEF todo, ids
  <2> QED
    BY <1>1, <1>2 DEF Made, Fields
<1>7. read = <<row, now, ids>>
  <2> HIDE DEF row, ids
  <2> QED
    BY <1>5, Triple
<1>8. row \in Row /\ now \in Int
  <2>1. f.arg.def \in Def
    BY <1>4
  <2>2. past.rows \in [Def -> SUBSET Row] /\ now \in Nat
    BY BoundAssumption DEF IInv, PastOK, TypeOK
  <2> QED
    BY <1>5, <2>1, <2>2
<1>9. Len(Used(row)) \in Nat
  <2>1. Used(row) \in Seq(Source)
    BY <1>8, UsedFacts
  <2> QED
    BY <2>1
<1>10. /\ todo \in Seq({"window", "answer"}) /\ Len(todo) = Len(Used(row)) + 1
       /\ todo[Len(Used(row)) + 1] = "answer"
       /\ \A i \in 1..Len(Used(row)) : todo[i] = "window"
  BY <1>9, WindowList
<1>11. /\ DOMAIN e = Fields /\ e.todo = todo /\ e.read = read
       /\ e.arg = f.arg /\ e.inputs = f.inputs
  <2> HIDE DEF f, todo, read
  <2> QED
    BY <1>2 DEF Fields
<1>12. ids \subseteq {j.id : j \in comp}
  OBVIOUS
<1>13. Computing(e, past, comp)
  <2> DEFINE n == Len(Used(row))
  <2>1. /\ e.read[1] = row /\ e.read[2] = now /\ e.read[3] = ids
        /\ e.read = <<e.read[1], e.read[2], e.read[3]>>
    <3> HIDE DEF e, read, ids, row
    <3> QED
      BY <1>7, <1>11
  <2>2. InputsOK(e.inputs, e.read[1], e.read[2])
    BY <1>4, <1>11 DEF InputsOK
  <2>3. /\ Len(e.todo) = n + 1 /\ n \in Nat /\ n + 1 > 0 /\ n + 1 - 1 = n
        /\ e.todo \in Seq({"window", "answer"}) /\ e.todo[n + 1] = "answer"
        /\ \A i \in 1..n : e.todo[i] = "window"
    <3> HIDE DEF e, todo, row
    <3> QED
      BY <1>9, <1>10, <1>11
  <2> HIDE DEF e, todo, read, row, ids, n
  <2>4. Len(Used(e.read[1])) = n
    BY <2>1 DEF n
  <2>5. e.arg \in [def : Def] /\ row \in past.rows[e.arg.def]
    BY <1>4, <1>5, <1>11
  <2> QED
    BY <1>8, <1>12, <2>1, <2>2, <2>3, <2>4, <2>5 DEF Computing
<1> HIDE DEF e
<1>14. CallOK(e, past, comp, mix)
  BY <1>11, <1>13 DEF CallOK, SeriesCall
<1> QED
  BY <1>1, <1>2, <1>6, <1>14, WentInv

\* The list of a series goes on to be one.
LEMMA ListGoesOn ==
  ASSUME NEW s \in Seq({"window", "answer"}), Len(s) > 1, s[Len(s)] = "answer",
         \A i \in 1..(Len(s) - 1) : s[i] = "window"
  PROVE  LET t == Tail(s) IN
         /\ t \in Seq({"window", "answer"}) /\ Len(t) = Len(s) - 1 /\ Len(t) > 0
         /\ t[Len(t)] = "answer" /\ \A i \in 1..(Len(t) - 1) : t[i] = "window"
<1> DEFINE t == Tail(s)
           n == Len(s)
<1>1. n \in Nat
  OBVIOUS
<1>2. /\ t \in Seq({"window", "answer"}) /\ Len(t) = n - 1
      /\ \A i \in 1..(n - 1) : t[i] = s[i + 1]
  <2>1. s # <<>>
    OBVIOUS
  <2>2. \A S : s \in Seq(S) =>
           t \in Seq(S) /\ Len(t) = n - 1 /\ \A i \in 1..Len(t) : t[i] = s[i + 1]
    BY <2>1, HeadTailProperties
  <2> HIDE DEF t, n
  <2> QED
    BY <2>2
<1>3. n > 1 /\ s[n] = "answer" /\ \A i \in 1..(n - 1) : s[i] = "window"
  OBVIOUS
<1> HIDE DEF t, n
<1>4. \A k \in Nat : k > 1 => /\ k - 1 \in 1..(k - 1) /\ (k - 1) + 1 = k
                              /\ \A i \in 1..(k - 1 - 1) : /\ i \in 1..(k - 1)
                                                           /\ i + 1 \in 1..(k - 1)
  OBVIOUS
<1>5. t[n - 1] = "answer" /\ \A i \in 1..(n - 1 - 1) : t[i] = "window"
  BY <1>1, <1>2, <1>3, <1>4
<1>6. n - 1 > 0
  BY <1>1, <1>3
<1> QED
  BY <1>2, <1>5, <1>6 DEF t, n

LEMMA FetchWindowInv ==
  ASSUME IInv, NEW c, FetchWindow(c)
  PROVE  IInv'
<1> DEFINE f == call[c]
           row == f.read[1]
           more == {o \in obs : /\ o.source \in SourceOf(c)
                                /\ o.at \in (f.read[2] - Window)..f.read[2]}
<1>1. /\ At(c, "window")
      /\ call' = [Step(c) EXCEPT ![c].inputs = @ \cup more]
      /\ UNCHANGED <<rows, pending, sweep, roll, now, mix, faults, past>>
  BY DEF FetchWindow, Jobs
<1>2. /\ c \in Made /\ f # Over /\ Head(f.todo) = "window"
      /\ CallOK(f, past, comp, mix) /\ DOMAIN f = Fields
  BY <1>1, AtFacts DEF IInv
<1>3. Computing(f, past, comp) /\ Len(f.todo) > 1
  BY <1>2, Shape
<1>4. Len(f.todo) \in Nat /\ Len(f.todo) # 1
  <2>1. Len(f.todo) \in Nat \ {0}
    BY <1>3, ComputingHead
  <2>2. \A n \in Nat : n > 1 => n # 1
    OBVIOUS
  <2> QED
    BY <1>3, <2>1, <2>2
<1>5. Step(c)[c].inputs = f.inputs
  <2>1. PICK e : Step(c) = [call EXCEPT ![c] = e] /\ e.inputs = f.inputs
    BY <1>2, <1>4, StepFacts DEF IInv
  <2> QED
    BY <1>2, <2>1 DEF Made
<1>6. PICK v : v = f.inputs \cup more
  OBVIOUS
<1>7. call' = WithInputs(c, v)
  <2> HIDE DEF f, more
  <2> QED
    BY <1>1, <1>5, <1>6 DEF WithInputs
<1>8. PICK e : /\ call' = [call EXCEPT ![c] = e]
               /\ DOMAIN e = Fields /\ e.todo = Tail(f.todo)
               /\ e.arg = f.arg /\ e.read = f.read /\ e.inputs = v
  BY <1>2, <1>4, <1>7, KeepInputs
<1>9. /\ f.todo \in Seq({"window", "answer"}) /\ f.todo[Len(f.todo)] = "answer"
      /\ \A i \in 1..(Len(f.todo) - 1) : f.todo[i] = "window"
      /\ f.arg \in [def : Def] /\ f.read = <<row, f.read[2], f.read[3]>>
      /\ row \in past.rows[f.arg.def] /\ Len(f.todo) <= Len(Used(row)) + 1
      /\ f.read[2] \in Int /\ f.read[3] \subseteq {j.id : j \in comp}
      /\ InputsOK(f.inputs, row, f.read[2])
  BY <1>3 DEF Computing
<1>10. /\ e.todo \in Seq({"window", "answer"}) /\ Len(e.todo) = Len(f.todo) - 1
       /\ Len(e.todo) > 0 /\ e.todo[Len(e.todo)] = "answer"
       /\ \A i \in 1..(Len(e.todo) - 1) : e.todo[i] = "window"
  BY <1>3, <1>8, <1>9, ListGoesOn
<1>11. row \in Row
  <2>1. f.arg.def \in Def
    BY <1>9
  <2>2. past.rows \in [Def -> SUBSET Row]
    BY DEF IInv, PastOK
  <2> QED
    BY <1>9, <2>1, <2>2
<1>12. Used(row) \in Seq(Source) /\ Len(Used(row)) \in Nat
  <2>1. Used(row) \in Seq(Source)
    BY <1>11, UsedFacts
  <2> QED
    BY <2>1
<1>13. InputsOK(v, row, f.read[2])
  <2> DEFINE list == Used(row)
             i == Len(list) + 2 - Len(f.todo)
  <2>1. SourceOf(c) = {list[i]}
    BY DEF SourceOf
  <2>2. i \in 1..Len(list)
    <3>1. \A m, n \in Nat : n > 1 /\ n <= m + 1 => m + 2 - n \in 1..m
      OBVIOUS
    <3> QED
      BY <1>3, <1>4, <1>9, <1>12, <3>1
  <2>3. i \in DOMAIN list
    <3>1. DOMAIN list = 1..Len(list)
      BY <1>12, LenProperties
    <3> QED
      BY <2>2, <3>1
  <2>4. obs \subseteq Observation
    BY DEF IInv, TypeOK
  <2> HIDE DEF i
  <2>5. \A o \in more : /\ o \in Observation
                        /\ o.at \in (f.read[2] - Window)..f.read[2]
                        /\ list[i] = o.source
    BY <2>1, <2>4
  <2> HIDE DEF more, f
  <2> QED
    BY <1>6, <1>9, <2>3, <2>5 DEF InputsOK
<1>14. Computing(e, past, comp)
  <2>1. Len(e.todo) <= Len(Used(row)) + 1
    <3>1. \A m, n \in Nat : n <= m + 1 => n - 1 <= m + 1
      OBVIOUS
    <3> QED
      BY <1>4, <1>9, <1>10, <1>12, <3>1
  <2> HIDE DEF f, row, more
  <2> QED
    BY <1>8, <1>9, <1>10, <1>13, <2>1 DEF Computing, row
<1>15. CallOK(e, past, comp, mix)
  BY <1>8, <1>14 DEF CallOK, SeriesCall
<1> QED
  BY <1>1, <1>2, <1>8, <1>15, WentInv

-----------------------------------------------------------------------------
(* The statements that write one table *)

\* A statement that keeps nothing was run or refused.
LEMMA CalledInv ==
  ASSUME TypeOK, CallInv, NEW c, NEW s, At(c, s), Ran(c) \/ Refused(c),
         s \in {"exists", "put", "unsource", "drop", "store", "find",
                "describe", "ttl", "purge", "mark", "feedback", "issue", "answer"},
         mix' = mix, Grows(past, past', comp, comp')
  PROVE  CallInv' /\ Made' = Made /\ Len(call') = Len(call)
<1>1. CASE Ran(c)
  BY <1>1, RanInv
<1>2. CASE Refused(c)
  <2>1. c \in Made /\ call' = [call EXCEPT ![c] = Over]
    BY <1>2, AtFacts DEF Refused, Ended
  <2>2. CallOK(Over, past', comp', mix)
    BY OverOK
  <2> QED
    BY <2>1, <2>2, CallMoved
<1> QED
  BY <1>1, <1>2

\* Observations, sources, feedback and sessions change; history does not.
LEMMA PlainInv ==
  ASSUME IInv, CallInv', Made' = Made, Len(call') = Len(call),
         UNCHANGED <<def, comp, rollup, ttl, pending, sweep, roll, now, mix,
                     faults, past>>,
         obs' \subseteq Observation, source' \subseteq Source,
         feedback' \subseteq [id : Made, owner : Person], IssuedOK'
  PROVE  IInv'
<1>1. TypeOK'
  <2>1. obs' \subseteq Observation' /\ source' \subseteq Source
        /\ feedback' \subseteq [id : Made, owner : Person]'
    BY DEF Observation
  <2>2. /\ \A d \in Def : def'[d] \in Row'
        /\ \A c \in comp' \cup pending' :
              c.id \in Made' /\ c.inputs \subseteq Observation'
        /\ \A r \in rollup' : r.kind \in Kind /\ r.day <= Today' /\ r.of \subseteq Made'
    BY DEF IInv, TypeOK, Observation, Row, Today
  <2>3. /\ ttl' \in [Domain -> mix'.ttls]
        /\ Made' = 1..Len(call') /\ Len(call') <= mix'.calls
        /\ roll'.pc \in {"idle", "insert"} /\ sweep'.pc \in {"idle", "delete", "mark"}
        /\ mix' \in Mixes /\ now' \in 0..mix'.time /\ faults' \in 0..mix'.faults
    BY DEF IInv, TypeOK
  <2> QED
    BY <2>1, <2>2, <2>3 DEF TypeOK
<1>2. /\ PastOK' /\ SweepInv' /\ TimeInv' /\ ShownInv'
      /\ YoungStay' /\ IdsResolve' /\ DayIsWhole' /\ InputsOfOneVersion'
  BY Frames
<1> QED
  BY <1>1, <1>2 DEF IInv

LEMMA PutInv ==
  ASSUME IInv, NEW c, Put(c)
  PROVE  IInv'
<1> DEFINE f == call[c]
           new == [id |-> 2 * c + Len(f.todo), source |-> f.arg.source,
                   at |-> f.arg.at]
<1>1. /\ At(c, "put") /\ Ran(c) /\ obs' = obs \cup {new}
      /\ UNCHANGED <<def, comp, rollup, ttl, pending, sweep, roll, now, mix,
                     faults, past>>
      /\ UNCHANGED <<source, feedback, issued>>
  BY DEF Put, Jobs
<1>2. CallInv' /\ Made' = Made /\ Len(call') = Len(call)
  <2>1. Grows(past, past', comp, comp')
    BY <1>1, GrowsNot
  <2> QED
    BY <1>1, <2>1, CalledInv DEF IInv
<1>3. /\ f.todo \in {<<"put", "put">>, <<"put">>} /\ BulkCall(f) /\ c \in Nat
  BY <1>1, AtFacts, Shape DEF IInv
<1>4. new \in Observation
  <2>1. f.arg \in [source : Source, at : Int]
    BY <1>3 DEF BulkCall
  <2>2. Len(f.todo) \in Nat
    BY <1>3
  <2>3. 2 * c + Len(f.todo) \in Nat
    <3>1. \A i, n \in Nat : 2 * i + n \in Nat
      OBVIOUS
    <3> QED
      BY <1>3, <2>2, <3>1
  <2> QED
    BY <2>1, <2>3 DEF Observation
<1>5. /\ obs' \subseteq Observation /\ source' \subseteq Source
      /\ feedback' \subseteq [id : Made, owner : Person]
  BY <1>1, <1>4 DEF IInv, TypeOK
<1>6. IssuedOK'
  BY <1>1, Frames
<1> QED
  BY <1>1, <1>2, <1>5, <1>6, PlainInv

\* Deleting a source, giving feedback and getting a session.
LEMMA SmallInv ==
  ASSUME IInv, NEW c, SoftDeleteSource(c) \/ GiveFeedback(c) \/ Issue(c)
  PROVE  IInv'
<1> DEFINE f == call[c]
<1>1. PICK s \in {"unsource", "feedback", "issue"} : At(c, s)
  BY DEF SoftDeleteSource, GiveFeedback, Issue
<1>2. /\ Ran(c) \/ Refused(c)
      /\ UNCHANGED <<def, comp, rollup, ttl, pending, sweep, roll, now, mix,
                     faults, past>>
      /\ UNCHANGED obs
  BY DEF SoftDeleteSource, GiveFeedback, Issue, Jobs
<1>3. CallInv' /\ Made' = Made /\ Len(call') = Len(call)
  <2>1. Grows(past, past', comp, comp')
    BY <1>2, GrowsNot
  <2> QED
    BY <1>1, <1>2, <2>1, CalledInv DEF IInv
<1>4. c \in Made /\ f # Over /\ CallOK(f, past, comp, mix) /\ Head(f.todo) = s
  BY <1>1, AtFacts DEF IInv
<1>5. s \in {"feedback", "issue"} => f.arg \in Person
  <2>1. s \in {"feedback", "issue"} => f.todo \in {<<"feedback">>, <<"issue">>}
                                       /\ SingleCall(f, mix)
    BY <1>4, Shape
  <2> QED
    BY <2>1 DEF SingleCall
<1>6. CASE SoftDeleteSource(c)
  <2>1. source' = source \ {f.arg} /\ UNCHANGED <<feedback, issued>>
    BY <1>6 DEF SoftDeleteSource
  <2>2. /\ obs' \subseteq Observation /\ source' \subseteq Source
        /\ feedback' \subseteq [id : Made, owner : Person]
    BY <1>2, <2>1 DEF IInv, TypeOK
  <2>3. IssuedOK'
    BY <1>2, <2>1, Frames
  <2> QED
    BY <1>2, <1>3, <2>2, <2>3, PlainInv
<1>7. CASE GiveFeedback(c)
  <2>1. /\ feedback' = feedback \cup {[id |-> c, owner |-> f.arg]}
        /\ At(c, "feedback") /\ UNCHANGED <<source, issued>>
    BY <1>7 DEF GiveFeedback
  <2>2. f.arg \in Person
    BY <1>4, <1>5, <2>1 DEF At
  <2>3. /\ obs' \subseteq Observation /\ source' \subseteq Source
        /\ feedback' \subseteq [id : Made, owner : Person]
    BY <1>2, <1>4, <2>1, <2>2 DEF IInv, TypeOK
  <2>4. IssuedOK'
    BY <1>2, <2>1, Frames
  <2> QED
    BY <1>2, <1>3, <2>3, <2>4, PlainInv
<1>8. CASE Issue(c)
  <2>1. /\ issued' = [issued EXCEPT ![f.arg] = <<now>>]
        /\ At(c, "issue") /\ UNCHANGED <<source, feedback>>
    BY <1>8 DEF Issue
  <2>2. f.arg \in Person
    BY <1>4, <1>5, <2>1 DEF At
  <2>3. /\ obs' \subseteq Observation /\ source' \subseteq Source
        /\ feedback' \subseteq [id : Made, owner : Person]
    BY <1>2, <2>1 DEF IInv, TypeOK
  <2>4. now \in Nat /\ issued \in [Person -> Seq(Nat)]
    BY BoundAssumption DEF IInv, TypeOK, IssuedOK
  <2>5. <<now>> \in Seq(Nat)
    BY <2>4
  <2>6. IssuedOK'
    BY <2>1, <2>2, <2>4, <2>5 DEF IssuedOK
  <2> QED
    BY <1>2, <1>3, <2>3, <2>6, PlainInv
<1> QED
  BY <1>6, <1>7, <1>8

-----------------------------------------------------------------------------
(* Definitions *)

\* A day stays averaged whole when definitions change: where there was only ever
\* one version of each, kinds are as they were.
LEMMA DayKept ==
  ASSUME IInv, PastOK', UNCHANGED <<comp, rollup>>,
         \A d \in Def : past.rows[d] \subseteq past'.rows[d]
  PROVE  DayIsWhole'
<1>1. SUFFICES ASSUME \A d \in Def : Cardinality(past'.rows[d]) = 1
               PROVE  DayIsWhole'
  BY DEF DayIsWhole
<1>2. \A d \in Def : Cardinality(past.rows[d]) = 1 /\ def'[d].kind = def[d].kind
  <2> SUFFICES ASSUME NEW d \in Def
               PROVE  Cardinality(past.rows[d]) = 1 /\ def'[d].kind = def[d].kind
    OBVIOUS
  <2>1. PICK r \in past.rows[d] : r.kind = def[d].kind
    BY DEF IInv, PastOK
  <2>2. PICK s \in past'.rows[d] : s.kind = def'[d].kind
    BY DEF PastOK
  <2>3. IsFiniteSet(past'.rows[d])
    BY DEF PastOK
  <2>4. PICK x : past'.rows[d] = {x}
    BY <1>1, <2>3, FS_Singleton
  <2>5. past.rows[d] = {x} /\ r = x /\ s = x
    BY <2>1, <2>2, <2>4
  <2>6. Cardinality(past.rows[d]) = 1
    BY <2>5, FS_Singleton
  <2> QED
    BY <2>1, <2>2, <2>5, <2>6
<1>3. \A k \in comp : Key(k)' = Key(k)
  BY <1>2 DEF Key, Day, IInv, TimeInv
<1>4. \A r \in rollup : KeyOf(r)' = KeyOf(r)
  BY DEF KeyOf
<1> QED
  BY <1>2, <1>3, <1>4 DEF IInv, DayIsWhole

LEMMA VersionKept ==
  ASSUME IInv, UNCHANGED <<comp, pending>>,
         \A d \in Def : past.rows[d] \subseteq past'.rows[d]
  PROVE  InputsOfOneVersion'
<1> SUFFICES ASSUME NEW k \in comp' \cup pending'
             PROVE  (\E row \in past.rows[k.def] :
                       /\ row.kind = k.kind
                       /\ \A o \in k.inputs :
                             /\ o.at \in (k.to - Window)..k.to
                             /\ \E i \in DOMAIN Used(row) : Used(row)[i] = o.source)'
  BY DEF InputsOfOneVersion
<1>1. k \in comp \cup pending /\ k.def \in Def
  BY DEF IInv, TimeInv
<1>2. PICK row \in past.rows[k.def] :
         /\ row.kind = k.kind
         /\ \A o \in k.inputs :
               /\ o.at \in (k.to - Window)..k.to
               /\ \E i \in DOMAIN Used(row) : Used(row)[i] = o.source
  BY <1>1 DEF IInv, InputsOfOneVersion
<1>3. row \in past'.rows[k.def]
  BY <1>1, <1>2
<1> QED
  BY <1>2, <1>3

LEMMA SoftDeleteInv ==
  ASSUME IInv, NEW c, SoftDelete(c)
  PROVE  IInv'
<1> DEFINE f == call[c]
           d == f.arg.def
<1>1. /\ At(c, "drop") /\ (Ran(c) \/ Refused(c))
      /\ def' = [def EXCEPT ![d].live = FALSE]
      /\ UNCHANGED <<obs, source, comp, rollup, ttl, feedback, issued, pending,
                     sweep, roll, now, mix, faults, past>>
  BY DEF SoftDelete, Jobs
<1>2. CallInv' /\ Made' = Made /\ Len(call') = Len(call)
  <2>1. Grows(past, past', comp, comp')
    BY <1>1, GrowsNot
  <2> QED
    BY <1>1, <2>1, CalledInv DEF IInv
<1>3. d \in Def
  <2>1. /\ f # Over /\ CallOK(f, past, comp, mix) /\ Head(f.todo) = "drop"
    BY <1>1, AtFacts DEF IInv
  <2>2. f.todo = <<"drop">> /\ SingleCall(f, mix)
    BY <2>1, Shape
  <2> QED
    BY <2>2 DEF SingleCall
<1> HIDE DEF d
<1>4. DOMAIN def = Def /\ \A e \in Def : def[e] \in Row
  BY DEF IInv, PastOK, TypeOK
<1>5. /\ DOMAIN def' = Def /\ def'[d] = [def[d] EXCEPT !.live = FALSE]
      /\ \A e \in Def \ {d} : def'[e] = def[e]
  BY <1>1, <1>3, <1>4
<1>6. def'[d] \in Row /\ def'[d].live = FALSE /\ def'[d].kind = def[d].kind
  <2>1. \A r \in Row : LET s == [r EXCEPT !.live = FALSE] IN
           s \in Row /\ s.live = FALSE /\ s.kind = r.kind
    BY DEF Row
  <2> QED
    BY <1>3, <1>4, <1>5, <2>1
<1>7. TypeOK'
  <2>1. \A e \in Def : def'[e] \in Row
    BY <1>4, <1>5, <1>6
  <2> QED
    BY <1>1, <1>2, <2>1 DEF IInv, TypeOK, Observation, Row, Today
<1>8. PastOK'
  <2>1. \A e \in Def : def'[e].kind = def[e].kind
    BY <1>5, <1>6
  <2>2. \A e \in Def : def'[e].live => e # d /\ def'[e] = def[e]
    BY <1>5, <1>6
  <2>3. /\ past'.rows = past.rows /\ past'.ttls = past.ttls /\ ttl' = ttl
        /\ DOMAIN past' = DOMAIN past
    BY <1>1
  <2>4. \A e \in Def : /\ IsFiniteSet(past.rows[e])
                       /\ \E row \in past.rows[e] : row.kind = def[e].kind
                       /\ def[e].live => def[e] \in past.rows[e]
    BY DEF IInv, PastOK
  <2>5. \A e \in Def : /\ IsFiniteSet(past'.rows[e])
                       /\ \E row \in past'.rows[e] : row.kind = def'[e].kind
                       /\ def'[e].live => def'[e] \in past'.rows[e]
    BY <2>1, <2>2, <2>3, <2>4
  <2>6. /\ DOMAIN past = {"ttls", "lost", "gone", "rows", "shown", "missed"}
        /\ past.ttls \in [Domain -> SUBSET Nat] /\ past.rows \in [Def -> SUBSET Row]
        /\ \A e \in Domain : ttl[e] \in past.ttls[e]
    BY DEF IInv, PastOK
  <2>7. /\ DOMAIN past' = {"ttls", "lost", "gone", "rows", "shown", "missed"}
        /\ past'.ttls \in [Domain -> SUBSET Nat] /\ past'.rows \in [Def -> SUBSET Row]
        /\ \A e \in Domain : ttl'[e] \in past'.ttls[e]
    BY <2>3, <2>6
  <2> QED
    BY <1>5, <2>5, <2>7 DEF PastOK, Row
<1>9. DayIsWhole' /\ InputsOfOneVersion'
  BY <1>1, <1>8, DayKept, VersionKept
<1>10. IssuedOK' /\ SweepInv' /\ TimeInv' /\ ShownInv' /\ YoungStay' /\ IdsResolve'
  BY <1>1, Frames
<1> QED
  BY <1>2, <1>7, <1>8, <1>9, <1>10 DEF IInv

\* What a PATCH writes.
LEMMA StoredRow ==
  ASSUME PastOK, mix \in Mixes, NEW f, PatchCall(f, past, mix), f.todo = <<"store">>
  PROVE  /\ f.arg.def \in Def
         /\ [kind |-> IF f.arg.kind = "" THEN f.read[1].kind ELSE f.arg.kind,
             sources |-> IF f.arg.sources = <<>> THEN f.read[1].sources
                         ELSE f.arg.sources[1],
             live |-> TRUE] \in Row
<1> DEFINE a == f.arg
<1>1. /\ a \in [def : Def, kind : mix.formulas \cup {""},
                sources : {<<l>> : l \in mix.lists} \cup {<<>>}]
      /\ \E row \in past.rows[a.def] : f.read = <<row>>
  BY DEF PatchCall
<1>2. a.def \in Def /\ a.kind \in mix.formulas \cup {""}
      /\ a.sources \in {<<l>> : l \in mix.lists} \cup {<<>>}
  BY <1>1
<1>3. f.read[1] \in Row
  <2>1. past.rows \in [Def -> SUBSET Row]
    BY DEF PastOK
  <2>2. PICK row \in past.rows[a.def] : f.read = <<row>>
    BY <1>1
  <2>3. row \in Row
    BY <1>2, <2>1, <2>2
  <2> QED
    BY <2>2, <2>3
<1>4. f.read[1].kind \in Kind /\ f.read[1].sources \in Seq(Source)
  BY <1>3 DEF Row
<1>5. a.kind # "" => a.kind \in Kind
  BY <1>2, BoundAssumption
<1>6. a.sources # <<>> => a.sources[1] \in Seq(Source)
  <2>1. \A l \in mix.lists : l \in Seq(Source)
    BY BoundAssumption
  <2>2. a.sources # <<>> => \E l \in mix.lists : a.sources = <<l>>
    BY <1>2
  <2> QED
    BY <2>1, <2>2
<1> HIDE DEF a
<1> QED
  BY <1>2, <1>4, <1>5, <1>6 DEF a, Row

LEMMA StoreInv ==
  ASSUME IInv, NEW c, Store(c)
  PROVE  IInv'
<1> DEFINE f == call[c]
           a == f.arg
           d == a.def
           new == [kind |-> IF a.kind = "" THEN f.read[1].kind ELSE a.kind,
                   sources |-> IF a.sources = <<>> THEN f.read[1].sources
                               ELSE a.sources[1],
                   live |-> TRUE]
<1>1. /\ At(c, "store")
      /\ \/ /\ def' = [def EXCEPT ![d] = new]
            /\ past' = [past EXCEPT !.rows[d] = @ \cup {new}]
            /\ Ran(c)
         \/ call' = Ended(c) /\ UNCHANGED <<def, past>>
      /\ UNCHANGED <<obs, source, comp, rollup, ttl, feedback, issued, pending,
                     sweep, roll, now, mix, faults>>
  BY DEF Store, Jobs, Refused
<1>2. /\ c \in Made /\ f # Over /\ Head(f.todo) = "store"
      /\ CallOK(f, past, comp, mix)
  BY <1>1, AtFacts DEF IInv
<1>3. f.todo = <<"store">> /\ PatchCall(f, past, mix)
  BY <1>2, Shape
<1>4. d \in Def /\ new \in Row
  BY <1>3, StoredRow DEF IInv, TypeOK
<1>5. CASE call' = Ended(c) /\ UNCHANGED <<def, past>>
  BY <1>1, <1>2, <1>5, EndedInv DEF rows
<1>6. CASE /\ def' = [def EXCEPT ![d] = new]
           /\ past' = [past EXCEPT !.rows[d] = @ \cup {new}]
           /\ Ran(c)
  <2> PICK n, e : n = new /\ e = d
    OBVIOUS
  <2>1. e \in Def /\ n \in Row /\ n.live = TRUE
    BY <1>4
  <2>2. /\ def' = [def EXCEPT ![e] = n]
        /\ past' = [past EXCEPT !.rows[e] = @ \cup {n}]
    BY <1>6
  <2> HIDE DEF new, a, d, f
  <2>3. /\ DOMAIN past = {"ttls", "lost", "gone", "rows", "shown", "missed"}
        /\ past.ttls \in [Domain -> SUBSET Nat] /\ past.rows \in [Def -> SUBSET Row]
        /\ DOMAIN def = Def /\ \A g \in Domain : ttl[g] \in past.ttls[g]
        /\ \A g \in Def :
              /\ IsFiniteSet(past.rows[g])
              /\ \E row \in past.rows[g] : row.kind = def[g].kind
              /\ def[g].live => def[g] \in past.rows[g]
    BY DEF IInv, PastOK
  <2>4. /\ DOMAIN past' = DOMAIN past /\ past'.ttls = past.ttls
        /\ past'.lost = past.lost /\ past'.gone = past.gone
        /\ past'.shown = past.shown /\ past'.missed = past.missed
        /\ past'.rows = [past.rows EXCEPT ![e] = @ \cup {n}]
    BY <2>2, <2>3
  <2>5. \A g \in Def : past.rows[g] \subseteq past'.rows[g]
    BY <2>3, <2>4
  <2>6. n \in past'.rows[e] /\ def'[e] = n /\ DOMAIN def' = Def
        /\ \A g \in Def \ {e} : def'[g] = def[g] /\ past'.rows[g] = past.rows[g]
    BY <2>1, <2>2, <2>3, <2>4
  <2>7. Grows(past, past', comp, comp')
    BY <1>1, <2>4, <2>5 DEF Grows
  <2>8. CallInv' /\ Made' = Made /\ Len(call') = Len(call)
    BY <1>1, <1>6, <2>7, CalledInv DEF IInv
  <2>9. TypeOK'
    <3>1. \A g \in Def : def[g] \in Row
      BY DEF IInv, TypeOK
    <3>2. \A g \in Def : def'[g] \in Row
      BY <2>1, <2>6, <3>1
    <3> QED
      BY <1>1, <2>8, <3>2 DEF IInv, TypeOK, Observation, Row, Today
  <2>10. PastOK'
    <3>1. past'.rows[e] = past.rows[e] \cup {n}
      BY <2>1, <2>3, <2>4
    <3>2. IsFiniteSet(past'.rows[e])
      BY <2>1, <2>3, <3>1, FS_AddElement
    <3>3. past'.rows \in [Def -> SUBSET Row]
      BY <2>1, <2>3, <2>4
    <3>4. \A g \in Def :
              /\ IsFiniteSet(past'.rows[g])
              /\ \E row \in past'.rows[g] : row.kind = def'[g].kind
              /\ def'[g].live => def'[g] \in past'.rows[g]
      BY <2>3, <2>6, <3>2
    <3>5. /\ past'.ttls \in [Domain -> SUBSET Nat]
          /\ \A g \in Domain : ttl'[g] \in past'.ttls[g]
          /\ DOMAIN past' = {"ttls", "lost", "gone", "rows", "shown", "missed"}
      BY <1>1, <2>3, <2>4
    <3> QED
      BY <2>6, <3>3, <3>4, <3>5 DEF PastOK, Row
  <2>11. DayIsWhole' /\ InputsOfOneVersion'
    BY <1>1, <2>5, <2>10, DayKept, VersionKept
  <2>12. IssuedOK' /\ SweepInv' /\ TimeInv'
    BY <1>1, <2>4, Frames
  <2>13. ShownInv' /\ YoungStay' /\ IdsResolve'
    BY <1>1, <2>4 DEF IInv, ShownInv, YoungStay, IdsResolve
  <2> QED
    BY <2>8, <2>9, <2>10, <2>11, <2>12, <2>13 DEF IInv
<1> QED
  BY <1>1, <1>5, <1>6

-----------------------------------------------------------------------------
(* Computations *)

\* What is known of a fresh computation before its INSERT.
LEMMA FreshFacts ==
  ASSUME IInv, NEW c \in Made, NEW f, f = call[c], Computing(f, past, comp)
  PROVE  /\ f.arg.def \in Def /\ f.inputs \subseteq Observation
         /\ \E row \in past.rows[f.arg.def] :
               /\ row.kind = f.read[1].kind
               /\ \A o \in f.inputs :
                     /\ o.at \in (f.read[2] - Window)..f.read[2]
                     /\ \E i \in DOMAIN Used(row) : Used(row)[i] = o.source
         /\ f.read[3] \subseteq {j.id : j \in comp}
<1>1. /\ f.arg \in [def : Def] /\ f.read[1] \in past.rows[f.arg.def]
      /\ f.read[3] \subseteq {j.id : j \in comp}
      /\ InputsOK(f.inputs, f.read[1], f.read[2])
  BY DEF Computing
<1> QED
  BY <1>1 DEF InputsOK

\* An answer, with or without a fresh computation.
LEMMA AnswerSeriesInv ==
  ASSUME IInv, NEW c, AnswerSeries(c)
  PROVE  IInv'
<1> DEFINE f == call[c]
           new == [id |-> c, def |-> f.arg.def, kind |-> f.read[1].kind,
                   inputs |-> f.inputs, to |-> f.read[2]]
<1>1. /\ At(c, "answer") /\ Ran(c)
      /\ UNCHANGED <<obs, source, def, comp, rollup, ttl, feedback, issued>>
      /\ UNCHANGED <<sweep, roll, now, mix, faults>>
  BY DEF AnswerSeries, Jobs, rows
<1>2. PICK fresh :
         /\ pending' = IF fresh THEN pending \cup {new} ELSE pending
         /\ past' = [past EXCEPT !.shown = @ \cup f.read[3]
                                             \cup (IF fresh THEN {c} ELSE {})]
  BY DEF AnswerSeries
<1>3. /\ c \in Made /\ f # Over /\ Head(f.todo) = "answer"
      /\ CallOK(f, past, comp, mix)
  BY <1>1, AtFacts DEF IInv
<1>4. Computing(f, past, comp)
  BY <1>3, Shape
<1>5. /\ f.arg.def \in Def /\ f.inputs \subseteq Observation
      /\ \E row \in past.rows[f.arg.def] :
            /\ row.kind = f.read[1].kind
            /\ \A o \in f.inputs :
                  /\ o.at \in (f.read[2] - Window)..f.read[2]
                  /\ \E i \in DOMAIN Used(row) : Used(row)[i] = o.source
      /\ f.read[3] \subseteq {j.id : j \in comp}
  BY <1>3, <1>4, FreshFacts
<1>6. PICK n, old : n = new /\ old = f.read[3]
  OBVIOUS
<1>7. /\ n.id = c /\ n.def \in Def /\ n.inputs \subseteq Observation
      /\ \E row \in past.rows[n.def] :
            /\ row.kind = n.kind
            /\ \A o \in n.inputs :
                  /\ o.at \in (n.to - Window)..n.to
                  /\ \E i \in DOMAIN Used(row) : Used(row)[i] = o.source
      /\ old \subseteq {j.id : j \in comp}
  <2> HIDE DEF f
  <2> QED
    BY <1>5, <1>6
<1>8. \/ /\ pending' = pending \cup {n}
         /\ past' = [past EXCEPT !.shown = @ \cup old \cup {c}]
      \/ pending' = pending /\ past' = [past EXCEPT !.shown = @ \cup old]
  <2> HIDE DEF f, new
  <2>1. pending' = IF fresh THEN pending \cup {n} ELSE pending
    BY <1>2, <1>6
  <2>2. past' = [past EXCEPT !.shown = @ \cup old \cup (IF fresh THEN {c} ELSE {})]
    BY <1>2, <1>6
  <2>3. CASE fresh
    BY <2>1, <2>2, <2>3
  <2>4. CASE ~fresh
    <3>1. past.shown \cup old \cup {} = past.shown \cup old
      OBVIOUS
    <3> QED
      BY <2>1, <2>2, <2>4, <3>1
  <2> QED
    BY <2>3, <2>4
<1> HIDE DEF f, new
<1>9. DOMAIN past = {"ttls", "lost", "gone", "rows", "shown", "missed"}
  BY DEF IInv, PastOK
<1>10. /\ DOMAIN past' = DOMAIN past /\ past'.ttls = past.ttls
       /\ past'.lost = past.lost /\ past'.gone = past.gone
       /\ past'.rows = past.rows /\ past'.missed = past.missed
       /\ past.shown \subseteq past'.shown
  BY <1>8, <1>9
<1>11. \/ pending' = pending \cup {n} /\ past'.shown = past.shown \cup old \cup {c}
       \/ pending' = pending /\ past'.shown = past.shown \cup old
  BY <1>8, <1>9
<1>12. Grows(past, past', comp, comp')
  BY <1>1, <1>10 DEF Grows
<1>13. CallInv' /\ Made' = Made /\ Len(call') = Len(call)
  BY <1>1, <1>12, RanInv DEF IInv
<1>14. TypeOK'
  <2>1. \A k \in comp \cup pending : k.id \in Made /\ k.inputs \subseteq Observation
    BY DEF IInv, TypeOK
  <2>2. \A k \in comp' \cup pending' : k.id \in Made' /\ k.inputs \subseteq Observation
    BY <1>1, <1>3, <1>7, <1>11, <1>13, <2>1
  <2> QED
    BY <1>1, <1>13, <2>2 DEF IInv, TypeOK, Observation, Row, Today
<1>15. PastOK'
  BY <1>1, <1>10 DEF IInv, PastOK, Row
<1>16. TimeInv'
  <2>1. \A k \in comp' \cup pending' : k.def \in Def
    BY <1>1, <1>7, <1>11 DEF IInv, TimeInv
  <2> QED
    BY <1>1, <2>1 DEF IInv, TimeInv
<1>17. ShownInv'
  BY <1>1, <1>7, <1>10, <1>11 DEF IInv, ShownInv
<1>18. InputsOfOneVersion'
  <2>1. \A k \in comp' \cup pending' : k \in comp \cup pending \/ k = n
    BY <1>1, <1>11
  <2> QED
    BY <1>7, <1>10, <2>1 DEF IInv, InputsOfOneVersion
<1>19. IssuedOK' /\ SweepInv' /\ DayIsWhole'
  BY <1>1, <1>10, Frames
<1>20. YoungStay' /\ IdsResolve'
  BY <1>10 DEF IInv, YoungStay, IdsResolve
<1> QED
  BY <1>13, <1>14, <1>15, <1>16, <1>17, <1>18, <1>19, <1>20 DEF IInv

\* The INSERT of a computation, at last.
LEMMA PersistInv ==
  ASSUME IInv, NEW p \in pending, Persist(p)
  PROVE  IInv'
<1>1. PICK n : n = [id |-> p.id, def |-> p.def, kind |-> p.kind,
                    inputs |-> p.inputs, to |-> p.to, at |-> now]
  OBVIOUS
<1>2. /\ comp' = comp \cup {n} /\ pending' = pending \ {p}
      /\ UNCHANGED <<obs, source, def, rollup, ttl, feedback, issued, call>>
      /\ UNCHANGED <<sweep, roll, now, mix, faults, past>>
  BY <1>1 DEF Persist, Jobs
<1>3. /\ n.id = p.id /\ n.def = p.def /\ n.kind = p.kind /\ n.inputs = p.inputs
      /\ n.to = p.to /\ n.at = now
  BY <1>1
<1>4. CallInv' /\ Made' = Made /\ Len(call') = Len(call)
  <2>1. Grows(past, past', comp, comp')
    BY <1>2 DEF Grows
  <2> QED
    BY <1>2, <2>1, CallStill DEF IInv
<1>5. now \in Nat
  BY BoundAssumption DEF IInv, TypeOK
<1>6. TypeOK'
  <2>1. \A k \in comp \cup pending : k.id \in Made /\ k.inputs \subseteq Observation
    BY DEF IInv, TypeOK
  <2>2. \A k \in comp' \cup pending' : k.id \in Made' /\ k.inputs \subseteq Observation
    BY <1>2, <1>3, <1>4, <2>1
  <2> QED
    BY <1>2, <1>4, <2>2 DEF IInv, TypeOK, Observation, Row, Today
<1>7. TimeInv'
  <2>1. \A k \in comp' : k.at \in 0..now
    BY <1>2, <1>3, <1>5 DEF IInv, TimeInv
  <2>2. \A k \in comp' \cup pending' : k.def \in Def
    BY <1>2, <1>3 DEF IInv, TimeInv
  <2> QED
    BY <1>2, <2>1, <2>2 DEF IInv, TimeInv
<1>8. ShownInv'
  <2>1. {k.id : k \in comp \cup pending} \subseteq {k.id : k \in comp' \cup pending'}
    <3> SUFFICES ASSUME NEW k \in comp \cup pending
                 PROVE  \E j \in comp' \cup pending' : k.id = j.id
      OBVIOUS
    <3>1. CASE k = p
      BY <1>2, <1>3, <3>1
    <3>2. CASE k # p
      BY <1>2, <3>2
    <3> QED
      BY <3>1, <3>2
  <2> QED
    BY <1>2, <2>1 DEF IInv, ShownInv
<1>9. InputsOfOneVersion'
  <2>1. \A k \in comp' \cup pending' : k \in comp \cup pending \/ k = n
    BY <1>2
  <2> QED
    BY <1>2, <1>3, <2>1 DEF IInv, InputsOfOneVersion
<1>10. DayIsWhole'
  <2> SUFFICES ASSUME NEW r \in rollup',
                      r.at <= 2 * r.day + 3
                      /\ \A d \in Def : Cardinality(past'.rows[d]) = 1,
                      NEW k \in comp', Key(k)' = KeyOf(r)', k.at < r.at
               PROVE  k.id \in r.of
    BY DEF DayIsWhole
  <2>1. r \in rollup /\ Key(k) = KeyOf(r)
    BY <1>2 DEF Key, KeyOf, Day
  <2>2. k # n
    BY <1>3, <1>5, <2>1 DEF IInv, TimeInv
  <2>3. k \in comp
    BY <1>2, <2>2
  <2> QED
    BY <1>2, <2>1, <2>3 DEF IInv, DayIsWhole
<1>11. PastOK' /\ IssuedOK' /\ SweepInv' /\ YoungStay' /\ IdsResolve'
  BY <1>2, Frames
<1> QED
  BY <1>4, <1>6, <1>7, <1>8, <1>9, <1>10, <1>11 DEF IInv

\* History is as it was, field by field, and no table is written.
LEMMA SameInv ==
  ASSUME IInv, CallInv', Made' = Made, Len(call') = Len(call),
         UNCHANGED <<rows, pending, sweep, roll, now, mix, faults>>,
         DOMAIN past' = DOMAIN past, past'.ttls = past.ttls,
         past'.lost = past.lost, past'.gone = past.gone, past'.rows = past.rows,
         past'.shown = past.shown, past'.missed = past.missed
  PROVE  IInv'
<1>1. /\ UNCHANGED <<obs, source, def, comp, rollup, ttl, feedback, issued>>
      /\ UNCHANGED <<pending, sweep, roll, now, mix, faults>>
  BY DEF rows
<1>2. TypeOK'
  BY <1>1 DEF IInv, TypeOK, Today, Row, Observation
<1>3. PastOK'
  BY <1>1 DEF IInv, PastOK, Row
<1>4. ShownInv' /\ YoungStay' /\ IdsResolve'
  BY <1>1 DEF IInv, ShownInv, YoungStay, IdsResolve
<1>5. IssuedOK' /\ SweepInv' /\ TimeInv' /\ DayIsWhole' /\ InputsOfOneVersion'
  BY <1>1, Frames
<1> QED
  BY <1>2, <1>3, <1>4, <1>5 DEF IInv

LEMMA PersistFailsInv ==
  ASSUME IInv, NEW p \in pending, PersistFails(p)
  PROVE  IInv'
<1>1. /\ faults < mix.faults /\ pending' = pending \ {p}
      /\ past' = [past EXCEPT !.gone = @ \cup {p.id}] /\ faults' = faults + 1
      /\ UNCHANGED <<obs, source, def, comp, rollup, ttl, feedback, issued>>
      /\ UNCHANGED <<call, sweep, roll, now, mix>>
  BY DEF PersistFails, rows
<1>2. DOMAIN past = {"ttls", "lost", "gone", "rows", "shown", "missed"}
  BY DEF IInv, PastOK
<1>3. /\ DOMAIN past' = DOMAIN past /\ past'.ttls = past.ttls
      /\ past'.lost = past.lost /\ past'.gone = past.gone \cup {p.id}
      /\ past'.rows = past.rows /\ past'.missed = past.missed
      /\ past'.shown = past.shown
  BY <1>1, <1>2
<1>4. CallInv' /\ Made' = Made /\ Len(call') = Len(call)
  <2>1. Grows(past, past', comp, comp')
    BY <1>1, <1>3 DEF Grows
  <2> QED
    BY <1>1, <2>1, CallStill DEF IInv
<1>5. TypeOK'
  <2>1. faults' \in 0..mix.faults
    <3>1. mix.faults \in Nat
      BY BoundAssumption DEF IInv, TypeOK
    <3> QED
      BY <1>1, <3>1 DEF IInv, TypeOK
  <2> QED
    BY <1>1, <1>4, <2>1 DEF IInv, TypeOK, Observation, Row, Today
<1>6. PastOK'
  BY <1>1, <1>3 DEF IInv, PastOK, Row
<1>7. TimeInv'
  BY <1>1 DEF IInv, TimeInv
<1>8. ShownInv'
  <2>1. \A k \in comp \cup pending : k \in comp' \cup pending' \/ k.id \in past'.gone
    BY <1>1, <1>3
  <2> QED
    BY <1>3, <2>1 DEF IInv, ShownInv
<1>9. InputsOfOneVersion'
  BY <1>1, <1>3 DEF IInv, InputsOfOneVersion
<1>10. YoungStay' /\ IdsResolve'
  BY <1>3 DEF IInv, YoungStay, IdsResolve
<1>11. IssuedOK' /\ SweepInv' /\ DayIsWhole'
  BY <1>1, <1>3, Frames
<1> QED
  BY <1>4, <1>5, <1>6, <1>7, <1>8, <1>9, <1>10, <1>11 DEF IInv

\* An id that was shown is looked for: where it is not found, its INSERT is
\* still to come or was lost.
LEMMA LineageInv ==
  ASSUME IInv, NEW c, Find(c) \/ Describe(c)
  PROVE  IInv'
<1> DEFINE f == call[c]
<1>1. PICK s \in {"find", "describe"} : At(c, s)
  BY DEF Find, Describe
<1>2. /\ Ran(c) \/ Refused(c)
      /\ UNCHANGED <<rows, pending, sweep, roll, now, mix, faults>>
      /\ \/ past' = past
         \/ past' = Missed(f.arg) /\ ~\E k \in comp : k.id = f.arg
  BY DEF Find, Describe, Describes, Jobs
<1>3. c \in Made /\ f # Over /\ Head(f.todo) = s /\ CallOK(f, past, comp, mix)
  BY <1>1, AtFacts DEF IInv
<1>4. LineageCall(f, past)
  BY <1>3, Shape
<1>5. f.arg \in past.shown
  BY <1>4 DEF LineageCall
<1>6. DOMAIN past = {"ttls", "lost", "gone", "rows", "shown", "missed"}
  BY DEF IInv, PastOK
<1>7. /\ DOMAIN past' = DOMAIN past /\ past'.ttls = past.ttls
      /\ past'.lost = past.lost /\ past'.gone = past.gone
      /\ past'.rows = past.rows /\ past'.shown = past.shown
      /\ past'.missed = past.missed
  <2>1. CASE past' = past
    BY <2>1
  <2>2. CASE past' = Missed(f.arg) /\ ~\E k \in comp : k.id = f.arg
    <3>1. f.arg \in past.gone \cup {p.id : p \in pending}
      BY <1>5, <2>2 DEF IInv, ShownInv
    <3>2. past' = [past EXCEPT !.missed = past.missed]
      BY <2>2, <3>1 DEF Missed
    <3> QED
      BY <1>6, <3>2
  <2> QED
    BY <1>2, <2>1, <2>2
<1>8. CallInv' /\ Made' = Made /\ Len(call') = Len(call)
  <2>1. mix' = mix /\ Grows(past, past', comp, comp')
    BY <1>2, <1>7 DEF Grows, rows
  <2> QED
    BY <1>1, <1>2, <2>1, CalledInv DEF IInv
<1> QED
  BY <1>2, <1>7, <1>8, SameInv

-----------------------------------------------------------------------------
(* Retention *)

LEMMA WriteTtlInv ==
  ASSUME IInv, NEW c, WriteTtl(c)
  PROVE  IInv'
<1> DEFINE f == call[c]
<1>1. PICK d, t : d = f.arg.domain /\ t = f.arg.ttl
  OBVIOUS
<1>2. /\ At(c, "ttl") /\ Ran(c)
      /\ ttl' = [ttl EXCEPT ![d] = t]
      /\ past' = [past EXCEPT !.ttls[d] = @ \cup {t}]
      /\ UNCHANGED <<obs, source, def, comp, rollup, feedback, issued, pending>>
      /\ UNCHANGED <<sweep, roll, now, mix, faults>>
  BY <1>1 DEF WriteTtl, Jobs
<1>3. d \in Domain /\ t \in mix.ttls /\ t \in Nat
  <2>1. f # Over /\ Head(f.todo) = "ttl" /\ CallOK(f, past, comp, mix)
    BY <1>2, AtFacts DEF IInv
  <2>2. f.todo = <<"ttl">> /\ SingleCall(f, mix)
    BY <2>1, Shape
  <2>3. f.arg \in [domain : Domain, ttl : mix.ttls]
    BY <2>2 DEF SingleCall
  <2>4. mix.ttls \subseteq Nat
    BY BoundAssumption DEF IInv, TypeOK
  <2> QED
    BY <1>1, <2>3, <2>4
<1>4. /\ DOMAIN past = {"ttls", "lost", "gone", "rows", "shown", "missed"}
      /\ past.ttls \in [Domain -> SUBSET Nat]
      /\ \A e \in Domain : ttl[e] \in past.ttls[e]
      /\ ttl \in [Domain -> mix.ttls]
  BY DEF IInv, PastOK, TypeOK
<1>5. /\ DOMAIN past' = DOMAIN past
      /\ past'.lost = past.lost /\ past'.gone = past.gone
      /\ past'.rows = past.rows /\ past'.missed = past.missed
      /\ past'.shown = past.shown
      /\ past'.ttls = [past.ttls EXCEPT ![d] = @ \cup {t}]
  BY <1>2, <1>4
<1>6. /\ past'.ttls \in [Domain -> SUBSET Nat] /\ ttl' \in [Domain -> mix.ttls]
      /\ \A e \in Domain : past.ttls[e] \subseteq past'.ttls[e]
      /\ \A e \in Domain : ttl'[e] \in past'.ttls[e]
  BY <1>2, <1>3, <1>4, <1>5
<1>7. CallInv' /\ Made' = Made /\ Len(call') = Len(call)
  <2>1. Grows(past, past', comp, comp')
    BY <1>2, <1>5, <1>6 DEF Grows
  <2> QED
    BY <1>2, <2>1, RanInv DEF IInv
<1>8. TypeOK'
  BY <1>2, <1>6, <1>7 DEF IInv, TypeOK, Observation, Row, Today
<1>9. PastOK'
  BY <1>2, <1>4, <1>5, <1>6 DEF IInv, PastOK, Row
<1>10. SweepInv'
  BY <1>2, <1>6 DEF IInv, SweepInv, Idle
<1>11. ShownInv' /\ YoungStay' /\ IdsResolve'
  BY <1>2, <1>5 DEF IInv, ShownInv, YoungStay, IdsResolve
<1>12. IssuedOK' /\ TimeInv' /\ DayIsWhole' /\ InputsOfOneVersion'
  BY <1>2, <1>5, Frames
<1> QED
  BY <1>7, <1>8, <1>9, <1>10, <1>11, <1>12 DEF IInv

\* How old a row is can be compared with a TTL.
LEMMA AgeFacts ==
  ASSUME IInv, NEW d \in Domain, NEW row \in Rows(d)
  PROVE  Age(d, row) \in Int
<1>1. now \in Nat /\ Today \in Nat
  <2>1. now \in Nat
    BY BoundAssumption DEF IInv, TypeOK
  <2> QED
    BY <2>1, DayFacts DEF Today
<1>2. CASE d = "env_raw"
  <2>1. row \in Observation
    BY <1>2 DEF Rows, IInv, TypeOK
  <2> QED
    BY <1>1, <1>2, <2>1 DEF Age, Observation
<1>3. CASE d = "kpi"
  <2>1. row.day \in Nat
    BY <1>3 DEF Rows, IInv, TimeInv
  <2> QED
    BY <1>1, <1>3, <2>1 DEF Age
<1>4. CASE d = "feedback"
  <2>1. row.owner \in Person
    BY <1>4 DEF Rows, IInv, TypeOK
  <2>2. issued[row.owner] \in Seq(Nat)
    BY <2>1 DEF IInv, IssuedOK
  <2>3. LastSeen(row.owner) \in Nat
    <3>1. CASE issued[row.owner] = <<>>
      BY <3>1 DEF LastSeen
    <3>2. CASE issued[row.owner] # <<>>
      <4>1. issued[row.owner][1] \in Nat
        BY <2>2, <3>2
      <4> QED
        BY <3>2, <4>1 DEF LastSeen
    <3> QED
      BY <3>1, <3>2
  <2>4. Age(d, row) = now - LastSeen(row.owner)
    BY <1>4 DEF Age
  <2> QED
    BY <1>1, <2>3, <2>4
<1> QED
  BY <1>2, <1>3, <1>4 DEF Domain

\* A DELETE by a TTL that was in force loses no row that is young.
LEMMA PurgeLosesNothing ==
  ASSUME IInv, NEW d \in Domain, NEW t \in past.ttls[d], NEW row \in Expired(d, t)
  PROVE  ~\A u \in past.ttls[d] \ {0} : Age(d, row) <= 2 * u
<1>1. t # 0 /\ row \in Rows(d) /\ Age(d, row) > 2 * t
  BY DEF Expired
<1>2. t \in Nat
  <2>1. past.ttls \in [Domain -> SUBSET Nat]
    BY DEF IInv, PastOK
  <2> QED
    BY <2>1
<1>3. Age(d, row) \in Int
  BY <1>1, AgeFacts
<1>4. ~(Age(d, row) <= 2 * t)
  <2>1. \A a \in Int, n \in Nat : a > 2 * n => ~(a <= 2 * n)
    OBVIOUS
  <2> QED
    BY <1>1, <1>2, <1>3, <2>1
<1> QED
  BY <1>1, <1>4

LEMMA PurgeInv ==
  ASSUME IInv, NEW d \in Domain, NEW t \in past.ttls[d], Purge(d, t),
         call' = call \/ (CallInv' /\ Made' = Made /\ Len(call') = Len(call)),
         (UNCHANGED sweep) \/ (SweepInv' /\ sweep'.pc \in {"idle", "delete", "mark"}),
         UNCHANGED <<roll, now, mix, faults>>
  PROVE  IInv'
<1> DEFINE old == Expired(d, t)
<1>1. /\ obs' = obs \ old /\ rollup' = rollup \ old /\ feedback' = feedback \ old
      /\ past' = [past EXCEPT !.lost = @ \cup {row \in old :
                      \A u \in past.ttls[d] \ {0} : Age(d, row) <= 2 * u}]
      /\ UNCHANGED <<source, def, comp, ttl, issued, pending>>
  BY DEF Purge
<1>2. {row \in old : \A u \in past.ttls[d] \ {0} : Age(d, row) <= 2 * u} = {}
  BY PurgeLosesNothing
<1>3. DOMAIN past = {"ttls", "lost", "gone", "rows", "shown", "missed"}
  BY DEF IInv, PastOK
<1>4. PICK gone : gone = {row \in old : \A u \in past.ttls[d] \ {0} : Age(d, row) <= 2 * u}
  OBVIOUS
<1> HIDE DEF old
<1>5. gone = {} /\ past' = [past EXCEPT !.lost = @ \cup gone]
  BY <1>1, <1>2, <1>4
<1>6. /\ DOMAIN past' = DOMAIN past /\ past'.ttls = past.ttls
      /\ past'.lost = past.lost /\ past'.gone = past.gone
      /\ past'.rows = past.rows /\ past'.missed = past.missed
      /\ past'.shown = past.shown
  BY <1>3, <1>5
<1>7. CallInv' /\ Made' = Made /\ Len(call') = Len(call)
  <2>1. Grows(past, past', comp, comp')
    BY <1>1, <1>6 DEF Grows
  <2> QED
    BY <2>1, CallStill DEF IInv
<1>8. obs' \subseteq obs /\ rollup' \subseteq rollup /\ feedback' \subseteq feedback
  BY <1>1
<1>9. sweep'.pc \in {"idle", "delete", "mark"} /\ SweepInv'
  <2>1. CASE UNCHANGED sweep
    BY <1>6, <2>1, Frames DEF IInv, TypeOK
  <2> QED
    BY <2>1
<1>10. TypeOK'
  <2>1. obs' \subseteq Observation /\ source' \subseteq Source
        /\ feedback' \subseteq [id : Made, owner : Person]
    BY <1>1, <1>8 DEF IInv, TypeOK
  <2>2. \A r \in rollup' : r.kind \in Kind /\ r.day <= Today /\ r.of \subseteq Made
    BY <1>8 DEF IInv, TypeOK
  <2> QED
    BY <1>1, <1>7, <1>9, <2>1, <2>2 DEF IInv, TypeOK, Observation, Row, Today
<1>11. PastOK'
  BY <1>1, <1>6 DEF IInv, PastOK, Row
<1>12. TimeInv'
  BY <1>1, <1>8 DEF IInv, TimeInv
<1>13. DayIsWhole'
  BY <1>1, <1>6, <1>8 DEF IInv, DayIsWhole, Key, KeyOf, Day
<1>14. ShownInv' /\ YoungStay' /\ IdsResolve'
  BY <1>1, <1>6 DEF IInv, ShownInv, YoungStay, IdsResolve
<1>15. IssuedOK' /\ InputsOfOneVersion'
  BY <1>1, <1>6, Frames
<1> QED
  BY <1>7, <1>9, <1>10, <1>11, <1>12, <1>13, <1>14, <1>15 DEF IInv

LEMMA PurgeByHandInv ==
  ASSUME IInv, NEW c, PurgeByHand(c)
  PROVE  IInv'
<1> DEFINE f == call[c]
<1>1. /\ At(c, "purge") /\ Ran(c) /\ Purge(f.arg.domain, f.read[1])
      /\ UNCHANGED <<sweep, roll, now, mix, faults>>
  BY DEF PurgeByHand, Jobs
<1>2. PICK d, t : d = f.arg.domain /\ t = f.read[1]
  OBVIOUS
<1>3. d \in Domain /\ t \in past.ttls[d]
  <2>1. f # Over /\ Head(f.todo) = "purge" /\ CallOK(f, past, comp, mix)
    BY <1>1, AtFacts DEF IInv
  <2>2. f.todo = <<"purge", "mark">> /\ RunCall(f, past)
    BY <2>1, Shape
  <2>3. /\ f.arg \in [domain : Domain]
        /\ \E x \in past.ttls[f.arg.domain] : f.read = <<x>>
    BY <2>2 DEF RunCall
  <2> QED
    BY <1>2, <2>3
<1> HIDE DEF f
<1>4. Purge(d, t)
  BY <1>1, <1>2
<1>5. CallInv' /\ Made' = Made /\ Len(call') = Len(call)
  <2>1. Grows(past, past', comp, comp')
    <3>1. DOMAIN past = {"ttls", "lost", "gone", "rows", "shown", "missed"}
      BY DEF IInv, PastOK
    <3>2. PICK gone : past' = [past EXCEPT !.lost = @ \cup gone] /\ comp' = comp
      BY <1>4 DEF Purge
    <3> QED
      BY <3>1, <3>2 DEF Grows
  <2> QED
    BY <1>1, <2>1, RanInv DEF IInv
<1> QED
  BY <1>1, <1>3, <1>4, <1>5, PurgeInv

\* A pass that goes on, or ends, and nothing else.
LEMMA PassInv ==
  ASSUME IInv, SweepInv', sweep'.pc \in {"idle", "delete", "mark"},
         faults' \in 0..mix.faults, UNCHANGED <<rows, pending, call, roll, now, mix, past>>
  PROVE  IInv'
<1>1. /\ UNCHANGED <<obs, source, def, comp, rollup, ttl, feedback, issued>>
      /\ UNCHANGED <<pending, call, roll, now, mix, past>>
  BY DEF rows
<1>2. CallInv' /\ Made' = Made /\ Len(call') = Len(call)
  <2>1. Grows(past, past', comp, comp')
    BY <1>1, GrowsNot
  <2> QED
    BY <1>1, <2>1, CallStill DEF IInv
<1>3. TypeOK'
  BY <1>1, <1>2 DEF IInv, TypeOK, Today, Row, Observation
<1>4. /\ PastOK' /\ IssuedOK' /\ TimeInv' /\ ShownInv'
      /\ YoungStay' /\ IdsResolve' /\ DayIsWhole' /\ InputsOfOneVersion'
  BY <1>1, Frames
<1> QED
  BY <1>2, <1>3, <1>4 DEF IInv

\* The policies from the n-th on, of TTLs that were in force.
LEMMA EnforceInv ==
  ASSUME PastOK, past' = past, NEW n \in 1..4, NEW t \in [Domain -> Nat],
         \A d \in Domain : t[d] \in past.ttls[d], sweep' = Enforce(n, t)
  PROVE  SweepInv' /\ sweep'.pc \in {"idle", "delete", "mark"}
<1>1. CASE sweep' = Idle
  BY <1>1 DEF SweepInv, Idle
<1>2. CASE \E i \in 1..3 : sweep' = [pc |-> "delete", ttl |-> t, next |-> i]
  <2>1. PICK i \in 1..3 : sweep' = [pc |-> "delete", ttl |-> t, next |-> i]
    BY <1>2
  <2>2. sweep'.pc = "delete" /\ sweep'.ttl = t /\ sweep'.next = i
    BY <2>1
  <2> QED
    BY <2>1, <2>2 DEF SweepInv
<1> QED
  BY <1>1, <1>2, EnforceFacts

LEMMA SweepStepInv ==
  ASSUME IInv, SweepLoad \/ SweepMark \/ SweepFails
  PROVE  IInv'
<1>1. mix.faults \in Nat /\ faults \in 0..mix.faults /\ mix.ttls \subseteq Nat
  BY BoundAssumption DEF IInv, TypeOK
<1>2. CASE SweepLoad
  <2>1. /\ sweep' = Enforce(1, ttl)
        /\ UNCHANGED <<rows, pending, call, roll, now, mix, faults, past>>
    BY <1>2 DEF SweepLoad
  <2>2. ttl \in [Domain -> Nat] /\ \A d \in Domain : ttl[d] \in past.ttls[d]
    BY <1>1 DEF IInv, TypeOK, PastOK
  <2>3. SweepInv' /\ sweep'.pc \in {"idle", "delete", "mark"}
    BY <2>1, <2>2, EnforceInv DEF IInv
  <2> QED
    BY <1>1, <2>1, <2>3, PassInv
<1>3. CASE SweepMark
  <2>1. /\ sweep.pc = "mark" /\ sweep' = Enforce(sweep.next + 1, sweep.ttl)
        /\ UNCHANGED <<rows, pending, call, roll, now, mix, faults, past>>
    BY <1>3 DEF SweepMark, SweepOn
  <2>2. sweep # Idle
    BY <2>1 DEF Idle
  <2>3. /\ sweep.ttl \in [Domain -> Nat] /\ sweep.next \in 1..3
        /\ \A d \in Domain : sweep.ttl[d] \in past.ttls[d]
    BY <2>2 DEF IInv, SweepInv
  <2>4. sweep.next + 1 \in 1..4
    BY <2>3
  <2>5. SweepInv' /\ sweep'.pc \in {"idle", "delete", "mark"}
    BY <2>1, <2>3, <2>4, EnforceInv DEF IInv
  <2> QED
    BY <1>1, <2>1, <2>5, PassInv
<1>4. CASE SweepFails
  <2>1. /\ faults < mix.faults /\ sweep' = Idle /\ faults' = faults + 1
        /\ UNCHANGED <<rows, pending, call, roll, now, mix, past>>
    BY <1>4 DEF SweepFails
  <2>2. faults' \in 0..mix.faults
    BY <1>1, <2>1
  <2>3. SweepInv' /\ sweep'.pc \in {"idle", "delete", "mark"}
    BY <2>1 DEF SweepInv, Idle
  <2> QED
    BY <2>1, <2>2, <2>3, PassInv
<1> QED
  BY <1>2, <1>3, <1>4

LEMMA SweepDeleteInv ==
  ASSUME IInv, SweepDelete
  PROVE  IInv'
<1>1. PICK d, t : d = Enforced[sweep.next] /\ t = sweep.ttl[Enforced[sweep.next]]
  OBVIOUS
<1>2. /\ sweep.pc = "delete" /\ Purge(d, t)
      /\ sweep' = [sweep EXCEPT !.pc = "mark"]
      /\ UNCHANGED <<call, roll, now, mix, faults>>
  BY <1>1 DEF SweepDelete
<1>3. /\ sweep = [pc |-> sweep.pc, ttl |-> sweep.ttl, next |-> sweep.next]
      /\ sweep.ttl \in [Domain -> Nat] /\ sweep.next \in 1..3
      /\ \A e \in Domain : sweep.ttl[e] \in past.ttls[e]
  <2>1. sweep # Idle
    BY <1>2 DEF Idle
  <2> QED
    BY <2>1 DEF IInv, SweepInv
<1>4. d \in Domain /\ t \in past.ttls[d]
  <2>1. \A i \in 1..3 : Enforced[i] \in Domain
    BY DEF Enforced, Domain
  <2> QED
    BY <1>1, <1>3, <2>1
<1>5. past'.ttls = past.ttls
  <2>1. DOMAIN past = {"ttls", "lost", "gone", "rows", "shown", "missed"}
    BY DEF IInv, PastOK
  <2>2. PICK gone : past' = [past EXCEPT !.lost = @ \cup gone]
    BY <1>2 DEF Purge
  <2> QED
    BY <2>1, <2>2
<1>6. sweep' = [pc |-> "mark", ttl |-> sweep.ttl, next |-> sweep.next]
  BY <1>2, <1>3
<1>7. SweepInv' /\ sweep'.pc \in {"idle", "delete", "mark"}
  <2>1. sweep'.pc = "mark" /\ sweep'.ttl = sweep.ttl /\ sweep'.next = sweep.next
    BY <1>6
  <2> QED
    BY <1>3, <1>5, <1>6, <2>1 DEF SweepInv
<1> QED
  BY <1>2, <1>4, <1>7, PurgeInv

-----------------------------------------------------------------------------
(* The rollup *)

LEMMA RollDeleteInv ==
  ASSUME IInv, RollDelete
  PROVE  IInv'
<1>1. /\ roll'.pc = "insert" /\ roll'.start = now
      /\ UNCHANGED <<obs, source, def, comp, rollup, ttl, feedback, issued>>
      /\ UNCHANGED <<pending, call, sweep, now, mix, faults, past>>
  BY DEF RollDelete, rows
<1>2. CallInv' /\ Made' = Made /\ Len(call') = Len(call)
  <2>1. Grows(past, past', comp, comp')
    BY <1>1, GrowsNot
  <2> QED
    BY <1>1, <2>1, CallStill DEF IInv
<1>3. TypeOK'
  BY <1>1, <1>2 DEF IInv, TypeOK, Today, Row, Observation
<1>4. now \in 0..now
  <2>1. now \in Nat
    BY BoundAssumption DEF IInv, TypeOK
  <2> QED
    BY <2>1
<1>5. TimeInv'
  BY <1>1, <1>4 DEF IInv, TimeInv
<1>6. /\ PastOK' /\ IssuedOK' /\ SweepInv' /\ ShownInv'
      /\ YoungStay' /\ IdsResolve' /\ DayIsWhole' /\ InputsOfOneVersion'
  BY <1>1, Frames
<1> QED
  BY <1>2, <1>3, <1>5, <1>6 DEF IInv

\* The row that a pass begun at start inserts for the key of a computation.
RowFor(k, start) ==
    [day |-> Day(k.at), kind |-> def[k.def].kind, at |-> start,
     of |-> {j.id : j \in {j \in Recent(start) : Key(j) = Key(k)}}]

\* It is a row of a day that has begun, and where the pass was made before noon
\* of the next day it averages all that was stored on that day before.
LEMMA RowIsWhole ==
  ASSUME IInv, NEW start \in 0..now, NEW k \in comp
  PROVE  LET r == RowFor(k, start) IN
         /\ r.kind \in Kind /\ r.day \in Nat /\ r.day <= Today
         /\ r.of \subseteq Made /\ r.at = start
         /\ start <= 2 * r.day + 3 =>
               \A j \in comp : Key(j) = KeyOf(r) => j.id \in r.of
<1> DEFINE r == RowFor(k, start)
<1>1. /\ r.day = Day(k.at) /\ r.kind = def[k.def].kind /\ r.at = start
      /\ r.of = {j.id : j \in {j \in Recent(start) : Key(j) = Key(k)}}
  BY DEF RowFor
<1> HIDE DEF r
<1>2. now \in Nat /\ start \in Nat
  <2>1. now \in Nat
    BY BoundAssumption DEF IInv, TypeOK
  <2> QED
    BY <2>1
<1>3. \A j \in comp : j.at \in Nat /\ j.at <= now /\ j.def \in Def /\ j.id \in Made
  BY <1>2 DEF IInv, TimeInv, TypeOK
<1>4. r.day \in Nat /\ r.day <= Today
  <2>1. k.at \in Nat /\ k.at <= now
    BY <1>3
  <2> QED
    BY <1>1, <1>2, <2>1, DayFacts, DayMonotone DEF Today
<1>5. r.kind \in Kind
  <2>1. def[k.def] \in Row
    BY <1>3 DEF IInv, TypeOK
  <2> QED
    BY <1>1, <2>1 DEF Row
<1>6. r.of \subseteq Made
  BY <1>1, <1>3 DEF Recent
<1>7. ASSUME start <= 2 * r.day + 3, NEW j \in comp, Key(j) = KeyOf(r)
      PROVE  j.id \in r.of
  <2>1. KeyOf(r) = Key(k)
    BY <1>1 DEF KeyOf, Key
  <2>2. Day(j.at) = r.day
    BY <1>1, <1>7, <2>1 DEF Key
  <2>3. 2 * r.day <= j.at
    BY <1>3, <2>2, DayFacts
  <2>4. j.at >= start - Back
    <3>1. \A a, s, d, b \in Nat :
             s <= 2 * d + 3 /\ 2 * d <= a /\ b >= 3 => a >= s - b
      OBVIOUS
    <3> QED
      BY <1>2, <1>3, <1>4, <1>7, <2>3, <3>1, WindowAssumption
  <2>5. j \in Recent(start)
    BY <2>4 DEF Recent
  <2> QED
    BY <1>1, <1>7, <2>1, <2>5
<1> QED
  BY <1>1, <1>4, <1>5, <1>6, <1>7 DEF r

LEMMA RollInsertInv ==
  ASSUME IInv, RollInsert
  PROVE  IInv'
<1> DEFINE start == roll.start
           new == {RowFor(k, start) : k \in Recent(start)}
<1>1. /\ roll.pc = "insert" /\ roll' = Idle
      /\ rollup' = rollup \/ \E kept \in SUBSET rollup : rollup' = kept \cup new
      /\ UNCHANGED <<obs, source, def, comp, ttl, feedback, issued, pending, call,
                     sweep, now, mix, faults, past>>
  <2>1. /\ roll.pc = "insert" /\ roll' = Idle
        /\ UNCHANGED <<obs, source, def, comp, ttl, feedback, issued, pending, call,
                       sweep, now, mix, faults, past>>
    BY DEF RollInsert
  <2>2. \/ rollup' = rollup
        \/ rollup' = (rollup \ roll.locked) \cup new
    BY DEF RollInsert, RowFor
  <2> QED
    BY <2>1, <2>2
<1>2. start \in 0..now
  BY <1>1 DEF IInv, TimeInv
<1>3. \A r \in new : /\ r.kind \in Kind /\ r.day \in Nat /\ r.day <= Today
                     /\ r.of \subseteq Made /\ r.at = start
                     /\ start <= 2 * r.day + 3 =>
                           \A j \in comp : Key(j) = KeyOf(r) => j.id \in r.of
  <2> SUFFICES ASSUME NEW k \in Recent(start), NEW r, r = RowFor(k, start)
               PROVE  /\ r.kind \in Kind /\ r.day \in Nat /\ r.day <= Today
                      /\ r.of \subseteq Made /\ r.at = start
                      /\ start <= 2 * r.day + 3 =>
                            \A j \in comp : Key(j) = KeyOf(r) => j.id \in r.of
    OBVIOUS
  <2>1. k \in comp
    BY DEF Recent
  <2> QED
    BY <1>2, <2>1, RowIsWhole
<1> HIDE DEF new, start
<1>4. \A r \in rollup' : r \in rollup \/ r \in new
  BY <1>1
<1>5. CallInv' /\ Made' = Made /\ Len(call') = Len(call)
  <2>1. Grows(past, past', comp, comp')
    BY <1>1, GrowsNot
  <2> QED
    BY <1>1, <2>1, CallStill DEF IInv
<1>6. TypeOK'
  <2>1. \A r \in rollup' : r.kind \in Kind /\ r.day <= Today /\ r.of \subseteq Made
    BY <1>3, <1>4 DEF IInv, TypeOK
  <2>2. roll'.pc \in {"idle", "insert"}
    BY <1>1 DEF Idle
  <2> QED
    BY <1>1, <1>5, <2>1, <2>2 DEF IInv, TypeOK, Today, Row, Observation
<1>7. TimeInv'
  <2>1. \A r \in rollup' : r.day \in Nat /\ r.at \in 0..now
    BY <1>2, <1>3, <1>4 DEF IInv, TimeInv
  <2>2. roll'.pc # "insert"
    BY <1>1 DEF Idle
  <2> QED
    BY <1>1, <2>1, <2>2 DEF IInv, TimeInv
<1>8. DayIsWhole'
  <2> SUFFICES ASSUME NEW r \in rollup',
                      r.at <= 2 * r.day + 3
                      /\ \A d \in Def : Cardinality(past'.rows[d]) = 1,
                      NEW k \in comp', Key(k)' = KeyOf(r)', k.at < r.at
               PROVE  k.id \in r.of
    BY DEF DayIsWhole
  <2>1. k \in comp /\ Key(k) = KeyOf(r) /\ \A d \in Def : Cardinality(past.rows[d]) = 1
    BY <1>1 DEF Key, KeyOf, Day
  <2>2. CASE r \in rollup
    BY <2>1, <2>2 DEF IInv, DayIsWhole
  <2>3. CASE r \in new
    BY <1>3, <2>1, <2>3
  <2> QED
    BY <1>4, <2>2, <2>3
<1>9. /\ PastOK' /\ IssuedOK' /\ SweepInv' /\ ShownInv'
      /\ YoungStay' /\ IdsResolve' /\ InputsOfOneVersion'
  BY <1>1, Frames
<1> QED
  BY <1>5, <1>6, <1>7, <1>8, <1>9 DEF IInv

-----------------------------------------------------------------------------
(* The process ends, and time goes on *)

LEMMA RestartInv ==
  ASSUME IInv, Restart
  PROVE  IInv'
<1>1. PICK lost : lost = {p.id : p \in pending}
  OBVIOUS
<1>2. /\ faults < mix.faults /\ faults' = faults + 1
      /\ call' = [c \in Made |-> Over]
      /\ past' = [past EXCEPT !.gone = @ \cup lost]
      /\ pending' = {} /\ sweep' = Idle /\ roll' = Idle
      /\ UNCHANGED <<obs, source, def, comp, rollup, ttl, feedback, issued>>
      /\ UNCHANGED <<now, mix>>
  BY <1>1 DEF Restart, rows
<1>3. Made = 1..Len(call) /\ Len(call) \in Nat
  BY DEF IInv, TypeOK, CallInv
<1>4. Made' = Made /\ Len(call') = Len(call)
  <2>1. call' = [c \in 1..Len(call) |-> Over]
    BY <1>2, <1>3
  <2>2. \A n \in Nat : \A f : f = [c \in 1..n |-> Over] => DOMAIN f = 1..n /\ Len(f) = n
    OBVIOUS
  <2>3. DOMAIN call' = 1..Len(call) /\ Len(call') = Len(call)
    BY <1>3, <2>1, <2>2
  <2> QED
    BY <1>3, <2>3 DEF Made
<1>5. CallInv'
  <2>1. \A c \in Made' : call'[c] = Over
    BY <1>2, <1>4
  <2>2. \A c \in Made' : CallOK(call'[c], past', comp', mix')
    BY <2>1, OverOK
  <2> QED
    BY <1>3, <1>4, <2>2 DEF CallInv
<1>6. DOMAIN past = {"ttls", "lost", "gone", "rows", "shown", "missed"}
  BY DEF IInv, PastOK
<1>7. /\ DOMAIN past' = DOMAIN past /\ past'.ttls = past.ttls
      /\ past'.lost = past.lost /\ past'.gone = past.gone \cup lost
      /\ past'.rows = past.rows /\ past'.missed = past.missed
      /\ past'.shown = past.shown
  BY <1>2, <1>6
<1>8. TypeOK'
  <2>1. mix.faults \in Nat /\ faults \in 0..mix.faults
    BY BoundAssumption DEF IInv, TypeOK
  <2>2. faults' \in 0..mix.faults
    BY <1>2, <2>1
  <2>3. roll'.pc \in {"idle", "insert"} /\ sweep'.pc \in {"idle", "delete", "mark"}
    BY <1>2 DEF Idle
  <2> QED
    BY <1>2, <1>4, <2>2, <2>3 DEF IInv, TypeOK, Today, Row, Observation
<1>9. PastOK'
  BY <1>2, <1>7 DEF IInv, PastOK, Row
<1>10. SweepInv'
  BY <1>2 DEF SweepInv, Idle
<1>11. TimeInv'
  <2>1. roll'.pc # "insert"
    BY <1>2 DEF Idle
  <2> QED
    BY <1>2, <2>1 DEF IInv, TimeInv
<1>12. ShownInv'
  BY <1>1, <1>2, <1>7 DEF IInv, ShownInv
<1>13. InputsOfOneVersion'
  BY <1>2, <1>7 DEF IInv, InputsOfOneVersion
<1>14. YoungStay' /\ IdsResolve'
  BY <1>7 DEF IInv, YoungStay, IdsResolve
<1>15. IssuedOK' /\ DayIsWhole'
  BY <1>2, <1>7, Frames
<1> QED
  BY <1>5, <1>8, <1>9, <1>10, <1>11, <1>12, <1>13, <1>14, <1>15 DEF IInv

LEMMA TickInv ==
  ASSUME IInv, Tick
  PROVE  IInv'
<1>1. /\ now < mix.time /\ now' = now + 1
      /\ UNCHANGED <<obs, source, def, comp, rollup, ttl, feedback, issued>>
      /\ UNCHANGED <<pending, call, sweep, roll, mix, faults, past>>
  BY DEF Tick, rows
<1>2. mix.time \in Nat /\ now \in 0..mix.time /\ now \in Nat
  BY BoundAssumption DEF IInv, TypeOK
<1>3. CallInv' /\ Made' = Made /\ Len(call') = Len(call)
  <2>1. Grows(past, past', comp, comp')
    BY <1>1, GrowsNot
  <2> QED
    BY <1>1, <2>1, CallStill DEF IInv
<1>4. TypeOK'
  <2>1. now' \in 0..mix.time
    BY <1>1, <1>2
  <2>2. Today <= Today' /\ Today \in Nat /\ Today' \in Nat
    <3>1. now + 1 \in Nat /\ now <= now + 1
      BY <1>2
    <3>2. Day(now) <= Day(now + 1) /\ Day(now) \in Nat /\ Day(now + 1) \in Nat
      BY <1>2, <3>1, DayFacts, DayMonotone
    <3> QED
      BY <1>1, <3>2 DEF Today
  <2>3. \A r \in rollup : r.day <= Today'
    <3>1. \A r \in rollup : r.day \in Nat /\ r.day <= Today
      BY DEF IInv, TypeOK, TimeInv
    <3> QED
      BY <2>2, <3>1
  <2> QED
    BY <1>1, <1>3, <2>1, <2>3 DEF IInv, TypeOK, Row, Observation
<1>5. TimeInv'
  <2>1. \A t \in 0..now : t \in 0..now'
    BY <1>1, <1>2
  <2> QED
    BY <1>1, <2>1 DEF IInv, TimeInv
<1>6. /\ PastOK' /\ IssuedOK' /\ SweepInv' /\ ShownInv'
      /\ YoungStay' /\ IdsResolve' /\ DayIsWhole' /\ InputsOfOneVersion'
  BY <1>1, Frames
<1> QED
  BY <1>3, <1>4, <1>5, <1>6 DEF IInv

-----------------------------------------------------------------------------
(* Calls arrive *)

\* A call that arrives in order keeps everything in order.
LEMMA ArriveInv ==
  ASSUME IInv, NEW op, NEW arg, NEW todo, Arrive(op, arg, todo),
         CallOK([op |-> op, arg |-> arg, todo |-> todo, read |-> <<>>,
                 inputs |-> {}], past, comp, mix)
  PROVE  IInv'
<1> PICK e : e = [op |-> op, arg |-> arg, todo |-> todo, read |-> <<>>, inputs |-> {}]
  OBVIOUS
<1> PICK c : c = Len(call) + 1
  OBVIOUS
<1>1. /\ Len(call) < mix.calls /\ call' = Append(call, e)
      /\ UNCHANGED <<obs, source, def, comp, rollup, ttl, feedback, issued>>
      /\ UNCHANGED <<pending, sweep, roll, now, mix, faults, past>>
  BY DEF Arrive, rows
<1>2. CallOK(e, past, comp, mix)
  OBVIOUS
<1>3. Len(call) \in Nat /\ Made = 1..Len(call) /\ mix.calls \in Nat
  BY BoundAssumption DEF IInv, TypeOK, CallInv
<1>4. /\ Len(call') = c /\ Made' = 1..c /\ c \in Nat
      /\ call'[c] = e /\ \A d \in Made : call'[d] = call[d]
  BY <1>1, <1>3 DEF Made
<1>5. Made' = Made \cup {c} /\ Made \subseteq Made'
  BY <1>3, <1>4
<1>6. CallInv'
  <2>1. \A d \in Made' : CallOK(call'[d], past, comp, mix)
    BY <1>2, <1>4, <1>5 DEF IInv, CallInv
  <2>2. \A d \in Made' : CallOK(call'[d], past', comp', mix')
    BY <1>1, <2>1
  <2> QED
    BY <1>4, <2>2 DEF CallInv
<1>7. TypeOK'
  <2>1. /\ \A k \in comp \cup pending : k.id \in Made' /\ k.inputs \subseteq Observation
        /\ \A r \in rollup : r.kind \in Kind /\ r.day <= Today /\ r.of \subseteq Made'
        /\ feedback \subseteq [id : Made', owner : Person]
    BY <1>5 DEF IInv, TypeOK
  <2>2. Made' = 1..Len(call') /\ Len(call') <= mix.calls
    BY <1>1, <1>3, <1>4
  <2> QED
    BY <1>1, <2>1, <2>2 DEF IInv, TypeOK, Today, Row, Observation
<1>8. /\ PastOK' /\ IssuedOK' /\ SweepInv' /\ TimeInv' /\ ShownInv'
      /\ YoungStay' /\ IdsResolve' /\ DayIsWhole' /\ InputsOfOneVersion'
  BY <1>1, Frames
<1> QED
  BY <1>6, <1>7, <1>8 DEF IInv

\* What each operation asks for is in order.
LEMMA NewOK ==
  ASSUME NEW f, DOMAIN f = Fields, NEW p, NEW k, NEW m
  PROVE  BulkCall(f) \/ SingleCall(f, m) \/ PatchCall(f, p, m)
         \/ SeriesCall(f, p, k) \/ LineageCall(f, p) \/ RunCall(f, p)
            => CallOK(f, p, k, m)
  BY DEF CallOK

LEMMA ArrivalInv ==
  ASSUME IInv, \/ Bulk \/ DropSource \/ Patch \/ DropDefinition \/ Series \/ Lineage
               \/ SetTtl \/ RunRetention \/ Person1
  PROVE  IInv'
<1> DEFINE New(op, arg, todo) == [op |-> op, arg |-> arg, todo |-> todo,
                                  read |-> <<>>, inputs |-> {}]
<1>1. \A op, arg, todo :
         /\ DOMAIN New(op, arg, todo) = Fields
         /\ New(op, arg, todo).arg = arg /\ New(op, arg, todo).todo = todo
         /\ New(op, arg, todo).inputs = {}
  BY DEF Fields
<1>2. \A op, arg, todo :
         Arrive(op, arg, todo) /\ CallOK(New(op, arg, todo), past, comp, mix) => IInv'
  BY ArriveInv
<1>3. now \in Nat /\ mix.ago \subseteq Nat
  BY BoundAssumption DEF IInv, TypeOK
<1> HIDE DEF New
<1>4. CASE Bulk
  <2>1. PICK s \in Source, ago \in mix.ago :
           Arrive("bulk", [source |-> s, at |-> now - ago], <<"exists", "put", "put">>)
    BY <1>4 DEF Bulk
  <2>2. PICK arg : arg = [source |-> s, at |-> now - ago]
    OBVIOUS
  <2>3. arg \in [source : Source, at : Int]
    <3>1. now - ago \in Int
      BY <1>3
    <3> QED
      BY <2>2, <3>1
  <2>4. PICK todo : todo = <<"exists", "put", "put">>
    OBVIOUS
  <2>5. BulkCall(New("bulk", arg, todo))
    BY <1>1, <2>3, <2>4 DEF BulkCall
  <2>6. CallOK(New("bulk", arg, todo), past, comp, mix)
    BY <1>1, <2>5, NewOK
  <2> QED
    BY <1>2, <2>1, <2>2, <2>4, <2>6
<1>5. CASE DropSource
  <2>1. PICK s, todo :
           /\ s \in Source
           /\ Arrive("unsource", s, todo) /\ todo = <<"unsource">>
    BY <1>5 DEF DropSource
  <2>2. SingleCall(New("unsource", s, todo), mix)
    BY <1>1, <2>1 DEF SingleCall
  <2>3. CallOK(New("unsource", s, todo), past, comp, mix)
    BY <1>1, <2>2, NewOK
  <2> QED
    BY <1>2, <2>1, <2>3
<1> DEFINE Named == [def : Def, kind : mix.formulas \cup {""},
                     sources : {<<l>> : l \in mix.lists} \cup {<<>>}]
<1> HIDE DEF Named
<1>3a. ASSUME NEW arg \in Named, NEW todo,
              todo = <<"load", "store">>, Arrive("patch", arg, todo)
       PROVE  IInv'
  <2>1. todo # <<"store">> /\ todo \in {<<"load", "store">>, <<"store">>}
    BY <1>3a
  <2>2. PICK f : f = New("patch", arg, todo)
    OBVIOUS
  <2>3. f.arg = arg /\ f.todo = todo
    BY <1>1, <2>2
  <2>4. PatchCall(f, past, mix)
    BY <2>1, <2>3 DEF PatchCall, Named
  <2>5. CallOK(New("patch", arg, todo), past, comp, mix)
    BY <1>1, <2>2, <2>4, NewOK
  <2> QED
    BY <1>2, <1>3a, <2>5
<1>6. CASE Patch
  <2>1. PICK d \in Def, k \in mix.formulas \cup {""},
             list \in {<<l>> : l \in mix.lists} \cup {<<>>} :
           Arrive("patch", [def |-> d, kind |-> k, sources |-> list],
                  <<"load", "store">>)
    BY <1>6 DEF Patch
  <2>2. [def |-> d, kind |-> k, sources |-> list] \in Named
    BY DEF Named
  <2> QED
    BY <1>3a, <2>1, <2>2
<1>7. CASE DropDefinition
  <2>1. PICK d, arg, todo :
           /\ d \in Def
           /\ Arrive("drop", arg, todo) /\ arg = [def |-> d] /\ todo = <<"drop">>
    BY <1>7 DEF DropDefinition
  <2>2. arg \in [def : Def]
    BY <2>1
  <2>3. SingleCall(New("drop", arg, todo), mix)
    BY <1>1, <2>1, <2>2 DEF SingleCall
  <2>4. CallOK(New("drop", arg, todo), past, comp, mix)
    BY <1>1, <2>3, NewOK
  <2> QED
    BY <1>2, <2>1, <2>4
<1>8. CASE Series
  <2>1. PICK d, arg, todo :
           /\ d \in Def
           /\ Arrive("series", arg, todo) /\ arg = [def |-> d] /\ todo = <<"load", "stored">>
    BY <1>8 DEF Series
  <2>2. arg \in [def : Def]
    BY <2>1
  <2>3. SeriesCall(New("series", arg, todo), past, comp)
    BY <1>1, <2>1, <2>2 DEF SeriesCall
  <2>4. CallOK(New("series", arg, todo), past, comp, mix)
    BY <1>1, <2>3, NewOK
  <2> QED
    BY <1>2, <2>1, <2>4
<1>9. CASE Lineage
  <2>1. PICK i, todo :
           /\ i \in past.shown
           /\ Arrive("lineage", i, todo) /\ todo = <<"find", "describe">>
    BY <1>9 DEF Lineage
  <2>2. LineageCall(New("lineage", i, todo), past)
    BY <1>1, <2>1 DEF LineageCall
  <2>3. CallOK(New("lineage", i, todo), past, comp, mix)
    BY <1>1, <2>2, NewOK
  <2> QED
    BY <1>2, <2>1, <2>3
<1>10. CASE SetTtl
  <2>1. PICK d, t, arg, todo :
           /\ d \in Domain /\ t \in mix.ttls
           /\ Arrive("ttl", arg, todo) /\ arg = [domain |-> d, ttl |-> t]
           /\ todo = <<"ttl">>
    BY <1>10 DEF SetTtl
  <2>2. arg \in [domain : Domain, ttl : mix.ttls]
    BY <2>1
  <2>3. SingleCall(New("ttl", arg, todo), mix)
    BY <1>1, <2>1, <2>2 DEF SingleCall
  <2>4. CallOK(New("ttl", arg, todo), past, comp, mix)
    BY <1>1, <2>3, NewOK
  <2> QED
    BY <1>2, <2>1, <2>4
<1>11. CASE RunRetention
  <2>1. PICK d, arg, todo :
           /\ d \in Domain
           /\ Arrive("run", arg, todo) /\ arg = [domain |-> d]
           /\ todo = <<"policy", "purge", "mark">>
    BY <1>11 DEF RunRetention
  <2>2. /\ arg \in [domain : Domain] /\ todo # <<"purge", "mark">>
        /\ todo \in {<<"policy", "purge", "mark">>, <<"purge", "mark">>, <<"mark">>}
    BY <2>1
  <2>3. RunCall(New("run", arg, todo), past)
    BY <1>1, <2>2 DEF RunCall
  <2>4. CallOK(New("run", arg, todo), past, comp, mix)
    BY <1>1, <2>3, NewOK
  <2> QED
    BY <1>2, <2>1, <2>4
<1>12. CASE Person1
  <2>1. PICK u, op, todo :
           /\ u \in Person
           /\ Arrive(op, u, todo) /\ todo \in {<<"feedback">>, <<"issue">>}
    BY <1>12 DEF Person1
  <2>2. SingleCall(New(op, u, todo), mix)
    BY <1>1, <2>1 DEF SingleCall
  <2>3. CallOK(New(op, u, todo), past, comp, mix)
    BY <1>1, <2>2, NewOK
  <2> QED
    BY <1>2, <2>1, <2>3
<1> QED
  BY <1>4, <1>5, <1>6, <1>7, <1>8, <1>9, <1>10, <1>11, <1>12

-----------------------------------------------------------------------------
(* The invariant *)

LEMMA InitIInv == Init => IInv
<1> SUFFICES ASSUME Init PROVE IInv
  OBVIOUS
<1>1. /\ mix \in Mixes /\ now = 0 /\ faults = 0 /\ call = <<>> /\ comp = {}
      /\ pending = {} /\ rollup = {} /\ feedback = {} /\ source = Source
      /\ obs = {[id |-> 0, source |-> s, at |-> 0] : s \in Source}
      /\ issued = [u \in Person |-> <<>>] /\ sweep = Idle /\ roll = Idle
      /\ past = [ttls |-> [d \in Domain |-> {ttl[d]}], lost |-> {}, gone |-> {},
                 rows |-> [d \in Def |-> {def[d]}], shown |-> {}, missed |-> {}]
  BY DEF Init
<1>2. PICK t \in mix.ttls : ttl = [d \in Domain |-> t]
  BY DEF Init
<1>3. PICK k \in mix.formulas, list \in mix.lists :
         def = [d \in Def |-> [kind |-> k, sources |-> list, live |-> TRUE]]
  BY DEF Init
<1>4. /\ k \in Kind /\ list \in Seq(Source) /\ t \in Nat
      /\ {mix.calls, mix.time, mix.faults} \subseteq Nat
  BY <1>1, BoundAssumption
<1>5. \A d \in Def : def[d] \in Row
  BY <1>3, <1>4 DEF Row
<1>6. Made = {} /\ Len(call) = 0
  BY <1>1 DEF Made
<1>7. TypeOK
  <2>1. obs \subseteq Observation
    BY <1>1 DEF Observation
  <2>2. ttl \in [Domain -> mix.ttls]
    BY <1>2
  <2>3. Made = 1..Len(call) /\ Len(call) <= mix.calls
    BY <1>4, <1>6
  <2>4. now \in 0..mix.time /\ faults \in 0..mix.faults
    BY <1>1, <1>4
  <2> QED
    BY <1>1, <1>5, <2>1, <2>2, <2>3, <2>4 DEF TypeOK, Idle
<1>8. CallInv
  BY <1>6 DEF CallInv
<1>9. PastOK
  <2>1. /\ DOMAIN past = {"ttls", "lost", "gone", "rows", "shown", "missed"}
        /\ past.ttls = [d \in Domain |-> {ttl[d]}]
        /\ past.rows = [d \in Def |-> {def[d]}]
    BY <1>1
  <2>2. past.ttls \in [Domain -> SUBSET Nat] /\ \A d \in Domain : ttl[d] \in past.ttls[d]
    BY <1>2, <1>4, <2>1
  <2>3. past.rows \in [Def -> SUBSET Row] /\ DOMAIN def = Def
    <3>1. \A d \in Def : {def[d]} \in SUBSET Row
      BY <1>5
    <3>2. past.rows \in [Def -> SUBSET Row]
      BY <2>1, <3>1
    <3>3. DOMAIN def = Def
      BY <1>3
    <3> QED
      BY <3>2, <3>3
  <2>4. \A d \in Def : past.rows[d] = {def[d]} /\ IsFiniteSet(past.rows[d])
    <3>1. \A d \in Def : past.rows[d] = {def[d]}
      BY <2>1
    <3>2. \A x : IsFiniteSet({x})
      BY FS_Singleton
    <3> QED
      BY <3>1, <3>2
  <2>5. \A d \in Def : /\ IsFiniteSet(past.rows[d])
                       /\ \E row \in past.rows[d] : row.kind = def[d].kind
                       /\ def[d].live => def[d] \in past.rows[d]
    BY <2>4
  <2> QED
    BY <2>1, <2>2, <2>3, <2>5 DEF PastOK
<1>10. IssuedOK
  BY <1>1 DEF IssuedOK
<1>11. SweepInv
  BY <1>1 DEF SweepInv
<1>12. TimeInv
  BY <1>1 DEF TimeInv, Idle
<1>13. ShownInv /\ YoungStay /\ DayIsWhole /\ InputsOfOneVersion /\ IdsResolve
  BY <1>1 DEF ShownInv, YoungStay, DayIsWhole, InputsOfOneVersion, IdsResolve
<1> QED
  BY <1>7, <1>8, <1>9, <1>10, <1>11, <1>12, <1>13 DEF IInv

LEMMA NextIInv == IInv /\ [Next]_vars => IInv'
<1> SUFFICES ASSUME IInv, [Next]_vars PROVE IInv'
  OBVIOUS
<1>1. CASE UNCHANGED vars
  <2>1. UNCHANGED <<rows, pending, call, sweep, roll, now, mix, faults, past>>
    BY <1>1 DEF vars
  <2>2. CallInv' /\ Made' = Made /\ Len(call') = Len(call)
    <3>1. Grows(past, past', comp, comp')
      BY <2>1, GrowsNot DEF rows
    <3> QED
      BY <2>1, <3>1, CallStill DEF IInv
  <2> QED
    BY <2>1, <2>2, QuietInv
<1>2. CASE \/ Bulk \/ DropSource \/ Patch \/ DropDefinition \/ Series \/ Lineage
           \/ SetTtl \/ RunRetention \/ Person1
  BY <1>2, ArrivalInv
<1>3. ASSUME NEW c \in Made,
             \/ Exists(c) \/ Put(c) \/ SoftDeleteSource(c) \/ Load(c) \/ Store(c)
             \/ SoftDelete(c) \/ Stored(c) \/ FetchWindow(c) \/ AnswerSeries(c)
             \/ Find(c) \/ Describe(c) \/ GiveFeedback(c) \/ Issue(c)
             \/ WriteTtl(c) \/ ReadPolicy(c) \/ PurgeByHand(c) \/ MarkByHand(c)
             \/ Drop(c)
      PROVE  IInv'
  BY <1>3, LookInv, PutInv, SmallInv, LoadInv, StoreInv, SoftDeleteInv, StoredInv,
     FetchWindowInv, AnswerSeriesInv, LineageInv, WriteTtlInv, ReadPolicyInv,
     PurgeByHandInv
<1>4. CASE \E p \in pending : Persist(p) \/ PersistFails(p)
  BY <1>4, PersistInv, PersistFailsInv
<1>5. CASE Sweep \/ SweepFails
  BY <1>5, SweepStepInv, SweepDeleteInv DEF Sweep
<1>6. CASE Roll
  BY <1>6, RollDeleteInv, RollInsertInv DEF Roll
<1>7. CASE Restart \/ Tick
  BY <1>7, RestartInv, TickInv
<1> QED
  BY <1>1, <1>2, <1>3, <1>4, <1>5, <1>6, <1>7 DEF Next

\* Every reachable state is one of the inductive invariant.
THEOREM Inductive == Spec => []IInv
<1>1. Init => IInv
  BY InitIInv
<1>2. IInv /\ [Next]_vars => IInv'
  BY NextIInv
<1> QED
  BY <1>1, <1>2, PTL DEF Spec

\* Retention, the rollup, the computations and their lineage tell the truth: no
\* row goes that is younger than every TTL of its domain, a day is averaged whole,
\* the inputs of a computation are those of one version, and an id that was shown
\* leads to its lineage.
THEOREM RecordsAreKept == Spec => []RecordsHold
<1>1. IInv => RecordsHold
  BY DEF IInv, RecordsHold
<1> QED
  BY <1>1, Inductive, PTL
=============================================================================
