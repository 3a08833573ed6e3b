----------------------------- MODULE KpiQueries -----------------------------
(***************************************************************************)
(* The KPI queries of kpi/repo.rs and the slices of kpi/handlers.rs, over  *)
(* tables that are sets of records.  There are two moments to a day: 2d is *)
(* what "to" day d, 23:59:59, includes, and 2d + 1 is the fraction of the  *)
(* last second after it.                                                   *)
(***************************************************************************)
EXTENDS Integers, Sequences, FiniteSets, FiniteSetsExt, SequencesExt

CONSTANTS
    Source,      \* env_sources: [id -> [site, dept]]
    Definition,  \* metric_definitions: [name -> [kind, sources]]
    Rule,        \* alert_rules: [id -> [def, severity]]
    Recent       \* first moment of the past 30 days

\* alert_events, with the hours until resolved_at (-1 while it is null).
Event == [id : Nat, rule : DOMAIN Rule, at : Nat, acked : BOOLEAN,
          hours : Int]
\* metric_computations.
Computation == [def : DOMAIN Definition, at : Nat, result : Int]
Resolved(e) == e.hours >= 0
Day(x) == x.at \div 2

\* What a request may ask for: it names at most one site, department, category
\* (a kind of formula) and severity, and a first and a last day: each is a set
\* with at most one element, and {} does not filter.
OneOf(S) == {T \in SUBSET S : \A x, y \in T : x = y}
Slice == [site : OneOf(STRING), dept : OneOf(STRING), category : OneOf(STRING),
          severity : OneOf(STRING), from : OneOf(Nat), to : OneOf(Nat)]
Passes(value, wanted) == wanted = {} \/ value \in wanted

\* Site and department are looked up each by itself: one source of the
\* definition may be at the site and another in the department.
InDefinition(f, d) ==
    /\ f.site = {} \/ \E s \in Definition[d].sources : Source[s].site \in f.site
    /\ f.dept = {} \/ \E s \in Definition[d].sources : Source[s].dept \in f.dept

InDays(f, x) == /\ \A d \in f.from : x.at >= 2 * d
                /\ \A d \in f.to : x.at <= 2 * d

\* ALERT_DEF_FILTER and MC_DEF_FILTER, with the days.
EventIn(f, e) ==
    /\ InDefinition(f, Rule[e.rule].def)
    /\ Passes(Definition[Rule[e.rule].def].kind, f.category)
    /\ InDays(f, e)
ComputationIn(f, c) ==
    /\ InDefinition(f, c.def)
    /\ Passes(Definition[c.def].kind, f.category)
    /\ InDays(f, c)

Mean(sum, n) == <<sum, n>>

\* GROUP BY day ORDER BY day DESC; val[x] is what is averaged.
ByDay(S, val) ==
    LET days == {Day(x) : x \in S}
        row(d) == LET in == {x \in S : Day(x) = d}
                  IN  [day |-> d, count |-> Cardinality(in),
                       mean |-> Mean(SumFunctionOnSet(val, in), Cardinality(in))]
    IN  [i \in 1..Cardinality(days) |->
           row(CHOOSE d \in days : Cardinality({x \in days : x >= d}) = i)]

\* Slip: the pages are counted from zero.
PageFromZero(rows, page, size) ==
    SubSeq(rows, page * size + 1, Min({(page + 1) * size, Len(rows)}))

\* LIMIT and OFFSET of PageQuery::resolved, page 0 being page 1.
Page(rows, page, size) ==
    LET p == Max({page, 1})
    IN  SubSeq(rows, (p - 1) * size + 1, Min({p * size, Len(rows)}))

CycleTime(events, f) ==
    LET in == {e \in events : Resolved(e) /\ EventIn(f, e)}
    IN  ByDay(in, [e \in in |-> e.hours])

\* Slip: acknowledged events are left out as well.
AnomaliesUnacked(events, f) ==
    LET in == {e \in events : ~Resolved(e) /\ ~e.acked /\ EventIn(f, e)}
    IN  ByDay(in, [e \in in |-> 0])

Anomalies(events, f) ==
    LET in == {e \in events : ~Resolved(e) /\ EventIn(f, e)}
    IN  ByDay(in, [e \in in |-> 0])

Efficiency(comps, f) ==
    LET in == {c \in comps : ComputationIn(f, c)}
    IN  ByDay(in, [c \in in |-> c.result])

\* The names are unique, so that a name is a definition.
Drill(comps, f) ==
    LET in == {c \in comps : ComputationIn(f, c)}
        row(d) == LET of == {c \in in : c.def = d}
                  IN  [def |-> d,
                       mean |-> Mean(SumFunction([c \in of |-> c.result]),
                                     Cardinality(of))]
    IN  {row(d) : d \in {c.def : c \in in}}

\* funnel_sliced: a severity instead of a category.  The three counts are
\* separate queries.
Funnel(events, f) ==
    LET in == {e \in events : /\ InDays(f, e)
                              /\ Passes(Rule[e.rule].severity, f.severity)
                              /\ InDefinition(f, Rule[e.rule].def)}
    IN  [fired    |-> Cardinality(in),
         acked    |-> Cardinality({e \in in : e.acked}),
         resolved |-> Cardinality({e \in in : Resolved(e)})]

Summary(events) ==
    LET in == {e \in events : e.at >= Recent}
        closed == {e \in in : Resolved(e)}
    IN  [total     |-> Cardinality(in),
         acked     |-> Cardinality({e \in in : e.acked}),
         anomalies |-> Cardinality({e \in in : ~Resolved(e)}),
         cycle     |-> Mean(SumFunction([e \in closed |-> e.hours]),
                            Cardinality(closed))]
=============================================================================
