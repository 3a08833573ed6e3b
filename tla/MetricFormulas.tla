--------------------------- MODULE MetricFormulas ---------------------------
(***************************************************************************)
(* The formulas of metrics_env/formula.rs.  A point is a time in seconds   *)
(* and a value; a result is a fraction <<numerator, denominator>>, and     *)
(* None when the window has too little data.  The floating-point numbers   *)
(* of the code are exact numbers here.                                     *)
(***************************************************************************)
EXTENDS Integers, Sequences, FiniteSets

\* A point of a window.
Point == [ts : Int, v : Int]

None == <<>>

Inside(p, size, at) == at - size <= p.ts /\ p.ts <= at

InWindow(w, size, at) ==
    LET upTo[n \in 0..Len(w)] ==
            IF n = 0 THEN <<>>
            ELSE IF Inside(w[n], size, at) THEN Append(upTo[n - 1], w[n])
            ELSE upTo[n - 1]
    IN  upTo[Len(w)]

Total(w) ==
    LET sum[n \in 0..Len(w)] == IF n = 0 THEN 0 ELSE sum[n - 1] + w[n].v
    IN  sum[Len(w)]

MovingAverage(w, size, at) ==
    LET in == InWindow(w, size, at)
    IN  IF in = <<>> THEN None ELSE <<Total(in), Len(in)>>

\* The sort is stable: of equal times the first stays first, the last last.
Earliest(w) ==
    w[CHOOSE i \in DOMAIN w : \A j \in DOMAIN w :
        w[i].ts < w[j].ts \/ (w[i].ts = w[j].ts /\ i <= j)]
Latest(w) ==
    w[CHOOSE i \in DOMAIN w : \A j \in DOMAIN w :
        w[i].ts > w[j].ts \/ (w[i].ts = w[j].ts /\ i >= j)]

\* Slip: the points are taken in the order they come.
RateUnsorted(w, size, at) ==
    LET in == InWindow(w, size, at)
        first == in[1]  last == in[Len(in)]
    IN  IF Len(in) < 2 \/ first.ts = last.ts THEN None
        ELSE <<last.v - first.v, last.ts - first.ts>>

RateOfChange(w, size, at) ==
    LET in == InWindow(w, size, at)
        first == Earliest(in)  last == Latest(in)
    IN  IF Len(in) < 2 \/ first.ts = last.ts THEN None
        ELSE <<last.v - first.v, last.ts - first.ts>>

SkuOnShelfCompliance(w, size, at) ==
    LET in == InWindow(w, size, at)
    IN  IF in = <<>> THEN None
        ELSE <<100 * Cardinality({i \in DOMAIN in : in[i].v > 0}), Len(in)>>

-----------------------------------------------------------------------------
(* comfort_index_ext: values in 1/20000.  A point of the air-speed window   *)
(* holds the square root of how much the speed exceeds 0.1 m/s, at least 0. *)

Bounded(lo, x, hi) == IF x < lo THEN lo ELSE IF x > hi THEN hi ELSE x
Unit == 20000
Lowest == -20 * Unit
Highest == 50 * Unit

Missenard(t, rh) == Unit * t - 55 * (100 - rh) * (2 * t - 29)
Cooling(root) == 36000 * root

\* Staleness of a point in seconds, at most the window.
Staleness(p, size, at) ==
    Bounded(0, at - p.ts, IF size > 1 THEN size ELSE 1)

\* Slip: the cooling is taken off after the clamp.
ComfortUnclamped(temp, hum, air, size, at) ==
    LET t == InWindow(temp, size, at)
        h == InWindow(hum, size, at)
        a == InWindow(air, size, at)
        used == {Latest(t), Latest(h)}
                \cup (IF a = <<>> THEN {} ELSE {Latest(a)})
        worst == CHOOSE s \in {Staleness(p, size, at) : p \in used} :
                    \A p \in used : Staleness(p, size, at) <= s
    IN  IF t = <<>> \/ h = <<>> THEN None
        ELSE [value |-> Bounded(Lowest, Missenard(Latest(t).v, Latest(h).v),
                                Highest)
                        - (IF a = <<>> THEN 0 ELSE Cooling(Latest(a).v)),
              worst |-> worst,
              confidence |-> IF a = <<>> THEN <<2, 3>> ELSE <<1, 1>>]

\* worst is the staleness that the alignment 1 - worst/window comes from.  The
\* density of a source that has a point in the window is always 1, so the
\* confidence only tells whether there is an air speed.  air is <<>> when the
\* definition has no such source.
ComfortIndex(temp, hum, air, size, at) ==
    LET t == InWindow(temp, size, at)
        h == InWindow(hum, size, at)
        a == InWindow(air, size, at)
        used == {Latest(t), Latest(h)}
                \cup (IF a = <<>> THEN {} ELSE {Latest(a)})
        worst == CHOOSE s \in {Staleness(p, size, at) : p \in used} :
                    \A p \in used : Staleness(p, size, at) <= s
        base == Missenard(Latest(t).v, Latest(h).v)
        cooling == IF a = <<>> THEN 0 ELSE Cooling(Latest(a).v)
    IN  IF t = <<>> \/ h = <<>> THEN None
        ELSE [value |-> Bounded(Lowest, base - cooling, Highest),
              worst |-> worst,
              confidence |-> IF a = <<>> THEN <<2, 3>> ELSE <<1, 1>>]
=============================================================================
