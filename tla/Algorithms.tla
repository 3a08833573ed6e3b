----------------------------- MODULE Algorithms -----------------------------
(***************************************************************************)
(* The pure functions of the backend, each asked about one input at a time *)
(* from the sets that the constants give.                                  *)
(***************************************************************************)
EXTENDS CronSchedule, MetricFormulas, ImportRows, TalentScoring, KpiQueries

CONSTANTS
    CronExprs, Moments,        \* expressions, reference times in minutes
    Windows, WindowSize, At,   \* windows of points, their length, "now"
    Temps, Hums, Airs,         \* the windows of a comfort index
    Rows,                      \* rows of a sheet
    Candidates, Roles, Weights,
    Histories, Computations,   \* contents of the tables
    Slices, PageSizes          \* filters and pages of the KPI queries

\* What the inputs are, however many: moments are since 1970, cells, candidates,
\* roles and weights are what the tables and the handlers let through, and a
\* page has at least one row.
ASSUME QuestionAssumption ==
    /\ CronExprs \subseteq Expression /\ Moments \subseteq Nat
    /\ Windows \subseteq Seq(Point) /\ WindowSize \in Int /\ At \in Int
    /\ Temps \subseteq Seq(Point) /\ Hums \subseteq Seq(Point)
    /\ Airs \subseteq Seq([ts : Int, v : Nat])
    /\ Rows \subseteq [Column -> Cell]
    /\ Candidates \subseteq Profile /\ Roles \subseteq OpenRole
    /\ Weights \subseteq Weighting
    /\ \A h \in Histories : h \subseteq Event /\ IsFiniteSet(h)
    /\ \A c \in Computations : c \subseteq Computation /\ IsFiniteSet(c)
    /\ Slices \subseteq Slice /\ PageSizes \subseteq Nat \ {0} /\ Recent \in Nat

VARIABLE asked

Nothing == [about |-> "nothing"]

AskInit == asked = Nothing

Free == asked = Nothing

AskCron ==
    /\ Free
    /\ \E e \in CronExprs, t \in Moments :
          asked' = [about |-> "cron", expr |-> e, from |-> t]
AskWindow ==
    /\ Free
    /\ \E w \in Windows : asked' = [about |-> "window", w |-> w]
AskComfort ==
    /\ Free
    /\ \E t \in Temps, h \in Hums, a \in Airs :
          asked' = [about |-> "comfort", temp |-> t, hum |-> h, air |-> a]
AskRow ==
    /\ Free
    /\ \E r \in Rows : asked' = [about |-> "row", row |-> r]
AskScore ==
    /\ Free
    /\ \E c \in Candidates, r \in Roles, w \in Weights :
          asked' = [about |-> "score", c |-> c, r |-> r, w |-> w]
AskKpi ==
    /\ Free
    /\ \E h \in Histories, c \in Computations, f \in Slices :
          asked' = [about |-> "kpi", events |-> h, comps |-> c, f |-> f]

Answered == ~Free /\ asked' = Nothing

Ask == AskCron \/ AskWindow \/ AskComfort \/ AskRow \/ AskScore \/ AskKpi
       \/ Answered

AskSpec == AskInit /\ [][Ask]_asked

-----------------------------------------------------------------------------
(* Properties *)

\* The next run of a schedule is in the future, is one, and is the next one:
\* asking again from any moment before it gives the same, so a scheduler that
\* was down in between, or asks a minute early, does not skip it.
NextRunIsNext ==
    asked.about = "cron" /\ Parses(asked.expr) =>
        LET s == Parse(asked.expr)
            next == NextAfter(s, asked.from)
            between == Moments \cap (asked.from..(next - 1))
        IN  next # Never =>
                /\ next > asked.from /\ Matches(s, next)
                /\ NextAfter(s, next - 1) = next
                /\ \A t \in between : NextAfter(s, t) = next

\* "None" means that no year has the day, but for 29 February, which may be
\* further away than the 400 days.
SilentOnlyIfRare ==
    asked.about = "cron" /\ Parses(asked.expr) =>
        LET s == Parse(asked.expr)
        IN  NextAfter(s, asked.from) = Never => ~Yearly(s)

\* A schedule fires at its next moment and at no other, and is given up only for
\* a day that comes less than once a year.
CronFindsNext == NextRunIsNext /\ SilentOnlyIfRare

\* Points outside the window, such as late readings and readings dated in the
\* future, do not change a result, and neither does the order in which the
\* readings of different moments were stored.
OnlyTheWindowCounts ==
    asked.about = "window" =>
        LET w == asked.w
            in == InWindow(w, WindowSize, At)
            distinct == \A i, j \in DOMAIN w : i # j => w[i].ts # w[j].ts
        IN  \A v \in {in} \cup (IF distinct THEN {Reverse(w)} ELSE {}) :
                /\ MovingAverage(v, WindowSize, At)
                     = MovingAverage(w, WindowSize, At)
                /\ RateOfChange(v, WindowSize, At)
                     = RateOfChange(w, WindowSize, At)
                /\ SkuOnShelfCompliance(v, WindowSize, At)
                     = SkuOnShelfCompliance(w, WindowSize, At)

\* The comfort index stays on its scale and its alignment between 0 and 1; it
\* is fully aligned exactly when the latest point of every source is of now,
\* and an air speed that is there never makes it warmer.
ComfortOnScale ==
    asked.about = "comfort" =>
        LET out == ComfortIndex(asked.temp, asked.hum, asked.air, WindowSize, At)
            still == ComfortIndex(asked.temp, asked.hum, <<>>, WindowSize, At)
        IN  out # None =>
                /\ Lowest <= out.value /\ out.value <= Highest
                /\ 0 <= out.worst /\ out.worst <= WindowSize
                /\ out.value <= still.value
                /\ out.worst = 0 <=>
                     \A w \in {asked.temp, asked.hum, asked.air} :
                        LET in == InWindow(w, WindowSize, At)
                        IN  in # <<>> => Latest(in).ts = At

\* A metric is one of its window, on its scale.
FormulasHold == OnlyTheWindowCounts /\ ComfortOnScale

\* A row that passes the validator, of a CSV or of a spreadsheet file, is stored
\* with the price it shows, or not at all: what an i32 cannot hold becomes 0 when
\* it is a text, and other low bits or a refusal by the table when it is a number.
\* Both files of a sheet are stored alike where both rows pass, unless the price
\* is too large.
ValidRowKeepsNumbers ==
    asked.about = "row" =>
        LET csv  == [c \in Column |-> FromCsv(asked.row[c])]
            xlsx == [c \in Column |-> FromXlsx(asked.row[c])]
            TooLarge(cell) == cell.type = "num" /\ ~Fits(cell.val)
        IN  /\ \A row \in {csv, xlsx} : Valid(row) =>
                 LET cell == row["price_cents"]  out == ToProductFields(row)
                 IN  /\ Storable(out) \/ TooLarge(cell)
                                      \/ TooLarge(row["shelf_life_days"])
                     /\ Count(cell) /\ Fits(cell.val) => out.price = cell.val
                     /\ out.price # 0 => Count(cell)
            /\ Valid(csv) /\ Valid(xlsx) /\ Fits(csv["price_cents"].val) =>
                 ToProductFields(csv).price = ToProductFields(xlsx).price

\* A score is between 0 and 1, unless a skill is listed twice, which counts
\* twice.
ScoreOnScale ==
    asked.about = "score" =>
        LET s == ScoreBlended(asked.c, asked.r, asked.w)
            cold == ScoreCold(asked.c)
        IN  /\ 0 <= cold.score /\ cold.score <= cold.of
            /\ 0 <= s.score
            /\ IsInjective(asked.c.skills) => s.score <= s.of

\* More skills, years, education and a later visit never lower the score.
BetterNeverScoresLower ==
    asked.about = "score" =>
        LET Scores(c) == ScoreBlended(c, asked.r, asked.w).score
            c == asked.c
            better == {[c EXCEPT !.years = @ + 1],
                       [c EXCEPT !.days = Most(0, @ - 30)],
                       [c EXCEPT !.complete = Least(100, @ + 10)]}
                      \cup {[c EXCEPT !.skills = Append(@, s)] :
                              s \in ToSet(asked.r.skills)}
                      \cup {[c EXCEPT !.education = e] :
                              e \in {x \in DOMAIN EducationRank :
                                       EducationRank[x] >=
                                       EducationRank[c.education]}}
        IN  \A b \in better : Scores(b) >= Scores(c)

\* A ranking is fair: scores are on one scale, and a better candidate is never
\* behind.
ScoresFair == ScoreOnScale /\ BetterNeverScoresLower

\* The pages of a query are its rows, each once and in order, whatever the size
\* of a page is; page 0 is page 1.
PagesAreTheRows ==
    asked.about = "kpi" =>
        LET rows == CycleTime(asked.events, asked.f)
        IN  \A size \in PageSizes :
              /\ FlattenSeq([p \in 1..(Len(rows) + 1) |-> Page(rows, p, size)])
                   = rows
              /\ Page(rows, 0, size) = Page(rows, 1, size)

\* The queries, each with joins and filters of its own, agree: every event that
\* fired in a slice is in the cycle times or among the anomalies, once, and the
\* funnel counts both, and so does the summary, if its 30 days begin with a day;
\* the efficiency by day and the drill-down by definition are about the same
\* computations.
QueriesAgree ==
    asked.about = "kpi" =>
        LET events == asked.events
            f == [asked.f EXCEPT !.category = {}, !.severity = {}]
            month == [f EXCEPT !.site = {}, !.dept = {},
                               !.from = {Recent \div 2}, !.to = {}]
            Counted(rows) == SumFunction([i \in DOMAIN rows |-> rows[i].count])
            Results(rows) == SumFunction([i \in DOMAIN rows |-> rows[i].mean[1]])
            drilled == Drill(asked.comps, asked.f)
            funnel == Funnel(events, f)
            summary == Summary(events)
        IN  /\ Counted(CycleTime(events, f)) = funnel.resolved
            /\ Counted(CycleTime(events, f)) + Counted(Anomalies(events, f))
                 = funnel.fired
            /\ Recent % 2 = 0 =>
                 Funnel(events, month) =
                   [fired |-> summary.total, acked |-> summary.acked,
                    resolved |-> summary.total - summary.anomalies]
            /\ Results(Efficiency(asked.comps, asked.f))
                 = SumFunction([row \in drilled |-> row.mean[1]])

\* The KPI queries agree with each other, and their pages with their rows.
KpisAgree == QueriesAgree /\ PagesAreTheRows
=============================================================================
