---------------------------- MODULE MCAlgorithms ----------------------------
EXTENDS Algorithms

\* Moments: 30 and 31 December 2023, 28 and 29 February 2024, 1 March 2025, at
\* midnight, at 02:30 and in the last minute of the day.
MCMoments == {d * MinutesPerDay + m : d \in {19721, 19722, 19781, 19782, 20148},
                                      m \in {0, 150, 1439}}

On(v) == <<Value(v)>>
Each == <<Star>>
Cron(m, h, d, mo, w) ==
    [minute |-> m, hour |-> h, dom |-> d, month |-> mo, dow |-> w]
MCCronExprs ==
    {Cron(Each, Each, Each, Each, Each),
     Cron(On(30), On(2), Each, Each, Each),
     Cron(<<Every(15)>>, <<Range2(9, 17)>>, Each, Each, <<Range2(1, 5)>>),
     Cron(On(0), On(0), On(1), Each, On(7)),
     Cron(On(59), On(23), On(31), Each, Each),
     Cron(On(0), On(6), On(29), On(2), Each),
     Cron(On(0), On(6), On(29), On(2), On(1)),
     Cron(On(0), On(6), On(31), On(4), Each),
     Cron(On(0), On(12), On(15), On(6), Each),
     Cron(On(5), <<Value(0), Value(12)>>, <<Every(1)>>, Each, On(0)),
     Cron(<<RangeStep(10, 50, 20)>>, On(3), Each, On(1), Each),
     Cron(On(60), Each, Each, Each, Each),
     Cron(Each, <<Every(0)>>, Each, Each, Each),
     Cron(Each, Each, <<Range2(5, 1)>>, Each, Each)}

MCPoint(v) == [ts : {1, 3, 5, 6}, v : v]
UpTo(n, S) == UNION {[1..k -> S] : k \in 0..n}
MCWindows == UpTo(3, MCPoint({0, 3}))
MCTemps == UpTo(2, [ts : {3, 5}, v : {-25, 29, 60}])
MCHums == UpTo(1, MCPoint({0, 100}))
MCAirs == UpTo(1, MCPoint({0, 7}))

MCNumbers == {Num(n) : n \in {-1, 0, 5, 127, 128, 261}}
             \cup {NumText(n) : n \in {-1, 5, 128}}
MCRows == {[c \in Column |->
              CASE c = "sku" -> sku [] c = "name" -> Other
                [] c = "price_cents" -> p [] c = "currency" -> cur
                [] c = "shelf_life_days" -> l [] c = "on_shelf" -> s] :
             sku \in {Code("a"), Blank, Num(5)},
             p \in MCNumbers \cup {Absent, Blank, Other, Bool(TRUE)},
             cur \in {Absent, Code("EUR"), Other},
             l \in {Absent, Num(128), NumText(128), NumText(5)},
             s \in {Absent, Bool(FALSE), FlagText(FALSE), NumText(1), Num(0)}}

MCCandidates == [skills : {<<>>, <<"a">>, <<"a", "b">>, <<"a", "a">>},
                 years : {0, 4}, days : {0, 200}, complete : {0, 100},
                 major : {"", "cs"}, education : {"none", "bachelor", "phd"},
                 availability : {"", "now"}]
MCRoles == [skills : {<<>>, <<"a">>, <<"b", "c">>}, minYears : {0, 3},
            major : {"cs"}, education : {"none", "bachelor", "unknown"},
            availability : {"", "now"}]
MCWeights == {DefaultWeights,
              [skills |-> 100, experience |-> 0, recency |-> 0,
               completeness |-> 0]}

MCSource == [s1 |-> [site |-> "A", dept |-> "X"],
             s2 |-> [site |-> "B", dept |-> "Y"]]
MCDefinition == [warmth |-> [kind |-> "average", sources |-> {"s1"}],
                 comfort |-> [kind |-> "comfort", sources |-> {"s1", "s2"}]]
MCRule == [hot |-> [def |-> "warmth", severity |-> "critical"],
           stuffy |-> [def |-> "comfort", severity |-> "info"]]
Fired(id, r, at, acked, hours) ==
    [id |-> id, rule |-> r, at |-> at, acked |-> acked, hours |-> hours]
MCHistories == SUBSET {Fired(1, "hot", 2, TRUE, 3), Fired(2, "hot", 3, TRUE, -1),
                       Fired(3, "stuffy", 3, FALSE, 0),
                       Fired(4, "stuffy", 5, FALSE, -1),
                       Fired(5, "hot", 8, FALSE, 7)}
MCComputations == SUBSET {[def |-> "warmth", at |-> 2, result |-> 20],
                          [def |-> "warmth", at |-> 5, result |-> 30],
                          [def |-> "comfort", at |-> 3, result |-> 7]}
MCSlices == [site : {{}, {"A"}, {"B"}}, dept : {{}, {"Y"}},
             category : {{}, {"average"}}, severity : {{}, {"critical"}},
             from : {{}, {2}}, to : {{}, {1}, {3}}]
=============================================================================
