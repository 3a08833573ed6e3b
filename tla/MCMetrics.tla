------------------------------ MODULE MCMetrics ------------------------------
EXTENDS Metrics

Mix(kinds, calls, last, failures, ttls, formulas, lists, ago) ==
    [kinds |-> kinds, calls |-> calls, time |-> last, faults |-> failures,
     ttls |-> ttls, formulas |-> formulas, lists |-> lists, ago |-> ago]
One == {"moving_average"}
Two == {"moving_average", "comfort_index"}
S == {<<"s">>}
RS == {<<"s">>, <<"r", "s">>}
ERS == RS \cup {<<>>}

MCMixes ==
    {Mix({"bulk", "sweep"}, 1, 3, 1, {1}, One, S, {0, 3}),
     Mix({"bulk", "unsource", "series"}, 2, 0, 1, {0}, {"sku_on_shelf_compliance"}, RS, {0, 3}),
     Mix({"ttl", "run", "sweep"}, 2, 3, 0, {0, 1}, One, S, {}),
     Mix({"feedback", "issue", "sweep"}, 2, 4, 1, {1}, One, S, {}),
     Mix({"series", "patch", "drop", "lineage"}, 3, 0, 1, {0}, Two, ERS, {}),
     Mix({"series", "roll"}, 2, 5, 0, {0}, One, S, {}),
     Mix({"series", "roll", "patch"}, 2, 1, 0, {0}, Two, RS, {}),
     Mix({"series", "roll", "sweep"}, 1, 5, 0, {1}, One, S, {})}
=============================================================================
