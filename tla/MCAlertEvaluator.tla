--------------------------- MODULE MCAlertEvaluator ---------------------------
(* Small instances of AlertEvaluator.  A value is normal or high; a rule calls *)
(* one of the two a violation.                                                 *)
EXTENDS AlertEvaluator

CONSTANTS q1, u1, u2, h1, normal, high

OneRule == {q1}
TwoUsers == {u1, u2}
OneHandler == {h1}
MCValue == {normal, high}
MCConditions == {{high}, {normal}}
MCHolds == {0, 1}
=============================================================================
