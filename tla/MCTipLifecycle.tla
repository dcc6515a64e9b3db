--------------------------- MODULE MCTipLifecycle ---------------------------
(* Small instances of TipLifecycle. *)
EXTENDS TipViews

CONSTANTS m1, m2, ann, c1, c2, e1, o1

\* One prediction that can be judged, and one that cannot.
HomeOrBad  == {Says("home"), SaysLine("handicap", NoLine)}
TwoResults == {[home |-> 1, away |-> 0], [home |-> 0, away |-> 0]}
=============================================================================
