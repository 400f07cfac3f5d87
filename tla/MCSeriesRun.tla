----------------------------- MODULE MCSeriesRun -----------------------------
(* "This and following", for TLC: with an occurrence changed on its own to  *)
(* carry over, and without.                                                 *)
EXTENDS SeriesRun

SplitPlan == <<"insert", "cut">>
CarryPlan == <<"insert", "cut", "carry", "cancel">>
=============================================================================
