---------------------------- MODULE MCSplitSettle ----------------------------
(* Instances of SplitSettle for TLC. *)
EXTENDS SplitSettle

SplitPlan == <<"insert", "cut">>
=============================================================================
