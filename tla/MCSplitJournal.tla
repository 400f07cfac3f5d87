--------------------------- MODULE MCSplitJournal ---------------------------
(* Instances of SplitJournal for TLC. *)
EXTENDS SplitJournal

SplitPlan == <<"insert", "cut">>
=============================================================================
