---------------------------- MODULE SplitPromise ----------------------------
(***************************************************************************)
(* What "this and following" promises, whatever Google and the network do  *)
(* (calendar_write/series/plan.rs: "Insert first, so a failure leaves a    *)
(* visible duplicate, never missing occurrences").                         *)
(*                                                                         *)
(* The occurrences from the split on show on the original series, on the   *)
(* new series, or on both; never on neither.                               *)
(***************************************************************************)
VARIABLES
  original,   \* the original series still repeats past the split
  tail        \* the new series is there

shown == <<original, tail>>

Init == original = TRUE /\ tail = FALSE

(* The new series is inserted: a visible duplicate. *)
Insert == original /\ ~tail /\ tail' = TRUE /\ UNCHANGED original

(* The original is cut, once the new series is there. *)
Cut == original /\ tail /\ original' = FALSE /\ UNCHANGED tail

(* The change is undone, while the original is uncut. *)
Undo == original /\ tail /\ tail' = FALSE /\ UNCHANGED original

(* Another client puts the original's rule back. *)
PutBack == ~original /\ original' = TRUE /\ UNCHANGED tail

Next == Insert \/ Cut \/ Undo \/ PutBack

Spec == Init /\ [][Next]_shown
=============================================================================
