----------------------------- MODULE SeriesPlan -----------------------------
(***************************************************************************)
(* The plan of a series write (calendar_write/series/plan.rs): its steps   *)
(* in order, and what Google's copy of a step's event says of the step.    *)
(*                                                                         *)
(* A step is the kind of its write:                                        *)
(*   insert  the new series of "this and following" (Op::Insert, SplitTail)*)
(*   create  a new event (Op::Insert, NewEvent)                            *)
(*   cut     a PATCH with no undo: the cut of the original, an edit of one *)
(*           occurrence, an edit of a whole series that moves no start     *)
(*   retime  a PATCH that moves a series, whose undo is its old times and  *)
(*           rule (Undo::Restore)                                          *)
(*   delete  a DELETE of a series                                          *)
(*   cancel  the cancelling of one occurrence (Op::Cancel)                 *)
(*   carry   a PATCH of the new series' occurrence, found by its place in  *)
(*           the series (Op::Carry)                                        *)
(***************************************************************************)
EXTENDS Naturals, Sequences

CONSTANT Plan   \* the plan's steps, each by the kind of its write

Kinds == {"insert", "create", "cut", "retime", "delete", "cancel", "carry"}

(* plan_split: the new series, the cut, then each exception carried over    *)
(* and cancelled, or only cancelled.                                        *)
IsSplit(p) ==
  /\ Len(p) >= 2
  /\ p[1] = "insert"
  /\ p[2] = "cut"
  /\ \A i \in 3..Len(p) :
       p[i] = "cancel" \/ (p[i] = "carry" /\ i < Len(p) /\ p[i + 1] = "cancel")

(* plan_cut_delete: the cut, and the exceptions past it cancelled. *)
IsCutDelete(p) == Len(p) >= 1 /\ p[1] = "cut" /\ \A i \in 2..Len(p) : p[i] = "cancel"

(* plan_this, all_plan, delete_plan, SeriesPlan::create: one write. *)
IsOneWrite(p) == Len(p) = 1 /\ p[1] \in {"create", "cut", "retime", "delete", "cancel"}

ASSUME PlanAssumption ==
  /\ Plan \in Seq(Kinds)
  /\ IsSplit(Plan) \/ IsCutDelete(Plan) \/ IsOneWrite(Plan)

Steps == 1..Len(Plan)

(* Stage::Cleanup: what follows the commit. *)
Cleanup(i) == i > 1 /\ Plan[i] # "cut"

Inserts == {"insert", "create"}
Inserting(k) == k \in Inserts
GoneIsDone(k) == k \in {"cancel", "delete"}
NeverResent(k) == k \in {"insert", "create", "carry"}

(* A bug: the cancels run whatever became of the carries. *)
RequiresNothing(i) == {}

(* The cancel of an exception that was carried needs its carry done. *)
Requires(i) == {j \in Steps : j + 1 = i /\ Plan[j] = "carry" /\ Plan[i] = "cancel"}

-----------------------------------------------------------------------------
(* Google's copy of a step's event is a record of GoogleCalendar's.         *)

(* A GET by id answers with a copy of an event that is there, or cancelled. *)
Shown(e) == e.st \in {"live", "cancelled"}

(* SeriesPlan::verdict: whether a step landed, from Google's copy of its    *)
(* event (a 404 when the copy is not shown).                                *)
Verdict(k, e) ==
  CASE k \in {"delete", "cancel"} -> IF e.st = "live" THEN "no" ELSE "yes"
    [] k = "insert" -> IF e.st = "live" /\ e.val = "new" THEN "yes" ELSE "unknown"
    [] k = "create" -> IF e.st = "live" THEN "yes"
                       ELSE IF e.st = "cancelled" THEN "no" ELSE "unknown"
    [] OTHER -> IF ~Shown(e) THEN "no"
                ELSE IF e.val = "new" THEN "yes"
                ELSE IF e.val = "old" /\ k # "carry" THEN "no" ELSE "unknown"

(* A bug: the step's own fields are as they were, so it goes again. *)
ResendOnItsFields(k, e) ==
  IF e.st = "cancelled" THEN "gone"
  ELSE IF NeverResent(k) \/ e.val # "old" THEN "conflict"
  ELSE "proceed"

(* SeriesPlan::resend: whether the step may go again on Google's newer      *)
(* copy: only while all the plan watches is as planned.                     *)
Resend(k, e) ==
  IF e.st = "cancelled" THEN "gone"
  ELSE IF NeverResent(k) \/ e.val # "old" \/ e.rest # "same" THEN "conflict"
  ELSE "proceed"
=============================================================================
