--------------------------- MODULE GoogleCalendar ---------------------------
(***************************************************************************)
(* Google Calendar as the write path of PM meets it: one event per write   *)
(* of a plan, each with an etag that every change moves; writes guarded by *)
(* If-Match; copies of a write that are still on their way after PM gave   *)
(* up waiting for an answer; and the other clients of the same calendar.   *)
(*                                                                         *)
(* Google is not in src/.  What it does is read off how the code uses it:  *)
(* the answers calendar_write/classify.rs knows, and the rules             *)
(* calendar_write/series/plan.rs and run.rs state about copies and etags.  *)
(*                                                                         *)
(* An event is a record:                                                   *)
(*   st    none (no such id yet), live, cancelled (deleted: a GET still    *)
(*         shows the cancelled copy), purged (deleted: a GET is a 404)     *)
(*   val   the fields the step writes, by what they mean to the step: old, *)
(*         new, half of a move, or something else (other)                  *)
(*   rest  the other fields the plan watches: same as planned, or changed  *)
(*   etag  1, 2, ... : never the same one twice                            *)
(***************************************************************************)
EXTENDS SeriesPlan

CONSTANTS
  MaxEdits,   \* how many times other clients act
  Faults,     \* which faults of Google's are possible
  Touched,    \* the events other clients may change
  Deletable   \* the events other clients may delete

ASSUME BoundsAssumption ==
  /\ MaxEdits \in Nat
  /\ Faults \subseteq {"ignores", "halves", "unreadable", "bare"}
  /\ Touched \subseteq 1..Len(Plan)
  /\ Deletable \subseteq 1..Len(Plan)

VARIABLES
  ev,       \* the event each step writes, by the step's index
  flight,   \* copies of writes that may still land
  edits,    \* how often other clients have acted
  deleted   \* the events other clients have deleted

google == <<ev, flight, edits, deleted>>

Ops == Kinds \cup {"restore", "fence"}

Status == {"none", "live", "cancelled", "purged"}
Values == {"old", "new", "half", "other"}
Event == [st : Status, val : Values, rest : {"same", "changed"}, etag : Nat]
Copy == [e : Steps, op : Ops, tag : Nat]

Fresh(st, etag) == [st |-> st, val |-> "old", rest |-> "same", etag |-> etag]

GoogleTypeOK ==
  /\ ev \in [Steps -> Event]
  /\ flight \subseteq Copy
  /\ edits \in 0..MaxEdits
  /\ deleted \subseteq Steps

GoogleInit ==
  /\ ev = [i \in Steps |->
             IF Plan[i] \in Inserts \cup {"carry"} THEN Fresh("none", 0)
                                                   ELSE Fresh("live", 1)]
  /\ edits = 0
  /\ deleted = {}

-----------------------------------------------------------------------------
(* Google takes a write only while its If-Match is the event's etag, and an *)
(* insert only while nothing has had its id.                                *)
Accepts(c) ==
  IF c.op \in Inserts THEN ev[c.e].st = "none"
                      ELSE ev[c.e].st = "live" /\ ev[c.e].etag = c.tag

Moved(e) == [e EXCEPT !.etag = @ + 1]

(* What a write Google takes may leave.  "ignores": a 2xx that keeps what   *)
(* was there (Why::Ignored).  "halves": half of a move (Why::PutBack).  A   *)
(* change always moves the etag, except a note that changes nothing         *)
(* ("a 2xx that left Google at the cut's etag").                            *)
Applied(op, e) ==
  CASE op \in Inserts -> [Fresh("live", 1) EXCEPT !.val = "new"]
    [] op \in {"cut", "retime", "carry"} -> [Moved(e) EXCEPT !.val = "new"]
    [] op = "restore" -> [Moved(e) EXCEPT !.val = "old"]
    [] op \in {"cancel", "delete"} -> [Moved(e) EXCEPT !.st = "cancelled"]
    [] op = "fence" -> Moved(e)

FaultyEffects(op, e) ==
  CASE op \in {"cut", "carry", "restore", "cancel"} ->
         IF "ignores" \in Faults THEN {Moved(e)} ELSE {}
    [] op = "retime" ->
         (IF "ignores" \in Faults THEN {Moved(e)} ELSE {})
           \cup (IF "halves" \in Faults THEN {[Moved(e) EXCEPT !.val = "half"]} ELSE {})
    [] op = "fence" -> IF "ignores" \in Faults THEN {e} ELSE {}
    [] OTHER -> {}

Effects(op, e) == {Applied(op, e)} \cup FaultyEffects(op, e)

(* How Google refuses a write it does not take.  An insert can also meet a  *)
(* calendar that is not there for the account.                              *)
Refusals(c) ==
  CASE c.op \in Inserts -> {"duplicate"}
    [] c.op \notin Inserts /\ ev[c.e].st = "live" -> {"conflict"}
    [] c.op \notin Inserts /\ ev[c.e].st = "cancelled" -> {"conflict", "gone"}
    [] OTHER -> {"gone"}

(* A copy whose answer PM never got reaches Google after all. *)
Land(c) ==
  /\ c \in flight
  /\ Accepts(c)
  /\ \E e \in Effects(c.op, ev[c.e]) : ev' = [ev EXCEPT ![c.e] = e]
  /\ flight' = flight \ {c}
  /\ UNCHANGED <<edits, deleted>>

-----------------------------------------------------------------------------
(* The other clients.  None of them makes PM's own change.                  *)
MayBecome(k, v) ==
  CASE k = "cut" -> {v, "old", "other"}
    [] k = "retime" -> {v, "old", "half", "other"}
    [] OTHER -> {v, "other"}

OtherEdits(i) ==
  /\ i \in Touched
  /\ edits < MaxEdits
  /\ ev[i].st = "live"
  /\ \E v \in MayBecome(Plan[i], ev[i].val), r \in {ev[i].rest, "changed"} :
        ev' = [ev EXCEPT ![i] = [Moved(ev[i]) EXCEPT !.val = v, !.rest = r]]
  /\ edits' = edits + 1
  /\ UNCHANGED <<flight, deleted>>

(* The cancelled copy Google keeps may be a stub without the fields. *)
OtherDeletes(i) ==
  /\ i \in Deletable
  /\ edits < MaxEdits
  /\ ev[i].st = "live"
  /\ \E v \in {ev[i].val, "other"} :
        ev' = [ev EXCEPT ![i] = [Moved(ev[i]) EXCEPT !.st = "cancelled", !.val = v]]
  /\ edits' = edits + 1
  /\ deleted' = deleted \cup {i}
  /\ UNCHANGED flight

(* Google forgets a deleted event: a GET is a 404 from now on. *)
Purge(i) ==
  /\ i \in Deletable
  /\ ev[i].st = "cancelled"
  /\ ev' = [ev EXCEPT ![i].st = "purged"]
  /\ UNCHANGED <<flight, edits, deleted>>

(* An occurrence of the new series shows in its listing, once the series is *)
(* there.                                                                   *)
Appear(i) ==
  /\ Plan[i] = "carry"
  /\ ev[i].st = "none"
  /\ ev[1].st = "live"
  /\ ev' = [ev EXCEPT ![i] = Fresh("live", 1)]
  /\ UNCHANGED <<flight, edits, deleted>>

World ==
  \/ \E c \in flight : Land(c)
  \/ \E i \in Steps : OtherEdits(i) \/ OtherDeletes(i) \/ Purge(i) \/ Appear(i)
=============================================================================
