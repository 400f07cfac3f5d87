---------------------------- MODULE SeriesRunEnds ----------------------------
(* How a run ends, for every plan, every number of acts of other clients    *)
(* and every choice of faults: a change reported not done left nothing, a   *)
(* cancel only follows its carry, and no step goes out more often than its  *)
(* etags allow.                                                             *)
(*                                                                          *)
(* The invariant is RunInv of SeriesRun, IInv and three parts more.  First  *)
(* how a move of the machine ends a step or undoes the new series (Stays,   *)
(* Ended, UndoMoves); then what no write takes back of a carried change;    *)
(* with both, that the new series stands behind the cut and a carry behind  *)
(* its cancel; then the counts, one lemma per move that sends or hears.     *)
EXTENDS SeriesRunSafety

USE DEF Inserts, Steps, Phases, WritePhases, LookPhases

-----------------------------------------------------------------------------
(* How the steps before the one at `at` ended.  A move of the machine stays *)
(* on its step, ends it, or undoes the new series.                          *)

Stays ==
  /\ at' = at
  /\ ends' = ends
  /\ phase' = "over" => outcome' # "running" /\ ~Cleanup(at)
  /\ outcome' # "done"
  /\ outcome' = "not_done" => rollback' = "unknown" \/ (ToUndo = {} /\ ~Cleanup(at))

Ended(end) ==
  /\ at' = at + 1
  /\ phase' = "start"
  /\ outcome' = outcome
  /\ ends' = [ends EXCEPT ![at] = end]

(* A new series, a cut or a carry that is done is one Google has shown. *)
ShowsItsChange ==
  /\ Plan[at] = "insert" => ev'[at].st # "none"
  /\ Plan[at] = "cut" => ev'[at].val = "new"
  /\ Plan[at] = "carry" => ev'[at].st # "none" /\ ev'[at].val # "old"

SeriesUndone ==
  /\ at' = at
  /\ phase' = "over"
  /\ ends' = [ends EXCEPT ![1] = "undone"]
  /\ outcome' = "not_done"
  /\ rollback' = "done"
  /\ ev'[1].st # "live"

StepMoves ==
  \/ Stays
  \/ Ended("done") /\ ShowsItsChange
  \/ Cleanup(at) /\ \E end \in {"skipped", "unanswered"} : Ended(end)

(* What each verb of the machine does to the step at `at`. *)
LEMMA MovesOfAStep ==
  ASSUME outcome = "running", NEW c
  PROVE  /\ \A t : Sends(c, t) => Stays
         /\ \A p : Looks(p, c) /\ p # "over" => Stays
         /\ \A w : NotDone(c, w) => StepMoves
         /\ Unknown(c) => StepMoves
         /\ \A t : StepEnds(c, "done", t) => Ended("done")
<1>1. \A end, t : StepEnds(c, end, t) => Ended(end)
  BY DEF StepEnds, Ended
<1>2. \A t : Sends(c, t) => Stays
  BY DEF Sends, Stays
<1>3. \A p : Looks(p, c) /\ p # "over" => Stays
  BY DEF Looks, Stays
<1>4. Unknown(c) => StepMoves
  BY <1>1 DEF Unknown, Over, StepMoves, Stays
<1>5. \A w : NotDone(c, w) => StepMoves
  BY <1>1 DEF NotDone, Over, StepMoves, Stays
<1> QED
  BY <1>1, <1>2, <1>3, <1>4, <1>5

(* What a GET judged "yes" has shown of Google. *)
LEMMA VerdictSeen ==
  \A e : /\ Verdict("insert", e) = "yes" => e.st # "none"
         /\ Verdict("cut", e) = "yes" => e.val = "new"
         /\ Verdict("carry", e) = "yes" => e.st # "none" /\ e.val # "old"
BY DEF Verdict, Shown

(* The answer to a write, whichever it is, moves the step so. *)
LEMMA MovesOfAnAnswer ==
  ASSUME IInv, phase = "sent", NEW a, OnWrite(a)
  PROVE  StepMoves
<1> DEFINE c == Marked(copies, a)
<1>1. outcome = "running"
  BY DEF IInv, Undoing
<1> HIDE DEF c
<1>2. /\ \A p : Looks(p, c) /\ p # "over" => StepMoves
      /\ \A w : NotDone(c, w) => StepMoves
      /\ \A t : StepEnds(c, "done", t) /\ ShowsItsChange => StepMoves
  BY <1>1, MovesOfAStep DEF StepMoves
<1>3. ASSUME ReadOwnReply(c, a.body, ev'[at]) PROVE StepMoves
  <2>1. Plan[at] = "delete" \/ Verdict(Plan[at], ev'[at]) = "yes" => ShowsItsChange
    BY VerdictSeen DEF ShowsItsChange
  <2> QED
    BY <1>2, <1>3, <2>1 DEF ReadOwnReply
<1>4. ASSUME ReadPlainAnswer(c, a.v) PROVE StepMoves
  <2>1. GoneIsDone(Plan[at]) => ShowsItsChange
    BY DEF GoneIsDone, ShowsItsChange
  <2> QED
    BY <1>2, <1>4, <2>1 DEF ReadPlainAnswer
<1> QED
  BY <1>2, <1>3, <1>4 DEF OnWrite, c

(* So does a proof that the write did not land. *)
LEMMA MovesOfNotLanded ==
  ASSUME outcome = "running", NEW c, NEW e, NotLanded(c, e)
  PROVE  StepMoves
<1>1. /\ \A d, t : Sends(d, t) => StepMoves
      /\ \A w : NotDone(c, w) => StepMoves
      /\ Unknown(c) => StepMoves
      /\ \A t : StepEnds(c, "done", t) /\ ShowsItsChange => StepMoves
  BY MovesOfAStep DEF StepMoves
<1>2. GoneIsDone(Plan[at]) => ShowsItsChange
  BY DEF GoneIsDone, ShowsItsChange
<1>3. MovesOn(c, e) => StepMoves
  BY <1>1, <1>2 DEF MovesOn
<1> QED
  BY <1>1, <1>3 DEF NotLanded

(* So does a look, a check, and one that got no answer. *)
LEMMA MovesOfALook ==
  ASSUME IInv, phase \in LookPhases \cup {"check", "insert_look"},
         Look \/ LookUnanswered \/ Check \/ InsertLook \/ CheckUnanswered
  PROVE  StepMoves
<1>1. outcome = "running" /\ (phase \in LookPhases => Plan[at] = "carry" /\ at \in Steps)
  BY DEF IInv, Undoing, LooksAreCarries, TypeOK
<1>2. /\ \A d, t : Sends(d, t) => StepMoves
      /\ \A d, p : Looks(p, d) /\ p # "over" => StepMoves
      /\ \A d, w : NotDone(d, w) => StepMoves
      /\ \A d : Unknown(d) => StepMoves
      /\ \A d, t : StepEnds(d, "done", t) /\ ShowsItsChange => StepMoves
      /\ \A d, e : NotLanded(d, e) => StepMoves
  BY <1>1, MovesOfAStep, MovesOfNotLanded DEF StepMoves
<1>3. CASE Look \/ LookUnanswered
  <2>1. phase \in LookPhases
    BY <1>3 DEF Look, LookUnanswered
  <2>2. StepEnds(copies, "skipped", 0) => StepMoves
    BY <1>1, <2>1, PlanShape DEF StepEnds, Ended, StepMoves
  <2> QED
    BY <1>2, <1>3, <2>2 DEF Look, LookUnanswered, NextLook
<1>4. CASE Check \/ InsertLook \/ CheckUnanswered
  <2>1. Check \/ InsertLook => ev' = ev
    BY DEF Check, InsertLook, google
  <2>2. ev' = ev /\ Verdict(Plan[at], ev[at]) = "yes" => ShowsItsChange
    BY VerdictSeen DEF ShowsItsChange
  <2>3. GoneIsDone(Plan[at]) => ShowsItsChange
    BY DEF GoneIsDone, ShowsItsChange
  <2>4. CheckUnanswered => StepMoves
    BY <1>2 DEF CheckUnanswered, UndoPhases
  <2>5. InsertLook => StepMoves
    <3> SUFFICES ASSUME InsertLook PROVE StepMoves
      OBVIOUS
    <3>1. ev' = ev
      BY <2>1
    <3>2. \A t : StepEnds(copies, "done", t) /\ Verdict(Plan[at], ev[at]) = "yes" => StepMoves
      BY <1>2, <2>2, <3>1
    <3> QED
      BY <1>2, <3>2 DEF InsertLook
  <2>6. Check => StepMoves
    <3> SUFFICES ASSUME Check PROVE StepMoves
      OBVIOUS
    <3>1. phase' = "restore" /\ UNCHANGED <<at, ends, tag, copies, why, rollback, outcome>> => Stays
      BY <1>1 DEF Stays
    <3>2. ev' = ev
      BY <2>1
    <3> QED
      BY <1>2, <2>2, <2>3, <3>1, <3>2 DEF Check, StepMoves
  <2> QED
    BY <1>4, <2>4, <2>5, <2>6
<1> QED
  BY <1>3, <1>4

(* A delete Google answers with a 2xx or a 410 leaves nothing there. *)
LEMMA DeleteAnswered ==
  ASSUME GoogleTypeOK, EtagsCount, out \in RequestType, OfThePlan(CopyOf(out)), out.op = "delete",
         NEW a, Attempt(a), a.v \in {"ok", "gone"}
  PROVE  ev'[out.e].st # "live"
<1> DEFINE c == CopyOf(out)
<1>1. c \in Copy /\ c.e = out.e /\ c.op = "delete" /\ c.tag = out.tag
  BY RequestTypes DEF CopyOf
<1>2. CASE Taken(a)
  <2>1. PICK f \in Effects(out.op, ev[out.e]) : ev' = [ev EXCEPT ![out.e] = f]
    BY <1>2 DEF Taken
  <2>2. Accepts(c)
    BY <1>1, <1>2 DEF Taken, Accepts
  <2>3. f \in Effects(c.op, ev[c.e]) /\ ev' = [ev EXCEPT ![c.e] = f] /\ OfThePlan(c)
    BY <1>1, <2>1
  <2> HIDE DEF c
  <2>4. ev'[c.e] = f /\ f.st = "cancelled"
    BY <1>1, <2>2, <2>3, WriteMoves
  <2> QED
    BY <1>1, <2>4
<1>3. CASE Rejected(a)
  <2>1. PICK v \in Refusals(out) : a = Reply(v, out.maybe)
    BY <1>3 DEF Rejected
  <2>2. v = "gone"
    BY <2>1 DEF Refusals, Reply
  <2> QED
    BY <1>3, <2>1, <2>2 DEF Refusals, Rejected, google
<1>4. CASE NeverSent(a) \/ LostAnswer(a) \/ ServerError(a) \/ Refused(a) \/ Unreadable(a) \/ NoCalendar(a)
  BY <1>4 DEF NeverSent, LostAnswer, ServerError, Refused, Unreadable, NoCalendar, Reply, Lost, Unsent
<1> QED
  BY <1>2, <1>3, <1>4 DEF Attempt

(* Undoing the new series. *)
UndoMoves ==
  \/ /\ at' = at
     /\ ends' = ends
     /\ outcome' = "not_done" => rollback' = "unknown"
     /\ outcome' \in {"running", "not_done"} /\ (phase' = "over" => outcome' = "not_done")
  \/ SeriesUndone

(* And the rollback stays, ends unknown, or has undone the series. *)
LEMMA MovesOfAnUndo ==
  ASSUME IInv, phase \in UndoPhases,
         \/ UndoLook
         \/ CheckUnanswered
         \/ phase \in {"undo", "undo_again"} /\ \E a \in Answers : Attempt(a) /\ OnUndoSend(a)
  PROVE  UndoMoves
<1>1. outcome = "running"
  BY DEF IInv, Undoing, UndoPhases
<1>2. RollbackUnknown => UndoMoves
  BY DEF RollbackUnknown, Over, UndoMoves
<1>3. Undone /\ ev'[1].st # "live" => UndoMoves
  BY DEF Undone, Over, UndoMoves, SeriesUndone
<1>4. \A p : Looks(p, copies) /\ p # "over" => UndoMoves
  BY <1>1 DEF Looks, UndoMoves
<1>5. CASE UndoLook
  <2>1. ev' = ev
    BY <1>5 DEF UndoLook, google
  <2>2. phase' = "undo_again" /\ UNCHANGED <<at, ends, tag, copies, why, rollback, outcome>> => UndoMoves
    BY <1>1 DEF UndoMoves
  <2> QED
    BY <1>2, <1>3, <1>5, <2>1, <2>2 DEF UndoLook
<1>6. CASE CheckUnanswered
  BY <1>2, <1>6 DEF CheckUnanswered, UndoPhases
<1>7. ASSUME phase \in {"undo", "undo_again"}, NEW a \in Answers, Attempt(a), OnUndoSend(a)
      PROVE  UndoMoves
  <2>1. /\ GoogleTypeOK /\ EtagsCount /\ out \in RequestType /\ OfThePlan(CopyOf(out))
        /\ out.e = 1 /\ out.op = "delete"
    BY <1>7, OutOfThePlan DEF IInv, TypeOK, OutIsTheStep
  <2>2. a.v \in {"ok", "gone"} => ev'[1].st # "live"
    BY <1>7, <2>1, DeleteAnswered
  <2> QED
    BY <1>2, <1>3, <1>4, <1>7, <2>2 DEF OnUndoSend
<1> QED
  BY <1>5, <1>6, <1>7

(* What no write and no other client takes back: what Google has had, and a *)
(* change carried over.                                                     *)
Carried(e) == e.st # "none" /\ e.val # "old"

(* No act of another client takes a carried change back. *)
LEMMA OthersKeepCarried ==
  ASSUME GoogleTypeOK, NEW i \in Steps, OtherEdits(i) \/ OtherDeletes(i) \/ Purge(i) \/ Appear(i),
         NEW j \in Steps, Plan[j] = "carry", Carried(ev[j])
  PROVE  Carried(ev'[j])
<1>1. ev[j] \in Event /\ ev \in [Steps -> Event]
  BY DEF GoogleTypeOK
<1>2. PICK f : ev' = [ev EXCEPT ![i] = f]
  BY DEF OtherEdits, OtherDeletes, Purge, Appear
<1>3. CASE i # j
  BY <1>1, <1>2, <1>3
<1> DEFINE m == Moved(ev[j])
<1>4. m \in Event /\ m.st = ev[j].st
  BY <1>1 DEF Moved, Event
<1>5. CASE i = j /\ OtherEdits(j)
  <2>1. PICK v \in {ev[j].val, "other"}, r \in {ev[j].rest, "changed"} :
          ev' = [ev EXCEPT ![j] = [m EXCEPT !.val = v, !.rest = r]]
    BY <1>5 DEF OtherEdits, MayBecome
  <2> HIDE DEF m
  <2> DEFINE g == [m EXCEPT !.val = v, !.rest = r]
  <2>2. g.st = ev[j].st /\ g.val = v
    BY <1>4 DEF Event
  <2>3. ev' = [ev EXCEPT ![j] = g]
    BY <2>1
  <2> HIDE DEF g
  <2> QED
    BY <1>1, <2>2, <2>3 DEF Carried
<1>6. CASE i = j /\ OtherDeletes(j)
  <2>1. PICK v \in {ev[j].val, "other"} :
          ev' = [ev EXCEPT ![j] = [m EXCEPT !.st = "cancelled", !.val = v]]
    BY <1>6 DEF OtherDeletes
  <2> HIDE DEF m
  <2> DEFINE g == [m EXCEPT !.st = "cancelled", !.val = v]
  <2>2. g.st = "cancelled" /\ g.val = v
    BY <1>4 DEF Event
  <2>3. ev' = [ev EXCEPT ![j] = g]
    BY <2>1
  <2> HIDE DEF g
  <2> QED
    BY <1>1, <2>2, <2>3 DEF Carried
<1>7. CASE i = j /\ Purge(j)
  <2> DEFINE g == [ev[j] EXCEPT !.st = "purged"]
  <2>1. g.st = "purged" /\ g.val = ev[j].val
    BY <1>1 DEF Event
  <2>2. ev' = [ev EXCEPT ![j] = g]
    BY <1>1, <1>7 DEF Purge
  <2> HIDE DEF g
  <2> QED
    BY <1>1, <2>1, <2>2 DEF Carried
<1>8. CASE i = j /\ Appear(j)
  BY <1>8 DEF Appear, Carried
<1> QED
  BY <1>3, <1>5, <1>6, <1>7, <1>8

(* Nor does a write of PM's that lands. *)
LEMMA WritesKeepCarried ==
  ASSUME GoogleTypeOK, EtagsCount, NEW c \in Copy, OfThePlan(c), Accepts(c),
         NEW f \in Effects(c.op, ev[c.e]), ev' = [ev EXCEPT ![c.e] = f],
         NEW j \in Steps, Plan[j] = "carry", Carried(ev[j])
  PROVE  Carried(ev'[j])
<1>1. /\ ev'[c.e] = f
      /\ \A i \in Steps : i # c.e => ev'[i] = ev[i]
      /\ f.st \in {"live", "cancelled"}
  BY WriteMoves
<1>2. CASE c.e = j
  <2>1. c.op = "carry"
    BY <1>2 DEF OfThePlan
  <2>2. Moved(ev[j]).val = ev[j].val /\ [Moved(ev[j]) EXCEPT !.val = "new"].val = "new"
    <3>1. ev[j] \in Event
      BY DEF GoogleTypeOK
    <3> DEFINE m == Moved(ev[j])
    <3>2. m \in Event /\ m.val = ev[j].val
      BY <3>1 DEF Moved, Event
    <3> HIDE DEF m
    <3>3. [m EXCEPT !.val = "new"].val = "new"
      BY <3>2 DEF Event
    <3> QED
      BY <3>2, <3>3 DEF m
  <2>3. f = [Moved(ev[j]) EXCEPT !.val = "new"] \/ f = Moved(ev[j])
    BY <1>2, <2>1 DEF Effects, Applied, FaultyEffects
  <2> QED
    BY <1>1, <1>2, <2>2, <2>3 DEF Carried
<1> QED
  BY <1>1, <1>2

(* What a step of the whole run does to Google. *)
LEMMA GoogleMoves ==
  ASSUME IInv, [Next]_vars
  PROVE  /\ EtagsMove
         /\ \A j \in Steps : Plan[j] = "carry" /\ Carried(ev[j]) => Carried(ev'[j])
<1>1. GoogleTypeOK /\ EtagsCount /\ \A c \in flight : OfThePlan(c)
  BY DEF IInv, TypeOK, CopiesBehind
<1>2. CASE UNCHANGED <<ev, deleted>>
  BY <1>2 DEF EtagsMove
<1>3. ASSUME NEW c \in Pending, c \in Copy, OfThePlan(c), Accepts(c),
             NEW f \in Effects(c.op, ev[c.e]), ev' = [ev EXCEPT ![c.e] = f]
      PROVE  /\ EtagsMove
             /\ \A j \in Steps : Plan[j] = "carry" /\ Carried(ev[j]) => Carried(ev'[j])
  BY <1>1, <1>3, WriteMoves, WritesKeepCarried
<1>4. ASSUME NEW i \in Steps, OtherEdits(i) \/ OtherDeletes(i) \/ Purge(i) \/ Appear(i)
      PROVE  /\ EtagsMove
             /\ \A j \in Steps : Plan[j] = "carry" /\ Carried(ev[j]) => Carried(ev'[j])
  <2>1. World
    BY <1>4 DEF World
  <2> QED
    BY <1>1, <1>4, <2>1, WorldMoves, OthersKeepCarried
<1> QED
  BY <1>2, <1>3, <1>4, StepWrites

(* A new copy on its way is the write that is out. *)
LEMMA FlightMoves ==
  ASSUME IInv, [Next]_vars
  PROVE  \A c \in flight' : c \in flight \/ (phase \in WritePhases /\ c = CopyOf(out))
<1>1. GoogleTypeOK /\ EtagsCount /\ out \in RequestType /\ \A c \in flight : OfThePlan(c)
  BY DEF IInv, TypeOK, CopiesBehind
<1>2. CASE UNCHANGED google
  BY <1>2 DEF google
<1>3. ASSUME NEW a, Attempt(a), phase \in WritePhases
      PROVE  flight' \subseteq flight \cup {CopyOf(out)}
  BY <1>1, <1>3, OutOfThePlan, AttemptMoves
<1>4. CASE WriteTriedAgain
  BY <1>4 DEF WriteTriedAgain, TriesAgain, Sending, MayLand, google
<1>5. CASE World
  BY <1>1, <1>5, WorldMoves
<1>6. CASE Start \/ Finish \/ Look \/ LookUnanswered \/ Check \/ InsertLook \/ UndoLook \/ CheckUnanswered
  BY <1>2, <1>6 DEF Start, Finish, Look, LookUnanswered, Check, InsertLook, UndoLook, CheckUnanswered
<1>7. CASE WriteAnswered
  BY <1>3, <1>7 DEF WriteAnswered, Sending
<1> QED
  BY <1>2, <1>4, <1>5, <1>6, <1>7 DEF Next, Machine, Others, vars

(* Every step of the whole run, by what becomes of the step at `at`. *)
LEMMA EveryMove ==
  ASSUME IInv, [Next]_vars
  PROVE  \/ UNCHANGED <<at, phase, ends, rollback, outcome>>
         \/ at \in Steps /\ phase # "over" /\ StepMoves
         \/ phase \in UndoPhases /\ UndoMoves
         \/ at \notin Steps /\ at' = at /\ phase' = "over" /\ ends' = ends /\ outcome' = "done"
<1>1. /\ phase \notin {"start", "over"} => at \in Steps
      /\ phase # "over" => outcome = "running"
      /\ at \in 1..(Len(Plan) + 1)
  BY DEF IInv, TypeOK, Undoing
<1>2. CASE Start
  <2>1. /\ \A t : StepEnds(copies, "skipped", t) => Ended("skipped")
        /\ \A c, t : Sends(c, t) => Stays
        /\ \A c, p : Looks(p, c) /\ p # "over" => Stays
    BY <1>1, <1>2, MovesOfAStep DEF Start, StepEnds, Ended
  <2>2. Requires(at) # {} => Cleanup(at)
    BY <1>1, <1>2 DEF Start, Requires, Cleanup
  <2>3. at \in Steps /\ phase = "start"
    BY <1>1, <1>2 DEF Start
  <2> QED
    BY <1>2, <2>1, <2>2, <2>3 DEF Start, StepMoves
<1>3. CASE Finish
  BY <1>1, <1>3 DEF Finish, Over
<1>4. CASE WriteAnswered
  <2>1. PICK a \in Answers : Attempt(a) /\ Hears(a)
    BY <1>4 DEF WriteAnswered
  <2>2. CASE phase = "sent" /\ OnWrite(a)
    BY <1>1, <2>2, MovesOfAnAnswer
  <2>3. CASE phase = "restore" /\ OnRestore(a)
    <3>1. StepMoves
      BY <1>1, <2>3, MovesOfAStep DEF OnRestore
    <3> QED
      BY <1>1, <2>3, <3>1
  <2>4. CASE phase \in {"undo", "undo_again"} /\ OnUndoSend(a)
    BY <2>1, <2>4, MovesOfAnUndo DEF UndoPhases
  <2> QED
    BY <2>1, <2>2, <2>3, <2>4 DEF Hears
<1>5. CASE WriteTriedAgain
  BY <1>5 DEF WriteTriedAgain
<1>6. CASE UndoLook \/ (CheckUnanswered /\ phase \in UndoPhases)
  <2>1. phase \in UndoPhases
    BY <1>6 DEF UndoLook, UndoPhases
  <2> QED
    BY <1>6, <2>1, MovesOfAnUndo
<1>7. CASE Look \/ LookUnanswered \/ Check \/ InsertLook \/ (CheckUnanswered /\ phase \notin UndoPhases)
  <2>1. phase \in LookPhases \cup {"check", "insert_look"}
    BY <1>7 DEF Look, LookUnanswered, Check, InsertLook, CheckUnanswered, UndoPhases
  <2> QED
    BY <1>1, <1>7, <2>1, MovesOfALook
<1>8. CASE Others \/ UNCHANGED vars
  BY <1>8 DEF Others, vars, machine
<1> QED
  BY <1>2, <1>3, <1>4, <1>5, <1>6, <1>7, <1>8 DEF Next, Machine

(* The new series stands behind the cut, one step more. *)
LEMMA SeriesBehindStep ==
  ASSUME IInv, SeriesBehind, [Next]_vars
  PROVE  SeriesBehind'
<1> SUFFICES ASSUME Splits, at' >= 2
             PROVE  /\ ev'[1].st # "none"
                    /\ outcome' # "not_done" => ends'[1] = "done"
                    /\ outcome' = "not_done" =>
                         rollback' = "unknown" \/ (rollback' = "done" /\ ev'[1].st # "live")
  BY DEF SeriesBehind
<1>1. /\ 1 \in Steps /\ Plan[1] = "insert" /\ EtagsMove /\ at \in Nat \ {0}
      /\ ends \in [Steps -> Ends]
      /\ phase # "over" => outcome = "running"
  BY PlanFacts, GoogleMoves DEF Splits, IInv, TypeOK, Undoing
<1>n. outcome = "not_done" => at \in Steps
  BY DEF IInv, TakenIsProved, TakenForNotDone
<1>2. CASE at >= 2
  <2>1. /\ ev[1].st # "none" /\ ev'[1].st # "none"
        /\ ev[1].st # "live" => ev'[1].st # "live"
        /\ outcome # "not_done" => ends[1] = "done"
        /\ outcome = "not_done" => rollback = "unknown" \/ (rollback = "done" /\ ev[1].st # "live")
    BY <1>1, <1>2 DEF SeriesBehind, EtagsMove
  <2>2. CASE UNCHANGED <<at, phase, ends, rollback, outcome>>
    BY <2>1, <2>2
  <2>3. CASE at \in Steps /\ phase # "over" /\ StepMoves
    <3>1. CASE Stays
      <4>1. ~Cleanup(at) => 1 \in ToUndo
        BY <1>1, <1>2, <2>1, <2>3, PlanShape DEF ToUndo
      <4> QED
        BY <1>1, <2>1, <2>3, <3>1, <4>1 DEF Stays
    <3>2. ASSUME NEW end, Ended(end) PROVE outcome' = "running" /\ ends'[1] = "done"
      BY <1>1, <1>2, <2>1, <2>3, <3>2 DEF Ended
    <3> QED
      BY <2>1, <2>3, <3>1, <3>2 DEF StepMoves
  <2>4. CASE phase \in UndoPhases /\ UndoMoves
    BY <1>1, <2>1, <2>4 DEF UndoMoves, SeriesUndone, UndoPhases
  <2>5. CASE at \notin Steps /\ at' = at /\ phase' = "over" /\ ends' = ends /\ outcome' = "done"
    BY <1>n, <2>1, <2>5
  <2> QED
    BY <2>2, <2>3, <2>4, <2>5, EveryMove
<1>3. CASE at = 1
  <2>1. at \in Steps /\ phase # "over" /\ StepMoves
    BY <1>1, <1>3, EveryMove DEF UndoMoves, SeriesUndone
  <2>2. Ended("done") /\ ShowsItsChange
    BY <1>3, <2>1 DEF StepMoves, Stays, Cleanup
  <2> QED
    BY <1>1, <1>3, <2>1, <2>2 DEF Ended, ShowsItsChange
<1> QED
  BY <1>1, <1>2, <1>3

(* A run that ends says how, one step more. *)
LEMMA EndSaysStep ==
  ASSUME IInv, EndSays, [Next]_vars
  PROVE  EndSays'
<1>1. phase # "over" => outcome = "running"
  BY DEF IInv, Undoing
<1>2. CASE UNCHANGED <<at, phase, ends, rollback, outcome>>
  BY <1>2 DEF EndSays, Cleanup
<1>3. CASE at \in Steps /\ phase # "over" /\ StepMoves
  BY <1>3 DEF StepMoves, Stays, Ended, EndSays, Cleanup
<1>4. CASE phase \in UndoPhases /\ UndoMoves
  BY <1>4 DEF UndoMoves, SeriesUndone, EndSays
<1>5. CASE at' = at /\ phase' = "over" /\ ends' = ends /\ outcome' = "done"
  BY <1>5 DEF EndSays
<1> QED
  BY <1>2, <1>3, <1>4, <1>5, EveryMove

(* What comes to be landed is a copy on its way, or the write that is out.  *)
LEMMA LandedByACopy ==
  ASSUME IInv, [Next]_vars, NEW i \in Steps, \A c \in Pending : c.e # i, Landed(i)'
  PROVE  Landed(i)
<1>1. GoogleTypeOK /\ EtagsCount /\ \A c \in flight : OfThePlan(c)
  BY DEF IInv, TypeOK, CopiesBehind
<1>2. CASE UNCHANGED <<ev, deleted>>
  BY <1>2 DEF Landed
<1>3. ASSUME UNCHANGED deleted, NEW c \in Pending, c \in Copy, OfThePlan(c), Accepts(c),
             NEW f \in Effects(c.op, ev[c.e]), ev' = [ev EXCEPT ![c.e] = f]
      PROVE  Landed(i)
  <2>1. ev'[i] = ev[i]
    BY <1>1, <1>3, WriteMoves
  <2> QED
    BY <1>3, <2>1 DEF Landed
<1>4. CASE World
  BY <1>1, <1>4, WorldMoves DEF Landable, Pending
<1> QED
  BY <1>2, <1>3, <1>4, StepWrites DEF World

(* Every cancel follows its carry, one step more. *)
LEMMA CarriesBehindStep ==
  ASSUME IInv, IInv', CarriesBehind, [Next]_vars
  PROVE  CarriesBehind'
<1> SUFFICES ASSUME NEW i \in Steps, NEW j \in Steps, j + 1 = i, Plan[j] = "carry", Plan[i] = "cancel"
             PROVE  \/ ends'[j] = "done" /\ Carried(ev'[j])
                    \/ /\ ends'[j] # "done"
                       /\ ~Landed(i)'
                       /\ \A c \in flight' : c.e # i
                       /\ at' = i => phase' = "start"
  BY DEF CarriesBehind, Carried
<1> DEFINE before == /\ ends[j] # "done"
                     /\ ~Landed(i)
                     /\ \A c \in flight : c.e # i
                     /\ at = i => phase = "start"
<1>1. /\ (ends[j] = "done" /\ Carried(ev[j])) \/ before
      /\ at \in Nat /\ ends \in [Steps -> Ends]
      /\ Carried(ev[j]) => Carried(ev'[j])
      /\ i > 1 /\ ~Retry /\ j \in Nat
      /\ phase \in UndoPhases => at = 2 /\ j # 1
  <2>1. (ends[j] = "done" /\ Carried(ev[j])) \/ before
    BY DEF CarriesBehind, Carried
  <2>2. Carried(ev[j]) => Carried(ev'[j])
    BY GoogleMoves
  <2>3. i > 1 /\ ~Retry /\ j \in Nat
    BY PlanShape
  <2>4. at \in Nat /\ ends \in [Steps -> Ends]
    BY DEF IInv, TypeOK
  <2>5. phase \in UndoPhases => at = 2 /\ j # 1
    BY DEF IInv, Undoing
  <2> QED
    BY <2>1, <2>2, <2>3, <2>4, <2>5
<1>2. ASSUME before PROVE ~Landed(i)' /\ \A c \in flight' : c.e # i
  <2>1. \A c \in Pending : c.e # i
    <3>1. phase \in WritePhases => CopyOf(out).e # i
      BY <1>1, <1>2, OutOfThePlan DEF IInv, OutIsTheStep
    <3> QED
      BY <1>2, <3>1 DEF Pending
  <2>2. \A c \in flight' : c \in Pending
    BY FlightMoves DEF Pending
  <2> QED
    BY <1>2, <2>1, <2>2, LandedByACopy
<1>3. ASSUME at' = at, ends'[j] = ends[j], at = i => phase' = "start" \/ ends[j] = "done"
      PROVE  \/ ends'[j] = "done" /\ Carried(ev'[j])
             \/ /\ ends'[j] # "done"
                /\ ~Landed(i)'
                /\ \A c \in flight' : c.e # i
                /\ at' = i => phase' = "start"
  BY <1>1, <1>2, <1>3
<1>4. CASE at = i /\ phase = "start" /\ ends[j] # "done"
  <2>1. CASE UNCHANGED machine
    BY <1>3, <1>4, <2>1 DEF machine
  <2>2. CASE Start
    <3>1. j \in Requires(at)
      BY <1>4 DEF Requires
    <3>2. at' = at + 1 /\ ends'[j] = ends[j]
      BY <1>1, <1>4, <2>2, <3>1 DEF Start, StepEnds
    <3> QED
      BY <1>1, <1>2, <1>4, <3>2
  <2> QED
    BY <1>4, <2>1, <2>2 DEF Next, Machine, Finish, WriteAnswered, WriteTriedAgain, Sending, Look,
                            LookUnanswered, Check, InsertLook, UndoLook, CheckUnanswered, Others, vars
<1>5. CASE ~(at = i /\ phase = "start" /\ ends[j] # "done")
  <2>0. at = i => ends[j] = "done"
    BY <1>1, <1>5
  <2>1. CASE at' = at /\ ends' = ends
    BY <1>3, <2>0, <2>1
  <2>2. CASE phase \in UndoPhases /\ SeriesUndone
    BY <1>1, <1>3, <2>0, <2>2 DEF SeriesUndone
  <2>3. ASSUME NEW end, Ended(end), at # j PROVE at' # i /\ ends'[j] = ends[j]
    BY <1>1, <2>3 DEF Ended
  <2>4. ASSUME NEW end, Ended(end), at = j
        PROVE  /\ at' = i /\ phase' = "start" /\ ends'[j] = end
               /\ ~Landed(i)' /\ \A c \in flight' : c.e # i
    BY <1>1, <2>4 DEF Ended, IInv, LaterUntouched, CopiesBehind
  <2>5. CASE at \in Steps /\ StepMoves
    <3>1. CASE Stays
      BY <2>1, <3>1 DEF Stays
    <3>2. CASE Ended("done") /\ ShowsItsChange
      BY <1>1, <1>2, <2>3, <2>4, <3>2 DEF ShowsItsChange, Carried
    <3>3. ASSUME NEW end \in {"skipped", "unanswered"}, Ended(end)
          PROVE  \/ ends'[j] = "done" /\ Carried(ev'[j])
                 \/ /\ ends'[j] # "done"
                    /\ ~Landed(i)'
                    /\ \A c \in flight' : c.e # i
                    /\ at' = i => phase' = "start"
      BY <1>1, <1>2, <2>3, <2>4, <3>3
    <3> QED
      BY <2>5, <3>1, <3>2, <3>3 DEF StepMoves
  <2> QED
    BY <2>1, <2>2, <2>5, EveryMove DEF UndoMoves
<1> QED
  BY <1>4, <1>5

-----------------------------------------------------------------------------
(* How often a step goes out.                                               *)

(* A Boolean counted is 0 or 1. *)
LEMMA Ones == \A b : One(b) \in {0, 1} /\ (b => One(b) = 1) /\ (~b => One(b) = 0)
BY DEF One

(* The counters are numbers, and a bump adds one at most. *)
LEMMA CountType ==
  ASSUME TypeOK
  PROVE  /\ count.requests \in Nat /\ count.copies \in Nat
         /\ \A n \in Nat : Bump(n) \in Nat /\ Bump(n) <= n + 1
         /\ count = [requests |-> count.requests, copies |-> count.copies]
BY RetryAssumption DEF TypeOK, Bump

(* A move after which the step at `at` is not in hand. *)
Quiet ==
  /\ at' \in {at, at + 1}
  /\ phase' \notin {"sent", "check", "insert_look", "restore"} \cup LookPhases
  /\ ~out'.maybe

(* A verb that ends the step, or the run, leaves nothing to be sent. *)
LEMMA QuietMoves ==
  ASSUME NEW c
  PROVE  /\ \A w : NotDone(c, w) => Quiet
         /\ Unknown(c) => Quiet
         /\ \A end, t : StepEnds(c, end, t) => Quiet
         /\ Undone => Quiet
         /\ RollbackUnknown => Quiet
<1>1. ~Idle.maybe /\ \A e, op, t : ~Request(e, op, t).maybe
  BY DEF Idle, Request
<1>2. \A o, w, r : Over(o, w, r) => Quiet
  BY <1>1 DEF Over, Quiet
<1>3. \A end, t : StepEnds(c, end, t) => Quiet
  BY <1>1 DEF StepEnds, Quiet
<1>4. \A w : NotDone(c, w) => Quiet
  BY <1>1, <1>2, <1>3 DEF NotDone, Quiet
<1> QED
  BY <1>2, <1>3, <1>4 DEF Unknown, Undone, RollbackUnknown

(* A step that ended, or gave way to the rollback, counts nothing more. *)
LEMMA QuietCounted ==
  ASSUME TypeOK, at \in Steps, Quiet, count'.requests <= 4, count'.copies <= 6,
         Inserting(Plan[at]) => count'.requests <= 2
  PROVE  Counted'
<1>1. ~Active'
  BY DEF Quiet, Active
<1>2. at' \in Steps /\ Inserting(Plan[at]') => at' = at
  BY PlanShape DEF Quiet, Inserting
<1> QED
  BY <1>1, <1>2 DEF Counted, Quiet

(* A step's own write goes out, on an etag it has gone on at most once.     *)
LEMMA SendsCounted ==
  ASSUME TypeOK, TypeOK', at \in Steps, Plan[at] \notin Inserts,
         NEW c \in CopiesType, NEW t \in Nat, Sends(c, t),
         count'.requests <= count.requests + 1, count'.copies = count.copies,
         c.resentOn \subseteq c.sentOn \cup {t}, \A u \in c.sentOn : u <= t,
         count.requests <= One(t \in c.resentOn) + 2 * One(c.movedOn),
         count.copies <= 3 * One(c.movedOn) + One(t \in c.resentOn)
  PROVE  Counted'
<1>1. /\ at' = at /\ phase' = "sent" /\ out' = Request(at, Plan[at], t)
      /\ copies' = [c EXCEPT !.last = t, !.sentOn = c.sentOn \cup {t}]
  BY DEF Sends, Inserting
<1>2. ~out'.maybe
  BY <1>1 DEF Request
<1>3. /\ copies'.last = t /\ copies'.sentOn = c.sentOn \cup {t}
      /\ copies'.resentOn = c.resentOn /\ copies'.movedOn = c.movedOn
  BY <1>1 DEF CopiesType
<1>4. count.requests \in Nat /\ count.copies \in Nat /\ count'.requests \in Nat /\ count'.copies \in Nat
  BY CountType DEF TypeOK
<1>5. OnceMore' <=> t \in c.resentOn
  BY <1>3 DEF OnceMore
<1> DEFINE again == One(t \in c.resentOn)
           moved == One(c.movedOn)
<1>6. again \in {0, 1} /\ moved \in {0, 1} /\ One(OnceMore') = again /\ One(out'.maybe) = 0
  BY <1>2, <1>5, Ones
<1>7. CopiesCounted'
  BY <1>1, <1>3, <1>4, <1>6 DEF CopiesCounted, One
<1>8. count'.requests <= 4 /\ count'.copies <= 6
  BY <1>4, <1>6
<1> QED
  BY <1>1, <1>2, <1>7, <1>8 DEF Counted, Inserting

(* A second copy of one request is its once-more: a retry that reached      *)
(* Google is remembered (read_write).                                       *)
LEMMA RetryIsSpent ==
  ASSUME NEW a, Attempt(a), out.maybe, Reached(a)
  PROVE  a.maybe /\ (a.kind = "lost" \/ a.v # "refused")
<1>1. ~NeverSent(a)
  BY DEF NeverSent, Reached
<1>2. ~Refused(a)
  BY DEF Refused, Reached, Reply
<1>3. CASE LostAnswer(a) \/ ServerError(a) \/ Unreadable(a) \/ NoCalendar(a) \/ Taken(a)
  BY <1>3 DEF LostAnswer, ServerError, Unreadable, NoCalendar, Taken, Lost, Reply, NoBody
<1>4. CASE Rejected(a)
  <2>1. PICK v \in Refusals(out) : a = Reply(v, out.maybe)
    BY <1>4 DEF Rejected
  <2>2. v # "refused"
    BY <2>1 DEF Refusals
  <2> QED
    BY <2>1, <2>2 DEF Reply
<1> QED
  BY <1>1, <1>2, <1>3, <1>4 DEF Attempt

(* What an answer leaves on the marks of the copies. *)
LEMMA MarkedCounts ==
  ASSUME NEW c \in CopiesType, NEW a \in Answers
  PROVE  LET m == Marked(c, a) IN
         /\ m.last = c.last /\ m.sentOn = c.sentOn /\ m.movedOn = c.movedOn
         /\ c.reposted => m.reposted
         /\ c.resentOn \subseteq m.resentOn /\ m.resentOn \subseteq c.resentOn \cup {c.last}
         /\ a.maybe /\ (a.kind = "lost" \/ a.v # "refused") /\ ~Inserting(Plan[at])
              => c.last \in m.resentOn
<1> DEFINE doubt == c.inDoubt \/ a.kind = "lost" \/ a.maybe
                       \/ a.v \in {"server_error", "other", "duplicate"}
           okay == c.answeredOk \/ a.v = "ok"
           reposted == c.reposted \/ (a.kind = "lost" /\ a.maybe /\ Inserting(Plan[at]))
           spent == (a.maybe /\ (a.kind = "lost" \/ a.v # "refused")) /\ ~Inserting(Plan[at])
           resent == IF spent THEN c.resentOn \cup {c.last} ELSE c.resentOn
<1>1. Marked(c, a) = [c EXCEPT !.inDoubt = doubt, !.answeredOk = okay,
                               !.resentOn = resent, !.reposted = reposted]
  BY Zenon DEF Marked
<1>2. c.reposted => reposted
  OBVIOUS
<1>3. /\ c.resentOn \subseteq resent /\ resent \subseteq c.resentOn \cup {c.last}
      /\ spent => c.last \in resent
  OBVIOUS
<1> HIDE DEF doubt, okay, reposted, resent
<1>4. /\ Marked(c, a).last = c.last
      /\ Marked(c, a).sentOn = c.sentOn
      /\ Marked(c, a).movedOn = c.movedOn
      /\ Marked(c, a).reposted = reposted
      /\ Marked(c, a).resentOn = resent
  BY <1>1 DEF CopiesType
<1> QED
  BY <1>2, <1>3, <1>4

(* The counts hold over the answer to a write, *)
LEMMA AnswerCounted ==
  ASSUME IInv, TypeOK', Counted, phase = "sent", NEW a \in Answers, Attempt(a), OnWrite(a),
         Counts(Reached(a))
  PROVE  Counted'
<1> DEFINE c == Marked(copies, a)
<1>1. /\ TypeOK /\ at \in Steps /\ Active /\ copies \in CopiesType
      /\ count.requests \in Nat /\ count.copies \in Nat
      /\ count'.requests \in Nat /\ count'.copies \in Nat
  BY CountType DEF IInv, TypeOK, Active
<1>2. /\ count'.requests = count.requests
      /\ count'.copies <= count.copies + 1
      /\ ~Reached(a) => count'.copies = count.copies
  <2>1. count' = [count EXCEPT !.copies = IF Reached(a) THEN Bump(count.copies) ELSE count.copies]
    BY DEF Counts
  <2>2. Bump(count.copies) <= count.copies + 1
    BY <1>1, CountType
  <2>3. count'.requests = count.requests
        /\ count'.copies = IF Reached(a) THEN Bump(count.copies) ELSE count.copies
    BY <1>1, <2>1, CountType
  <2> QED
    BY <1>1, <2>2, <2>3
<1>3. Looks("check", c) \/ Quiet
  <2>1. ReadOwnReply(c, a.body, ev'[at]) => Looks("check", c) \/ Quiet
    BY QuietMoves DEF ReadOwnReply
  <2>2. ReadPlainAnswer(c, a.v) => Looks("check", c) \/ Quiet
    BY QuietMoves DEF ReadPlainAnswer
  <2> HIDE DEF c
  <2>3. \A w : NotDone(c, w) => Quiet
    BY QuietMoves
  <2> QED
    BY <2>1, <2>2, <2>3 DEF OnWrite, c
<1>4. /\ c.last = copies.last /\ c.sentOn = copies.sentOn /\ c.movedOn = copies.movedOn
      /\ copies.reposted => c.reposted
      /\ copies.resentOn \subseteq c.resentOn /\ c.resentOn \subseteq copies.resentOn \cup {copies.last}
      /\ ~Inserting(Plan[at]) /\ out.maybe /\ Reached(a) => copies.last \in c.resentOn
  BY <1>1, MarkedCounts, RetryIsSpent
<1> HIDE DEF c
<1> DEFINE again == One(OnceMore)
           moved == One(copies.movedOn)
           maybe == One(out.maybe)
           posted == One(copies.reposted)
<1>5. again \in {0, 1} /\ moved \in {0, 1} /\ maybe \in {0, 1} /\ posted \in {0, 1}
      /\ (~OnceMore => again = 0) /\ (~out.maybe => maybe = 0)
  BY Ones
<1>6. CASE Inserting(Plan[at])
  <2>1. /\ count.requests <= 1 + posted /\ count.copies <= posted /\ count.requests <= 2
    BY <1>1, <1>5, <1>6 DEF Counted, InsertsCounted, One
  <2>2. CASE Quiet
    BY <1>1, <1>2, <1>5, <2>1, <2>2, QuietCounted
  <2>3. CASE Looks("check", c)
    <3>1. at' = at /\ phase' = "check" /\ copies' = c /\ ~out'.maybe
      BY <2>3 DEF Looks, Idle, Request
    <3>2. posted <= One(c.reposted)
      BY <1>4, <1>5, Ones
    <3>3. One(c.reposted) \in {0, 1}
      BY Ones
    <3>4. InsertsCounted'
      <4>1. count'.requests <= 1 + One(c.reposted) /\ count'.copies <= One(c.reposted) + 1
        BY <1>1, <1>2, <1>5, <2>1, <3>2, <3>3
      <4>2. One(phase' # "sent") = 1
        BY <3>1, Ones
      <4> QED
        BY <3>1, <4>1, <4>2 DEF InsertsCounted
    <3> QED
      BY <1>1, <1>2, <1>5, <1>6, <2>1, <3>1, <3>4 DEF Counted
  <2> QED
    BY <1>3, <2>2, <2>3
<1>7. CASE ~Inserting(Plan[at])
  <2>1. /\ copies.resentOn \subseteq copies.sentOn /\ copies.last \in copies.sentOn
        /\ \A t \in copies.sentOn : t <= copies.last
        /\ count.requests <= 1 + again + 2 * moved
        /\ count.copies <= 3 * moved + (again + maybe)
    BY <1>1, <1>7 DEF Counted, CopiesCounted
  <2>2. CASE Quiet
    BY <1>1, <1>2, <1>5, <1>7, <2>1, <2>2, QuietCounted
  <2>3. CASE Looks("check", c)
    <3>1. at' = at /\ phase' = "check" /\ copies' = c /\ ~out'.maybe
      BY <2>3 DEF Looks, Idle, Request
    <3>2. OnceMore' <=> c.last \in c.resentOn
      BY <3>1 DEF OnceMore
    <3> DEFINE again2 == One(OnceMore')
    <3>3. /\ again2 \in {0, 1} /\ (OnceMore => again2 = 1)
          /\ (out.maybe /\ Reached(a) => again2 = 1) /\ again <= again2
      <4>1. (OnceMore => OnceMore') /\ (out.maybe /\ Reached(a) => OnceMore')
        BY <1>4, <1>7, <3>2 DEF OnceMore
      <4>2. again2 \in {0, 1} /\ (OnceMore' => again2 = 1)
        BY Ones
      <4> HIDE DEF again, again2
      <4> QED
        BY <1>5, <4>1, <4>2
    <3>4. One(copies'.movedOn) = moved
      BY <1>4, <3>1
    <3>5. count'.requests <= 1 + again2 + 2 * moved
      BY <1>1, <1>2, <1>5, <2>1, <3>3
    <3>6. count'.copies <= 3 * moved + (1 + 2 * again2)
      <4>1. CASE again2 = 1
        BY <1>1, <1>2, <1>5, <2>1, <4>1
      <4>2. CASE again2 = 0
        <5>1. again = 0 /\ ~(out.maybe /\ Reached(a))
          BY <1>5, <3>3, <4>2
        <5> QED
          BY <1>1, <1>2, <1>5, <2>1, <4>2, <5>1
      <4> QED
        BY <3>3, <4>1, <4>2
    <3> HIDE DEF again, moved, again2
    <3>7. CopiesCounted'
      <4>1. copies'.resentOn \subseteq copies'.sentOn /\ copies'.last \in copies'.sentOn
            /\ \A t \in copies'.sentOn : t <= copies'.last
        BY <1>4, <2>1, <3>1
      <4> QED
        BY <3>1, <3>4, <3>5, <3>6, <4>1 DEF CopiesCounted, again2
    <3> QED
      BY <1>1, <1>2, <1>5, <1>7, <2>1, <3>1, <3>3, <3>5, <3>6, <3>7 DEF Counted
  <2> QED
    BY <1>3, <2>2, <2>3
<1> QED
  BY <1>6, <1>7

(* over the retry of a lost one, *)
LEMMA TriedAgainCounted ==
  ASSUME IInv, TypeOK', Counted, WriteTriedAgain
  PROVE  Counted'
<1>1. /\ TypeOK /\ phase \in WritePhases /\ at \in Steps
      /\ at' = at /\ phase' = phase /\ copies' = copies
      /\ count.requests \in Nat /\ count.copies \in Nat
  BY CountType DEF IInv, TypeOK, WriteTriedAgain, Sending
<1>2. /\ out.attempt = 1 /\ ~out.maybe
      /\ out'.attempt = 2
      /\ out'.maybe => out.op \notin Inserts
  <2>1. /\ out \in RequestType /\ out.attempt = 1
        /\ \/ out' = [out EXCEPT !.attempt = 2, !.maybe = TRUE] /\ out.op \notin Inserts
           \/ out' = [out EXCEPT !.attempt = 2]
    BY DEF WriteTriedAgain, TriesAgain, IInv, TypeOK
  <2>2. ~out.maybe
    BY <2>1 DEF Counted
  <2>3. out'.attempt = 2 /\ (out'.maybe = TRUE \/ out'.maybe = out.maybe)
    BY <2>1 DEF RequestType
  <2>4. out.op \in Inserts => out'.maybe = out.maybe
    BY <2>1 DEF RequestType
  <2> QED
    BY <2>1, <2>2, <2>3, <2>4
<1>3. /\ count'.requests = count.requests
      /\ count'.copies <= count.copies + One(phase = "sent" /\ out'.maybe)
      /\ count'.copies \in Nat
  <2>1. count' = [count EXCEPT !.copies = IF phase = "sent" /\ out'.maybe
                                            THEN Bump(count.copies) ELSE count.copies]
    BY DEF WriteTriedAgain, Counts
  <2>2. Bump(count.copies) <= count.copies + 1 /\ Bump(count.copies) \in Nat
    BY <1>1, CountType
  <2>3. count'.requests = count.requests
        /\ count'.copies = IF phase = "sent" /\ out'.maybe THEN Bump(count.copies) ELSE count.copies
    BY <1>1, <2>1, CountType
  <2> QED
    BY <1>1, <2>2, <2>3 DEF One
<1>4. CASE phase # "sent"
  <2>1. count'.copies <= count.copies
    BY <1>1, <1>3, <1>4 DEF One
  <2>2. count'.copies <= 6
    BY <1>1, <1>3, <2>1 DEF Counted
  <2>3. Active' /\ Inserting(Plan[at]) => InsertsCounted /\ One(copies.reposted) \in {0, 1}
    BY <1>1, Ones DEF Counted, Active
  <2>4. Active' /\ ~Inserting(Plan[at]) => CopiesCounted
    BY <1>1 DEF Counted, Active
  <2>5. Active' /\ Inserting(Plan[at]) => InsertsCounted'
    BY <1>1, <1>3, <1>4, <2>1, <2>3 DEF InsertsCounted, One
  <2>6. Active' /\ ~Inserting(Plan[at]) => CopiesCounted'
    <3> DEFINE once == 1 + 2 * One(OnceMore)
               moved == 3 * One(copies.movedOn)
    <3> SUFFICES ASSUME Active', ~Inserting(Plan[at]) PROVE CopiesCounted'
      OBVIOUS
    <3>1. phase \notin LookPhases
      BY <1>1
    <3>2. /\ copies.resentOn \subseteq copies.sentOn /\ copies.last \in copies.sentOn
          /\ \A t \in copies.sentOn : t <= copies.last
          /\ count.requests <= 1 + One(OnceMore) + 2 * One(copies.movedOn)
          /\ count.copies <= moved + once
      BY <1>4, <2>4, <3>1 DEF CopiesCounted
    <3>3. One(OnceMore) \in {0, 1} /\ One(copies.movedOn) \in {0, 1}
      BY Ones
    <3>4. count'.copies <= moved + once
      BY <1>1, <1>3, <2>1, <3>2, <3>3
    <3>5. One(OnceMore)' = One(OnceMore) /\ One(copies.movedOn)' = One(copies.movedOn)
      BY <1>1 DEF OnceMore, One
    <3> QED
      BY <1>1, <1>3, <1>4, <3>1, <3>2, <3>4, <3>5 DEF CopiesCounted
  <2> QED
    BY <1>1, <1>2, <1>3, <2>2, <2>5, <2>6 DEF Counted
<1>5. CASE phase = "sent"
  <2>1. out.op = Plan[at] /\ Active
    BY <1>5 DEF IInv, OutIsTheStep, Active
  <2>2. CASE Inserting(Plan[at])
    <3>1. ~out'.maybe /\ InsertsCounted /\ One(phase = "sent" /\ out'.maybe) = 0
      BY <1>1, <1>2, <2>1, <2>2, Ones DEF Inserting, Counted
    <3>2. count'.copies <= count.copies
      BY <1>1, <1>3, <3>1
    <3>3. One(copies.reposted) \in {0, 1} /\ One(phase # "sent") \in {0, 1}
      BY Ones
    <3>4. InsertsCounted'
      BY <1>1, <1>3, <3>1, <3>2, <3>3 DEF InsertsCounted, One
    <3>5. count'.copies <= 6
      BY <1>1, <1>3, <3>2 DEF Counted
    <3> QED
      BY <1>1, <1>2, <1>3, <2>2, <3>1, <3>4, <3>5 DEF Counted
  <2>3. CASE ~Inserting(Plan[at])
    <3> DEFINE again == One(OnceMore)
               moved == One(copies.movedOn)
               maybe2 == One(out'.maybe)
    <3>1. /\ copies.resentOn \subseteq copies.sentOn /\ copies.last \in copies.sentOn
          /\ \A t \in copies.sentOn : t <= copies.last
          /\ count.requests <= 1 + again + 2 * moved
          /\ count.copies <= 3 * moved + (again + One(out.maybe))
      BY <1>1, <1>5, <2>1, <2>3 DEF Counted, CopiesCounted
    <3>2. One(out.maybe) = 0 /\ again \in {0, 1} /\ moved \in {0, 1} /\ maybe2 \in {0, 1}
          /\ One(phase = "sent" /\ out'.maybe) = maybe2
      BY <1>2, <1>5 DEF One
    <3>3. again' = again /\ moved' = moved /\ One(out.maybe)' = maybe2
      BY <1>1 DEF OnceMore, One
    <3> HIDE DEF again, moved, maybe2
    <3>4. count'.copies <= 3 * moved + (again + maybe2) /\ count'.copies <= 6
      BY <1>1, <1>3, <3>1, <3>2
    <3>5. count'.requests <= 1 + again + 2 * moved
      BY <1>3, <3>1
    <3>6. CopiesCounted'
      BY <1>1, <1>5, <3>1, <3>3, <3>4, <3>5 DEF CopiesCounted, again, moved, maybe2
    <3> QED
      BY <1>1, <1>2, <1>3, <2>3, <3>4, <3>6 DEF Counted
  <2> QED
    BY <2>2, <2>3
<1> QED
  BY <1>4, <1>5

(* and from the start of a step. *)
LEMMA StartCounted ==
  ASSUME IInv, TypeOK', Start
  PROVE  Counted'
<1> DEFINE fresh == [NoCopies EXCEPT !.inDoubt = Retry, !.reposted = Retry]
<1>1. /\ TypeOK /\ at \in Steps
      /\ count'.requests \in {0, 1} /\ count'.copies = 0
      /\ phase' # "sent" => count'.requests = 0
  <2>1. TypeOK /\ at \in Steps
    BY DEF Start, IInv, TypeOK
  <2>2. count' = [requests |-> IF phase' = "sent" THEN 1 ELSE 0, copies |-> 0]
    BY DEF Start
  <2> QED
    BY <2>1, <2>2
<1>2. /\ fresh \in CopiesType /\ fresh.sentOn = {} /\ fresh.resentOn = {} /\ fresh.movedOn = FALSE
  BY RetryAssumption DEF NoCopies, CopiesType
<1> HIDE DEF fresh
<1>3. CASE \E j \in Requires(at) : StepEnds(copies, "skipped", 0)
  <2>1. Quiet
    BY <1>3, QuietMoves
  <2>2. count'.requests <= 2 /\ count'.requests <= 4 /\ count'.copies <= 6
    BY <1>1
  <2> QED
    BY <1>1, <2>1, <2>2, QuietCounted
<1>4. CASE Looks("look1", fresh) /\ Plan[at] = "carry"
  <2>1. at' = at /\ phase' = "look1" /\ copies' = fresh /\ ~out'.maybe
    BY <1>4 DEF Looks, Idle, Request
  <2>2. CopiesCounted'
    BY <1>1, <1>2, <2>1 DEF CopiesCounted
  <2> QED
    BY <1>1, <1>4, <2>1, <2>2 DEF Counted, Inserting
<1>5. ASSUME NEW t \in Nat, Sends(fresh, t) PROVE Counted'
  <2>1. /\ at' = at /\ phase' = "sent" /\ ~out'.maybe
        /\ copies' = [fresh EXCEPT !.last = t, !.sentOn = IF Inserting(Plan[at]) THEN {} ELSE {t}]
    BY <1>2, <1>5 DEF Sends, Request
  <2>2. /\ copies'.last = t /\ copies'.sentOn = IF Inserting(Plan[at]) THEN {} ELSE {t}
        /\ copies'.resentOn = {} /\ copies'.movedOn = FALSE
    BY <1>2, <2>1 DEF CopiesType
  <2>3. CASE Inserting(Plan[at])
    <3>1. One(copies'.reposted) \in {0, 1}
      BY Ones
    <3>2. InsertsCounted'
      BY <1>1, <2>1, <3>1 DEF InsertsCounted, One
    <3> QED
      BY <1>1, <2>1, <2>3, <3>2 DEF Counted
  <2>4. CASE ~Inserting(Plan[at])
    <3>1. ~OnceMore'
      BY <2>2 DEF OnceMore
    <3>2. CopiesCounted'
      BY <1>1, <1>5, <2>1, <2>2, <2>4, <3>1 DEF CopiesCounted, One
    <3> QED
      BY <1>1, <2>1, <2>4, <3>2 DEF Counted
  <2> QED
    BY <2>3, <2>4
<1>6. CASE Sends(fresh, IF Inserting(Plan[at]) THEN 0 ELSE 1)
  BY <1>5, <1>6
<1> QED
  BY <1>3, <1>4, <1>6 DEF Start, fresh

(* A move to "sent" counts one request, another counts none. *)
LEMMA RequestCounted ==
  ASSUME TypeOK, CountsRequest
  PROVE  /\ count'.requests \in Nat /\ count'.requests <= count.requests + 1
         /\ count'.copies = count.copies
         /\ phase' # "sent" => count'.requests = count.requests
<1>1. /\ count = [requests |-> count.requests, copies |-> count.copies]
      /\ count.requests \in Nat
      /\ Bump(count.requests) \in Nat /\ Bump(count.requests) <= count.requests + 1
  BY CountType
<1>2. count' = [count EXCEPT !.requests = IF phase' = "sent" THEN Bump(count.requests) ELSE count.requests]
  BY DEF CountsRequest
<1> QED
  BY <1>1, <1>2

(* Reading an answer to a GET. *)
LEMMA NotLandedCounted ==
  ASSUME IInv, TypeOK', Counted, phase \in {"check", "insert_look"}, CountsRequest,
         UNCHANGED google, Verdict(Plan[at], ev[at]) = "no", NotLanded(copies, ev[at])
  PROVE  Counted'
<1> DEFINE e == ev[at]
<1>1. /\ TypeOK /\ at \in Steps /\ Active /\ copies \in CopiesType /\ e.etag \in Nat
      /\ count.requests \in Nat /\ count.copies \in Nat /\ Plan[at] \in Kinds
  BY PlanFacts, CountType DEF IInv, TypeOK, Active, GoogleTypeOK, Event
<1>2. /\ count'.requests <= count.requests + 1
      /\ count'.copies = count.copies
      /\ phase' # "sent" => count'.requests = count.requests
  BY <1>1, CountType, RequestCounted
<1>3. CASE Quiet
  BY <1>1, <1>2, <1>3, QuietCounted DEF Counted, Quiet
<1> DEFINE again == One(OnceMore)
           moved == One(copies.movedOn)
<1>4. again \in {0, 1} /\ moved \in {0, 1} /\ (~OnceMore => again = 0) /\ (~copies.movedOn => moved = 0)
  BY Ones
<1>5. ASSUME ~Inserting(Plan[at]), Shown(e)
      PROVE  /\ copies.resentOn \subseteq copies.sentOn
             /\ copies.last \in copies.sentOn /\ \A t \in copies.sentOn : t <= copies.last
             /\ \A t \in copies.sentOn : t <= e.etag
             /\ count.requests <= 1 + again + 2 * moved
             /\ count.copies <= 3 * moved + (1 + 2 * again)
  <2>1. Plan[at] # "carry"
    BY <1>5 DEF Verdict
  <2>2. Plan[at] \in Watched
    BY <1>1, <1>5, <2>1 DEF Kinds, Watched, Inserting
  <2>3. \A t \in copies.sentOn : t <= e.etag
    BY <1>1, <2>2 DEF IInv, CopiesMeetThePlan, SentMeetsThePlan
  <2> QED
    BY <1>1, <1>5, <2>3 DEF Counted, CopiesCounted
<1>6. CASE Sends([copies EXCEPT !.resentOn = @ \cup {e.etag}], e.etag)
           /\ ~Inserting(Plan[at]) /\ Shown(e) /\ e.etag \in copies.sentOn /\ e.etag \notin copies.resentOn
  <2> DEFINE c == [copies EXCEPT !.resentOn = @ \cup {e.etag}]
  <2>1. /\ c \in CopiesType /\ c.sentOn = copies.sentOn /\ c.movedOn = copies.movedOn
        /\ c.resentOn = copies.resentOn \cup {e.etag}
    BY <1>1 DEF CopiesType
  <2>2. Sends(c, e.etag)
    BY <1>6
  <2> HIDE DEF c
  <2>3. copies.last = e.etag
    <3>1. copies.last \in Nat
      BY <1>1 DEF CopiesType
    <3> QED
      BY <1>1, <1>5, <1>6, <3>1
  <2>4. again = 0 /\ One(e.etag \in c.resentOn) = 1 /\ One(c.movedOn) = moved
    BY <1>4, <1>6, <2>1, <2>3, Ones DEF OnceMore
  <2>5. count.requests <= One(e.etag \in c.resentOn) + 2 * One(c.movedOn)
        /\ count.copies <= 3 * One(c.movedOn) + One(e.etag \in c.resentOn)
    BY <1>1, <1>4, <1>5, <1>6, <2>4
  <2>6. c.resentOn \subseteq c.sentOn \cup {e.etag} /\ \A u \in c.sentOn : u <= e.etag
    BY <1>5, <1>6, <2>1
  <2> QED
    BY <1>1, <1>2, <1>6, <2>1, <2>2, <2>5, <2>6, SendsCounted DEF Inserting
<1>7. CASE Sends([copies EXCEPT !.inDoubt = FALSE, !.answeredOk = FALSE, !.movedOn = TRUE], e.etag)
           /\ ~Inserting(Plan[at]) /\ Shown(e) /\ e.etag \notin copies.sentOn /\ ~copies.movedOn
  <2> DEFINE c == [copies EXCEPT !.inDoubt = FALSE, !.answeredOk = FALSE, !.movedOn = TRUE]
  <2>1. /\ c \in CopiesType /\ c.sentOn = copies.sentOn /\ c.movedOn = TRUE
        /\ c.resentOn = copies.resentOn
    BY <1>1 DEF CopiesType
  <2>2. Sends(c, e.etag)
    BY <1>7
  <2> HIDE DEF c
  <2>3. moved = 0 /\ One(c.movedOn) = 1 /\ One(e.etag \in c.resentOn) \in {0, 1}
    BY <1>4, <1>7, <2>1, Ones
  <2>4. count.requests <= One(e.etag \in c.resentOn) + 2 * One(c.movedOn)
        /\ count.copies <= 3 * One(c.movedOn) + One(e.etag \in c.resentOn)
    BY <1>1, <1>4, <1>5, <1>7, <2>3
  <2>5. c.resentOn \subseteq c.sentOn \cup {e.etag} /\ \A u \in c.sentOn : u <= e.etag
    BY <1>5, <1>7, <2>1
  <2> QED
    BY <1>1, <1>2, <1>7, <2>1, <2>2, <2>4, <2>5, SendsCounted DEF Inserting
<1>8. MovesOn(copies, e) /\ ~Inserting(Plan[at]) /\ Shown(e) /\ e.etag \notin copies.sentOn => Counted'
  BY <1>3, <1>7, QuietMoves DEF MovesOn
<1> QED
  BY <1>3, <1>6, <1>8, QuietMoves DEF NotLanded

(* A move that sends nothing of the step leaves its counts as they are. *)
LEMMA HoldsCounted ==
  ASSUME TypeOK, Counted, at \in Steps, Active, phase # "sent", copies' = copies, at' = at,
         ~out'.maybe, count' = count,
         \/ phase \in LookPhases /\ phase' \in LookPhases
         \/ phase \notin LookPhases /\ phase' \notin LookPhases \cup {"sent", "insert_look"}
         \/ Inserting(Plan[at]) /\ phase' = "insert_look" /\ ~copies.reposted
  PROVE  Counted'
<1>1. One(phase # "sent") = 1 /\ (phase' # "sent" => One(phase' # "sent") = 1)
  BY DEF One
<1>2. Inserting(Plan[at]) /\ phase' # "sent" => InsertsCounted'
  BY <1>1 DEF Counted, InsertsCounted, One
<1>3. CASE phase \in LookPhases /\ phase' \in LookPhases
  <2>1. ~Inserting(Plan[at]) => CopiesCounted'
    BY <1>3 DEF Counted, CopiesCounted
  <2> QED
    BY <1>2, <1>3, <2>1 DEF Counted
<1>4. CASE phase \notin LookPhases /\ phase' \notin LookPhases \cup {"sent", "insert_look"}
  <2>1. ~Inserting(Plan[at]) => CopiesCounted'
    BY <1>4 DEF Counted, CopiesCounted, OnceMore, One
  <2> QED
    BY <1>2, <1>4, <2>1 DEF Counted
<1>5. CASE Inserting(Plan[at]) /\ phase' = "insert_look" /\ ~copies.reposted
  BY <1>2, <1>5 DEF Counted
<1> QED
  BY <1>3, <1>4, <1>5

(* The counts hold over the looks before a carry, *)
LEMMA LooksCounted ==
  ASSUME IInv, TypeOK', Counted, Look \/ LookUnanswered
  PROVE  Counted'
<1>1. /\ TypeOK /\ phase \in LookPhases /\ at \in Steps /\ Active /\ Plan[at] = "carry"
      /\ copies \in CopiesType /\ count.requests \in Nat /\ count.copies \in Nat
  BY CountType DEF Look, LookUnanswered, IInv, TypeOK, Active, LooksAreCarries
<1>2. /\ copies.resentOn \subseteq copies.sentOn /\ copies.sentOn = {} /\ ~copies.movedOn
      /\ count.requests = 0 /\ count.copies = 0
  BY <1>1 DEF Counted, CopiesCounted, Inserting
<1>3. ASSUME phase' # "sent" => count' = count, NextLook PROVE Counted'
  <2>1. CASE StepEnds(copies, "skipped", 0)
    <3>1. Quiet /\ count' = count
      BY <1>3, <2>1, QuietMoves DEF StepEnds
    <3> QED
      BY <1>1, <1>2, <3>1, QuietCounted
  <2>2. ASSUME NEW p \in LookPhases, Looks(p, copies) PROVE Counted'
    <3>1. at' = at /\ phase' = p /\ copies' = copies /\ ~out'.maybe /\ count' = count
      BY <1>3, <2>2 DEF Looks, Idle, Request
    <3> QED
      BY <1>1, <3>1, HoldsCounted
  <2> QED
    BY <1>3, <2>1, <2>2 DEF NextLook
<1>4. CASE LookUnanswered
  BY <1>3, <1>4 DEF LookUnanswered
<1>5. CASE Look
  <2>1. /\ count'.requests \in Nat /\ count'.requests <= count.requests + 1
        /\ count'.copies = count.copies
        /\ phase' # "sent" => count' = count
    BY <1>1, <1>5, RequestCounted, CountType DEF Look, CountsRequest
  <2>2. CASE Sends(copies, ev[at].etag)
    <3>1. ev[at].etag \in Nat
      BY <1>1 DEF TypeOK, GoogleTypeOK, Event
    <3> DEFINE t == ev[at].etag
    <3>2. count.requests <= One(t \in copies.resentOn) + 2 * One(copies.movedOn)
          /\ count.copies <= 3 * One(copies.movedOn) + One(t \in copies.resentOn)
      BY <1>2 DEF One
    <3> HIDE DEF t
    <3> QED
      BY <1>1, <1>2, <2>1, <2>2, <3>1, <3>2, SendsCounted DEF t
  <2> QED
    BY <1>3, <1>5, <2>1, <2>2 DEF Look
<1> QED
  BY <1>4, <1>5

(* over the check of a write, *)
LEMMA CheckCounted ==
  ASSUME IInv, TypeOK', Counted, Check
  PROVE  Counted'
<1>1. /\ TypeOK /\ phase = "check" /\ at \in Steps /\ Active /\ CountsRequest /\ UNCHANGED google
  BY DEF Check, IInv, TypeOK, Active
<1>2. phase' # "sent" => count' = count
  BY <1>1, CountType DEF CountsRequest
<1>3. CASE Quiet
  <2>1. count' = count
    BY <1>2, <1>3 DEF Quiet
  <2> QED
    BY <1>1, <1>3, <2>1, QuietCounted DEF Counted
<1>4. CASE Verdict(Plan[at], ev[at]) = "no" /\ NotLanded(copies, ev[at])
  BY <1>1, <1>4, NotLandedCounted
<1>5. CASE /\ phase' = "restore" /\ out' = Request(at, "restore", ev[at].etag)
           /\ UNCHANGED <<at, ends, tag, copies, why, rollback, outcome>>
  <2>1. ~out'.maybe
    BY <1>5 DEF Request
  <2> QED
    BY <1>1, <1>2, <1>5, <2>1, HoldsCounted
<1>6. CASE Inserting(Plan[at]) /\ ~copies.reposted /\ Looks("insert_look", copies)
  <2>1. at' = at /\ phase' = "insert_look" /\ copies' = copies /\ ~out'.maybe
    BY <1>6 DEF Looks, Idle, Request
  <2> QED
    BY <1>1, <1>2, <1>6, <2>1, HoldsCounted
<1> QED
  BY <1>3, <1>4, <1>5, <1>6, QuietMoves DEF Check

(* over the look for an insert, *)
LEMMA InsertLookCounted ==
  ASSUME IInv, TypeOK', Counted, InsertLook
  PROVE  Counted'
<1>1. /\ TypeOK /\ phase = "insert_look" /\ at \in Steps /\ Active /\ CountsRequest /\ UNCHANGED google
      /\ Inserting(Plan[at]) /\ copies \in CopiesType
      /\ count.requests \in Nat /\ count.copies \in Nat
  BY CountType DEF InsertLook, IInv, TypeOK, Active, InsertAnswered, Inserting
<1>2. /\ ~copies.reposted /\ count.requests <= 1 /\ count.copies <= 1
  BY <1>1 DEF Counted, InsertsCounted, One
<1>3. /\ count'.requests \in Nat /\ count'.requests <= 2 /\ count'.copies = count.copies
  BY <1>1, <1>2, RequestCounted
<1>4. CASE Quiet
  BY <1>1, <1>2, <1>3, <1>4, QuietCounted
<1>5. CASE Verdict(Plan[at], ev[at]) = "no" /\ NotLanded(copies, ev[at])
  BY <1>1, <1>5, NotLandedCounted
<1>6. CASE Sends([copies EXCEPT !.reposted = TRUE], copies.last)
  <2>1. /\ at' = at /\ phase' = "sent" /\ ~out'.maybe
        /\ copies'.reposted = TRUE
    BY <1>1, <1>6 DEF Sends, Request, CopiesType
  <2>2. InsertsCounted'
    BY <1>2, <1>3, <2>1 DEF InsertsCounted, One
  <2> QED
    BY <1>1, <1>2, <1>3, <2>1, <2>2 DEF Counted
<1> QED
  BY <1>4, <1>5, <1>6, QuietMoves DEF InsertLook

(* over the rollback, *)
LEMMA UndoCounted ==
  ASSUME IInv, Counted, phase \in UndoPhases, at' = at, count' = count,
         phase' \in UndoPhases \cup {"over"}, ~out'.maybe
  PROVE  Counted'
<1>1. TypeOK /\ at \in Steps /\ Quiet
  BY DEF IInv, TypeOK, Quiet, UndoPhases
<1> QED
  BY <1>1, QuietCounted DEF Counted

(* and over what others do. *)
LEMMA SameCounted ==
  ASSUME Counted, UNCHANGED machine
  PROVE  Counted'
BY DEF Counted, machine, Active, InsertsCounted, CopiesCounted, OnceMore, One

(* So the counts hold over every step. *)
LEMMA CountedStep ==
  ASSUME IInv, TypeOK', Counted, [Next]_vars
  PROVE  Counted'
<1>1. CASE Start
  BY <1>1, StartCounted
<1>2. CASE Finish
  <2>1. at \notin Steps /\ at' = at /\ phase' = "over" /\ count' = count /\ ~out'.maybe
    BY <1>2 DEF Finish, Over, Idle, Request, IInv, TypeOK
  <2> QED
    BY <2>1 DEF Counted
<1>3. CASE WriteAnswered
  <2>1. PICK a \in Answers : Attempt(a) /\ Hears(a) /\ Counts(Reached(a))
    BY <1>3 DEF WriteAnswered
  <2>2. CASE phase = "sent" /\ OnWrite(a)
    BY <2>1, <2>2, AnswerCounted
  <2>3. phase # "sent" => count' = count
    <3>1. count = [requests |-> count.requests, copies |-> count.copies]
      BY CountType DEF IInv
    <3> QED
      BY <2>1, <3>1 DEF Counts
  <2>4. CASE phase = "restore" /\ OnRestore(a)
    <3>1. TypeOK /\ at \in Steps
      BY <2>4 DEF IInv, TypeOK
    <3>2. Quiet /\ count' = count
      BY <2>3, <2>4, QuietMoves DEF OnRestore
    <3> QED
      BY <3>1, <3>2, QuietCounted DEF Counted
  <2>5. CASE phase \in {"undo", "undo_again"} /\ OnUndoSend(a)
    <3>1. ~Idle.maybe
      BY DEF Idle, Request
    <3>2. at' = at /\ phase' \in UndoPhases \cup {"over"} /\ ~out'.maybe
      BY <2>5, <3>1 DEF OnUndoSend, Undone, RollbackUnknown, Over, Looks, UndoPhases
    <3> QED
      BY <2>3, <2>5, <3>2, UndoCounted DEF UndoPhases
  <2> QED
    BY <2>1, <2>2, <2>4, <2>5 DEF Hears
<1>4. CASE WriteTriedAgain
  BY <1>4, TriedAgainCounted
<1>5. CASE Look \/ LookUnanswered
  BY <1>5, LooksCounted
<1>6. CASE Check
  BY <1>6, CheckCounted
<1>7. CASE InsertLook
  BY <1>7, InsertLookCounted
<1>8. CASE UndoLook
  <2>1. ~Idle.maybe /\ \A e, op, t : ~Request(e, op, t).maybe
    BY DEF Idle, Request
  <2>2. at' = at /\ phase' \in UndoPhases \cup {"over"} /\ ~out'.maybe /\ count' = count
    BY <1>8, <2>1 DEF UndoLook, Undone, RollbackUnknown, Over, UndoPhases
  <2> QED
    BY <1>8, <2>2, UndoCounted DEF UndoLook, UndoPhases
<1>9. CASE CheckUnanswered
  <2>1. TypeOK /\ at \in Steps /\ Quiet /\ count' = count
    BY <1>9, QuietMoves DEF CheckUnanswered, IInv, TypeOK
  <2> QED
    BY <2>1, QuietCounted DEF Counted
<1>10. CASE Others \/ UNCHANGED vars
  BY <1>10, SameCounted DEF Others, vars
<1> QED
  BY <1>1, <1>2, <1>3, <1>4, <1>5, <1>6, <1>7, <1>8, <1>9, <1>10 DEF Next, Machine

(* The invariant of a run, from its first state on. *)
LEMMA RunInit == Init => SeriesBehind /\ EndSays /\ CarriesBehind /\ Counted
<1> SUFFICES ASSUME Init PROVE SeriesBehind /\ EndSays /\ CarriesBehind /\ Counted
  OBVIOUS
<1>1. IInv /\ at = 1 /\ phase = "start" /\ ends = [i \in Steps |-> "not_run"] /\ out = Idle
      /\ count = [requests |-> 0, copies |-> 0]
  BY InitSafe DEF Init
<1>2. Counted
  BY <1>1 DEF Counted, Active, Idle, Request
<1>3. CarriesBehind
  <2>1. ASSUME NEW i \in Steps, i > 1, ~Retry PROVE ~Landed(i) /\ \A c \in flight : c.e # i
    BY <1>1, <2>1 DEF IInv, LaterUntouched, CopiesBehind
  <2> QED
    BY <1>1, <2>1, PlanShape DEF CarriesBehind
<1> QED
  BY <1>1, <1>2, <1>3 DEF SeriesBehind, EndSays

(* RunInv is inductive. *)
LEMMA RunStep == RunInv /\ [Next]_vars => RunInv'
<1>1. IInv /\ [Next]_vars => IInv'
  BY IInvStep
<1> QED
  BY <1>1, SeriesBehindStep, EndSaysStep, CarriesBehindStep, CountedStep DEF RunInv, IInv

-----------------------------------------------------------------------------
(* The stronger invariant: besides, the new series stands for the cut, a    *)
(* cancel follows its carry, and a step's requests and copies are counted   *)
(* by the etags it went out on.                                             *)
THEOREM RunSafe == Spec => []RunInv
<1>1. Init => RunInv
  BY InitSafe, RunInit DEF RunInv
<1> QED
  BY <1>1, RunStep, PTL DEF Spec

(* A change reported not done with its rollback done left nothing behind:   *)
(* no step of it is at Google or on its way there (Rollback::Done and       *)
(* Rollback::Nothing).                                                      *)
THEOREM CleanFailureSafe == Spec => []CleanFailure
<1>1. RunInv => CleanFailure
  <2> SUFFICES ASSUME RunInv, outcome = "not_done", rollback # "unknown", NEW i \in Steps, i <= at
               PROVE  ~Landed(i) /\ ~Landable(i)
    BY DEF CleanFailure
  <2>1. at \in Steps /\ ~Cleanup(at) /\ ~Landed(at) /\ ~Landable(at)
    BY DEF RunInv, IInv, TakenIsProved, TakenForNotDone
  <2>2. CASE i # at
    <3>1. at = 2 /\ i = 1 /\ Plan[1] = "insert" /\ Splits
      BY <2>1, <2>2, PlanShape DEF Splits
    <3>2. ev[1].st \notin {"none", "live"}
      BY <3>1 DEF RunInv, SeriesBehind
    <3> QED
      BY <3>1, <3>2 DEF Landed, Landable, Accepts
  <2> QED
    BY <2>1, <2>2
<1> QED
  BY <1>1, RunSafe, PTL

(* "At most four requests of a step leave the machine, two per etag on at   *)
(* most two etags; up to six copies Google may apply reach it", and at most *)
(* two posts of an insert (run.rs, the module's doc).                       *)
THEOREM FewCopiesSafe == Spec => []FewCopies
<1>1. RunInv => FewCopies
  BY DEF RunInv, Counted, FewCopies
<1> QED
  BY <1>1, RunSafe, PTL

(* An exception of the original is cancelled only once its changes are on   *)
(* the new series' occurrence (plan.rs, Requires).                          *)
THEOREM CarriedFirstSafe == Spec => []CarriedFirst
<1>1. RunInv => CarriedFirst
  BY DEF RunInv, CarriesBehind, CarriedFirst, Landable
<1> QED
  BY <1>1, RunSafe, PTL
=============================================================================
