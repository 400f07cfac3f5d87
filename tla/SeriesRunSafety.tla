---------------------------- MODULE SeriesRunSafety ----------------------------
(* A run's types, and its safety from the inductive invariant IInv of       *)
(* SeriesRun: for every plan, every number of acts of other clients, every  *)
(* choice of faults.                                                        *)
(*                                                                          *)
(* After the types, Google first: an etag only grows, and while it stays so *)
(* does the copy (EtagsMove).  So a copy made on an older etag never lands, *)
(* which is what every "proved not done" of run.rs rests on.  Then one      *)
(* lemma per move of the machine, each from what holds between Google's     *)
(* part of the step and the machine's (Between), and one per answer it      *)
(* reads.                                                                   *)
EXTENDS SeriesRun, TLAPS

USE DEF Inserts, Steps

(* What the plan's assumption says of a single step. *)
LEMMA PlanFacts ==
  /\ Len(Plan) \in Nat \ {0}
  /\ 1 \in Steps
  /\ \A i \in Steps : Plan[i] \in Kinds
BY PlanAssumption DEF Kinds, IsSplit, IsCutDelete, IsOneWrite

-----------------------------------------------------------------------------
(* Google keeps its types. *)

(* Every effect of a write leaves an event. *)
LEMMA EffectsType ==
  ASSUME NEW op \in Ops, NEW e \in Event, NEW f \in Effects(op, e)
  PROVE  f \in Event
<1>1. Fresh("live", 1) \in Event
  BY DEF Fresh, Event, Status, Values
<1>2. Moved(e) \in Event
  BY DEF Moved, Event
<1>3. Applied(op, e) \in Event
  BY <1>1, <1>2 DEF Applied, Event, Status, Values, Ops, Kinds
<1>4. FaultyEffects(op, e) \subseteq Event
  BY <1>2 DEF FaultyEffects, Event, Values, Ops, Kinds
<1> QED
  BY <1>3, <1>4 DEF Effects

LEMMA MovedType ==
  ASSUME NEW e \in Event
  PROVE  /\ Moved(e) \in Event
         /\ \A v \in Values, r \in {"same", "changed"} :
              [Moved(e) EXCEPT !.val = v, !.rest = r] \in Event
         /\ \A v \in Values, s \in Status : [Moved(e) EXCEPT !.st = s, !.val = v] \in Event
<1>1. Moved(e) \in Event
  BY DEF Moved, Event
<1> DEFINE m == Moved(e)
<1>2. m \in Event
  BY <1>1
<1> HIDE DEF m
<1>3. /\ \A v \in Values, r \in {"same", "changed"} : [m EXCEPT !.val = v, !.rest = r] \in Event
      /\ \A v \in Values, s \in Status : [m EXCEPT !.st = s, !.val = v] \in Event
  BY <1>2 DEF Event
<1> QED
  BY <1>1, <1>3 DEF m

LEMMA RequestTypes ==
  /\ \A e \in Steps, op \in Ops, t \in Nat : Request(e, op, t) \in RequestType
  /\ Idle \in RequestType
  /\ \A r \in RequestType : CopyOf(r) \in Copy
BY PlanFacts DEF Request, RequestType, Idle, CopyOf, Copy, Ops

(* Other clients and late copies keep the types. *)
LEMMA WorldType ==
  ASSUME GoogleTypeOK, World
  PROVE  GoogleTypeOK'
<1>1. ASSUME NEW c \in flight, Land(c) PROVE GoogleTypeOK'
  <2>1. PICK e \in Effects(c.op, ev[c.e]) : ev' = [ev EXCEPT ![c.e] = e]
    BY <1>1 DEF Land
  <2>2. c \in Copy
    BY DEF GoogleTypeOK
  <2>3. e \in Event
    BY <2>1, <2>2, EffectsType DEF Copy, GoogleTypeOK
  <2> QED
    BY <1>1, <2>1, <2>3 DEF Land, GoogleTypeOK
<1>2. ASSUME NEW i \in Steps, OtherEdits(i) PROVE GoogleTypeOK'
  <2>1. PICK v \in MayBecome(Plan[i], ev[i].val), r \in {ev[i].rest, "changed"} :
          ev' = [ev EXCEPT ![i] = [Moved(ev[i]) EXCEPT !.val = v, !.rest = r]]
    BY <1>2 DEF OtherEdits
  <2>2. v \in Values
    BY DEF MayBecome, GoogleTypeOK, Event, Values
  <2>3. [Moved(ev[i]) EXCEPT !.val = v, !.rest = r] \in Event
    <3>1. ev[i] \in Event /\ r \in {"same", "changed"}
      BY DEF GoogleTypeOK, Event
    <3> QED
      BY <3>1, <2>2, MovedType
  <2>4. ev' \in [Steps -> Event]
    BY <2>1, <2>3 DEF GoogleTypeOK
  <2> QED
    BY <1>2, <2>4, BoundsAssumption DEF OtherEdits, GoogleTypeOK
<1>3. ASSUME NEW i \in Steps, OtherDeletes(i) PROVE GoogleTypeOK'
  <2>1. PICK v \in {ev[i].val, "other"} :
          ev' = [ev EXCEPT ![i] = [Moved(ev[i]) EXCEPT !.st = "cancelled", !.val = v]]
    BY <1>3 DEF OtherDeletes
  <2>2. [Moved(ev[i]) EXCEPT !.st = "cancelled", !.val = v] \in Event
    <3>1. ev[i] \in Event /\ v \in Values /\ "cancelled" \in Status
      BY DEF GoogleTypeOK, Event, Status, Values
    <3> QED
      BY <3>1, MovedType
  <2>3. ev' \in [Steps -> Event]
    BY <2>1, <2>2 DEF GoogleTypeOK
  <2> QED
    BY <1>3, <2>3, BoundsAssumption DEF OtherDeletes, GoogleTypeOK
<1>4. ASSUME NEW i \in Steps, Purge(i) PROVE GoogleTypeOK'
  <2>1. [ev[i] EXCEPT !.st = "purged"] \in Event
    BY DEF Event, Status, GoogleTypeOK
  <2>2. ev' = [ev EXCEPT ![i] = [ev[i] EXCEPT !.st = "purged"]]
    BY <1>4 DEF Purge, GoogleTypeOK
  <2> QED
    BY <1>4, <2>1, <2>2 DEF Purge, GoogleTypeOK
<1>5. ASSUME NEW i \in Steps, Appear(i) PROVE GoogleTypeOK'
  <2>1. Fresh("live", 1) \in Event
    BY DEF Fresh, Event, Status, Values
  <2> QED
    BY <1>5, <2>1 DEF Appear, GoogleTypeOK
<1> QED
  BY <1>1, <1>2, <1>3, <1>4, <1>5 DEF World

(* So does a request, whatever becomes of it. *)
LEMMA MayLandType ==
  ASSUME GoogleTypeOK, out \in RequestType, MayLand
  PROVE  GoogleTypeOK'
BY RequestTypes DEF MayLand, GoogleTypeOK

LEMMA AttemptType ==
  ASSUME GoogleTypeOK, out \in RequestType, NEW a, Attempt(a)
  PROVE  GoogleTypeOK'
<1>1. CASE UNCHANGED google
  BY <1>1 DEF GoogleTypeOK, google
<1>2. CASE MayLand
  BY <1>2, MayLandType
<1>3. CASE Taken(a)
  <2>1. PICK e \in Effects(out.op, ev[out.e]) : ev' = [ev EXCEPT ![out.e] = e]
    BY <1>3 DEF Taken
  <2>2. out.e \in Steps /\ out.op \in Ops
    BY DEF RequestType
  <2>3. e \in Event
    BY <2>1, <2>2, EffectsType DEF GoogleTypeOK
  <2> QED
    BY <1>3, <2>1, <2>3 DEF Taken, GoogleTypeOK
<1> QED
  BY <1>1, <1>2, <1>3
     DEF Attempt, NeverSent, LostAnswer, ServerError, Refused, Unreadable, NoCalendar, Rejected

-----------------------------------------------------------------------------
(* The machine's moves keep its types. *)

MachineTypeOK ==
  /\ at \in 1..(Len(Plan) + 1)
  /\ phase \in Phases
  /\ phase \notin {"start", "over"} => at \in Steps
  /\ ends \in [Steps -> Ends]
  /\ tag \in Nat
  /\ copies \in CopiesType
  /\ out \in RequestType
  /\ why \in Whys
  /\ rollback \in {"none", "nothing", "done", "unknown"}
  /\ outcome \in {"running", "done", "not_done", "unknown"}

USE DEF Phases, WritePhases, LookPhases

LEMMA MovesType ==
  ASSUME MachineTypeOK, at \in Steps, NEW c \in CopiesType
  PROVE  /\ \A t \in Nat : Sends(c, t) => MachineTypeOK'
         /\ \A p \in LookPhases \cup UndoPhases \cup {"check", "insert_look"} : Looks(p, c) => MachineTypeOK'
         /\ \A end \in Ends, t \in Nat : StepEnds(c, end, t) => MachineTypeOK'
         /\ \A w \in Whys : NotDone(c, w) => MachineTypeOK'
         /\ Unknown(c) => MachineTypeOK'
<1> USE PlanFacts
<1>1. Plan[at] \in Ops
  BY DEF Ops
<1>2. ASSUME NEW t \in Nat, Sends(c, t) PROVE MachineTypeOK'
  <2>1. copies' \in CopiesType
    BY <1>2 DEF Sends, CopiesType
  <2>2. out' \in RequestType
    BY <1>1, <1>2, RequestTypes DEF Sends
  <2> QED
    BY <1>2, <2>1, <2>2 DEF Sends, MachineTypeOK
<1>3. ASSUME NEW p \in LookPhases \cup UndoPhases \cup {"check", "insert_look"}, Looks(p, c)
      PROVE  MachineTypeOK'
  BY <1>3, RequestTypes DEF Looks, MachineTypeOK, UndoPhases
<1>4. ASSUME NEW end \in Ends, NEW t \in Nat, StepEnds(c, end, t) PROVE MachineTypeOK'
  BY <1>4, RequestTypes DEF StepEnds, MachineTypeOK
<1>5. ASSUME NEW w \in Whys, NotDone(c, w) PROVE MachineTypeOK'
  <2>1. CASE StepEnds(c, "skipped", 0)
    BY <1>4, <2>1 DEF Ends
  <2>2. CASE Over("not_done", w, "nothing") /\ copies' = c /\ UNCHANGED ends
    BY <2>2, RequestTypes DEF Over, MachineTypeOK
  <2>3. CASE /\ copies' = c
             /\ why' = w
             /\ IF tag # 0 THEN phase' = "undo" /\ out' = Request(1, "delete", tag)
                           ELSE phase' = "undo_look_again" /\ out' = Idle
             /\ UNCHANGED <<at, ends, tag, rollback, outcome>>
    <3>1. out' \in RequestType
      BY <2>3, RequestTypes DEF MachineTypeOK, Ops, Kinds
    <3> QED
      BY <2>3, <3>1 DEF MachineTypeOK
  <2> QED
    BY <1>5, <2>1, <2>2, <2>3 DEF NotDone
<1>6. ASSUME Unknown(c) PROVE MachineTypeOK'
  <2>1. CASE StepEnds(c, "unanswered", 0)
    BY <1>4, <2>1 DEF Ends
  <2>2. CASE Over("unknown", why, "none") /\ copies' = c /\ UNCHANGED ends
    BY <2>2, RequestTypes DEF Over, MachineTypeOK
  <2> QED
    BY <1>6, <2>1, <2>2 DEF Unknown
<1> QED
  BY <1>2, <1>3, <1>4, <1>5, <1>6

LEMMA MarkedType ==
  ASSUME NEW c \in CopiesType, NEW a \in Answers
  PROVE  Marked(c, a) \in CopiesType
<1> DEFINE doubt == c.inDoubt \/ a.kind = "lost" \/ a.maybe
                       \/ a.v \in {"server_error", "other", "duplicate"}
           okay == c.answeredOk \/ a.v = "ok"
           reposted == c.reposted \/ (a.kind = "lost" /\ a.maybe /\ Inserting(Plan[at]))
           resent == IF (a.maybe /\ (a.kind = "lost" \/ a.v # "refused")) /\ ~Inserting(Plan[at])
                       THEN c.resentOn \cup {c.last} ELSE c.resentOn
<1>1. doubt \in BOOLEAN /\ okay \in BOOLEAN /\ reposted \in BOOLEAN
  OBVIOUS
<1>2. resent \in SUBSET Nat
  BY DEF CopiesType
<1>3. Marked(c, a) = [c EXCEPT !.inDoubt = doubt, !.answeredOk = okay,
                               !.resentOn = resent, !.reposted = reposted]
  BY Zenon DEF Marked
<1> HIDE DEF doubt, okay, reposted, resent
<1> QED
  BY <1>1, <1>2, <1>3 DEF CopiesType

LEMMA NotLandedType ==
  ASSUME MachineTypeOK, at \in Steps, NEW c \in CopiesType, NEW e \in Event, NotLanded(c, e)
  PROVE  MachineTypeOK'
<1>1. \A w \in {"gone", "conflict"} : NotDone(c, w) => MachineTypeOK'
  BY MovesType DEF Whys
<1>2. Unknown(c) => MachineTypeOK'
  BY MovesType
<1>3. e.etag \in Nat
  BY DEF Event
<1>4. /\ [c EXCEPT !.resentOn = @ \cup {e.etag}] \in CopiesType
      /\ [c EXCEPT !.inDoubt = FALSE, !.answeredOk = FALSE, !.movedOn = TRUE] \in CopiesType
  BY <1>3 DEF CopiesType
<1>5. Sends([c EXCEPT !.resentOn = @ \cup {e.etag}], e.etag) => MachineTypeOK'
  BY <1>3, <1>4, MovesType
<1>6. Sends([c EXCEPT !.inDoubt = FALSE, !.answeredOk = FALSE, !.movedOn = TRUE], e.etag)
        => MachineTypeOK'
  BY <1>3, <1>4, MovesType
<1>7. StepEnds(c, "done", 0) => MachineTypeOK'
  BY MovesType DEF Ends
<1>8. MovesOn(c, e) => MachineTypeOK'
  BY <1>1, <1>6, <1>7 DEF MovesOn
<1> QED
  BY <1>1, <1>2, <1>5, <1>8 DEF NotLanded

(* Every answer the machine hears. *)
LEMMA HearsType ==
  ASSUME MachineTypeOK, GoogleTypeOK', Sending, NEW a \in Answers, Hears(a)
  PROVE  MachineTypeOK'
<1>1. at \in Steps /\ copies \in CopiesType
  BY DEF MachineTypeOK, Sending
<1>2. ev'[at] \in Event
  BY <1>1 DEF GoogleTypeOK
<1>3. ASSUME OnWrite(a) PROVE MachineTypeOK'
  <2> DEFINE c == Marked(copies, a)
  <2>1. c \in CopiesType
    BY <1>1, MarkedType
  <2> HIDE DEF c
  <2>2. \A w \in Whys : NotDone(c, w) => MachineTypeOK'
    BY <1>1, <2>1, MovesType
  <2>3. Looks("check", c) => MachineTypeOK'
    BY <1>1, <2>1, MovesType
  <2>4. \A t \in Nat : StepEnds(c, "done", t) => MachineTypeOK'
    BY <1>1, <2>1, MovesType DEF Ends
  <2>5. \A t \in ProofTags(ev'[at]) : t \in Nat
    BY <1>2 DEF ProofTags, Event
  <2>6. ReadOwnReply(c, a.body, ev'[at]) => MachineTypeOK'
    BY <2>2, <2>3, <2>4, <2>5 DEF ReadOwnReply, Whys
  <2>7. ReadPlainAnswer(c, a.v) => MachineTypeOK'
    BY <2>2, <2>3, <2>4 DEF ReadPlainAnswer, Whys
  <2> QED
    BY <1>3, <2>2, <2>3, <2>6, <2>7 DEF OnWrite, c, Whys
<1>4. ASSUME OnRestore(a) PROVE MachineTypeOK'
  <2>1. CASE NotDone(copies, "put_back")
    BY <1>1, <2>1, MovesType DEF Whys
  <2>2. CASE Unknown(copies)
    BY <1>1, <2>2, MovesType
  <2> QED
    BY <1>4, <2>1, <2>2 DEF OnRestore
<1>5. ASSUME OnUndoSend(a) PROVE MachineTypeOK'
  <2>1. CASE Undone
    BY <2>1, PlanFacts, RequestTypes DEF Undone, Over, MachineTypeOK, Ends
  <2>2. CASE RollbackUnknown
    BY <2>2, RequestTypes DEF RollbackUnknown, Over, MachineTypeOK
  <2>3. CASE Looks(IF phase = "undo" THEN "undo_look" ELSE "undo_look_again", copies)
    <3>1. (IF phase = "undo" THEN "undo_look" ELSE "undo_look_again") \in UndoPhases
      BY DEF UndoPhases
    <3> QED
      BY <1>1, <2>3, <3>1, MovesType
  <2> QED
    BY <1>5, <2>1, <2>2, <2>3 DEF OnUndoSend
<1> QED
  BY <1>3, <1>4, <1>5 DEF Hears

-----------------------------------------------------------------------------
(* A step of the run keeps every type. *)
LEMMA TypeStep ==
  ASSUME TypeOK, [Next]_vars
  PROVE  TypeOK'
<1>m. MachineTypeOK /\ GoogleTypeOK
  BY DEF TypeOK, MachineTypeOK
<1>g. UNCHANGED google => GoogleTypeOK'
  BY <1>m DEF GoogleTypeOK, google
<1>c. /\ count \in [requests : 0..CountCap, copies : 0..CountCap]
      /\ \A n \in 0..CountCap : Bump(n) \in 0..CountCap
  BY RetryAssumption DEF TypeOK, Bump
<1>r. \A r : Counts(r) => count' \in [requests : 0..CountCap, copies : 0..CountCap]
  BY <1>c DEF Counts
<1>q. CountsRequest => count' \in [requests : 0..CountCap, copies : 0..CountCap]
  BY <1>c DEF CountsRequest
<1>u. UNCHANGED count => count' \in [requests : 0..CountCap, copies : 0..CountCap]
  BY <1>c
<1>a. MachineTypeOK' /\ GoogleTypeOK' /\ count' \in [requests : 0..CountCap, copies : 0..CountCap]
        => TypeOK'
  BY DEF TypeOK, MachineTypeOK
<1>1. CASE Start
  <2> DEFINE fresh == [NoCopies EXCEPT !.inDoubt = Retry, !.reposted = Retry]
  <2>1. at \in Steps
    BY <1>1, <1>m, PlanFacts DEF Start, MachineTypeOK
  <2>2. fresh \in CopiesType
    BY RetryAssumption DEF NoCopies, CopiesType
  <2> HIDE DEF fresh
  <2>3. /\ StepEnds(copies, "skipped", 0) => MachineTypeOK'
        /\ Looks("look1", fresh) => MachineTypeOK'
        /\ \A t \in Nat : Sends(fresh, t) => MachineTypeOK'
    BY <2>1, <2>2, <1>m, MovesType DEF MachineTypeOK, Ends
  <2>4. MachineTypeOK'
    BY <1>1, <2>3 DEF Start, fresh
  <2>5. count' \in [requests : 0..CountCap, copies : 0..CountCap]
    BY <1>1, RetryAssumption DEF Start
  <2> QED
    BY <1>1, <1>g, <1>a, <2>4, <2>5 DEF Start
<1>2. CASE Finish
  <2>1. MachineTypeOK'
    BY <1>2, <1>m, RequestTypes DEF Finish, Over, MachineTypeOK
  <2> QED
    BY <1>2, <2>1, <1>g, <1>u, <1>a DEF Finish, google
<1>3. CASE WriteAnswered
  <2>1. PICK a \in Answers : Attempt(a) /\ Hears(a) /\ Counts(Reached(a))
    BY <1>3 DEF WriteAnswered
  <2>2. GoogleTypeOK'
    BY <2>1, <1>m, AttemptType DEF MachineTypeOK
  <2>3. MachineTypeOK'
    BY <2>1, <2>2, <1>3, <1>m, HearsType DEF WriteAnswered
  <2> QED
    BY <2>1, <2>2, <2>3, <1>r, <1>a
<1>4. CASE WriteTriedAgain
  <2>1. GoogleTypeOK'
    BY <1>4, <1>m, <1>g, MayLandType DEF WriteTriedAgain, TriesAgain, MachineTypeOK
  <2>2. out' \in RequestType
    BY <1>4, <1>m DEF WriteTriedAgain, TriesAgain, MachineTypeOK, RequestType
  <2>3. MachineTypeOK'
    BY <1>4, <2>2, <1>m DEF WriteTriedAgain, MachineTypeOK
  <2> QED
    BY <1>4, <2>1, <2>3, <1>r, <1>a DEF WriteTriedAgain
<1>l. phase \in LookPhases /\ NextLook => MachineTypeOK'
  BY <1>m, MovesType DEF NextLook, MachineTypeOK, Ends
<1>5. CASE Look
  <2>1. at \in Steps /\ copies \in CopiesType /\ ev[at].etag \in Nat
    BY <1>5, <1>m DEF Look, MachineTypeOK, GoogleTypeOK, Event
  <2>2. Sends(copies, ev[at].etag) => MachineTypeOK'
    BY <2>1, <1>m, MovesType
  <2> QED
    BY <1>5, <2>2, <1>l, <1>g, <1>q, <1>a DEF Look
<1>6. CASE LookUnanswered
  BY <1>6, <1>l, <1>g, <1>u, <1>a DEF LookUnanswered, google
<1>e. phase \in {"check", "insert_look"}
        => /\ at \in Steps
           /\ copies \in CopiesType
           /\ ev[at] \in Event
           /\ ev[at].etag \in Nat
           /\ \A t \in ProofTags(ev[at]) : t \in Nat
  BY <1>m DEF MachineTypeOK, GoogleTypeOK, ProofTags, Event
<1>n. phase \in {"check", "insert_look"}
        => /\ \A t \in Nat : StepEnds(copies, "done", t) => MachineTypeOK'
           /\ NotLanded(copies, ev[at]) => MachineTypeOK'
           /\ \A w \in {"conflict", "gone"} : NotDone(copies, w) => MachineTypeOK'
           /\ Unknown(copies) => MachineTypeOK'
           /\ Looks("insert_look", copies) => MachineTypeOK'
  BY <1>m, <1>e, MovesType, NotLandedType DEF Ends, Whys
<1>7. CASE Check
  <2>1. phase' = "restore" /\ out' = Request(at, "restore", ev[at].etag)
          /\ UNCHANGED <<at, ends, tag, copies, why, rollback, outcome>> => MachineTypeOK'
    <3>1. phase = "check"
      BY <1>7 DEF Check
    <3>2. Request(at, "restore", ev[at].etag) \in RequestType
      BY <3>1, <1>e, RequestTypes DEF Ops
    <3> QED
      BY <3>1, <3>2, <1>e, <1>m DEF MachineTypeOK
  <2>2. MachineTypeOK'
    BY <1>7, <2>1, <1>n, <1>e DEF Check
  <2> QED
    BY <1>7, <2>2, <1>g, <1>q, <1>a DEF Check
<1>8. CASE InsertLook
  <2>1. [copies EXCEPT !.reposted = TRUE] \in CopiesType /\ copies.last \in Nat
    BY <1>8, <1>e DEF InsertLook, CopiesType
  <2>2. Sends([copies EXCEPT !.reposted = TRUE], copies.last) => MachineTypeOK'
    BY <1>8, <2>1, <1>e, <1>m, MovesType DEF InsertLook
  <2>3. MachineTypeOK'
    BY <1>8, <2>2, <1>n, <1>e DEF InsertLook
  <2> QED
    BY <1>8, <2>3, <1>g, <1>q, <1>a DEF InsertLook
<1>d. Undone => MachineTypeOK'
  BY <1>m, PlanFacts, RequestTypes DEF Undone, Over, MachineTypeOK, Ends
<1>o. RollbackUnknown => MachineTypeOK'
  BY <1>m, RequestTypes DEF RollbackUnknown, Over, MachineTypeOK
<1>9. CASE UndoLook
  <2>1. ev[1].etag \in Nat
    BY <1>m, PlanFacts DEF GoogleTypeOK, Event
  <2>2. phase' = "undo_again" /\ out' = Request(1, "delete", ev[1].etag)
          /\ UNCHANGED <<at, ends, tag, copies, why, rollback, outcome>> => MachineTypeOK'
    BY <1>9, <2>1, <1>m, PlanFacts, RequestTypes DEF UndoLook, MachineTypeOK, Ops, Kinds
  <2>3. MachineTypeOK'
    BY <1>9, <2>2, <1>d, <1>o DEF UndoLook
  <2> QED
    BY <1>9, <2>3, <1>g, <1>u, <1>a DEF UndoLook, google
<1>10. CASE CheckUnanswered
  <2>1. MachineTypeOK'
    BY <1>10, <1>n, <1>o DEF CheckUnanswered
  <2> QED
    BY <1>10, <2>1, <1>g, <1>u, <1>a DEF CheckUnanswered, google
<1>11. CASE Others
  BY <1>11, <1>m, <1>u, <1>a, WorldType DEF Others, machine, MachineTypeOK
<1>12. CASE UNCHANGED vars
  BY <1>12, <1>m, <1>g, <1>u, <1>a DEF vars, machine, MachineTypeOK
<1> QED
  BY <1>1, <1>2, <1>3, <1>4, <1>5, <1>6, <1>7, <1>8, <1>9, <1>10, <1>11, <1>12
     DEF Next, Machine

LEMMA InitType == Init => TypeOK
<1> SUFFICES ASSUME Init PROVE TypeOK
  OBVIOUS
<1>1. \A i \in Steps : Fresh("none", 0) \in Event /\ Fresh("live", 1) \in Event
  BY DEF Fresh, Event, Status, Values
<1>2. flight \subseteq Copy
  BY PlanFacts DEF Init, Copy, Ops, Kinds
<1>3. GoogleTypeOK
  BY <1>1, <1>2, BoundsAssumption DEF Init, GoogleInit, GoogleTypeOK
<1>4. count \in [requests : 0..CountCap, copies : 0..CountCap]
  BY RetryAssumption DEF Init
<1> QED
  BY <1>3, <1>4, PlanFacts, RequestTypes
     DEF Init, TypeOK, NoCopies, CopiesType, Ends, Whys

(* Type correctness: whatever is lost, late or refused, the run, its        *)
(* sender and Google stay in their types (run.rs, Run).                     *)
THEOREM TypeCorrect == Spec => []TypeOK
<1>1. Init => TypeOK
  BY InitType
<1>2. TypeOK /\ [Next]_vars => TypeOK'
  BY TypeStep
<1> QED
  BY <1>1, <1>2, PTL DEF Spec

-----------------------------------------------------------------------------
(* Safety. *)

(* What a split and the other plans look like, step by step. *)
LEMMA PlanShape ==
  /\ \A i \in Steps : Plan[i] = "insert" => i = 1 /\ 2 \in Steps /\ Plan[2] = "cut"
  /\ \A i \in Steps : Plan[i] \in Inserts \cup {"retime"} => i = 1
  /\ \A i \in Steps : i > 1 /\ ~Cleanup(i) => i = 2 /\ Plan[1] = "insert" /\ Plan[2] = "cut"
  /\ \A i \in Steps : Plan[i] = "carry" => Cleanup(i)
  /\ \A i \in Steps : i > 2 => Cleanup(i)
  /\ Retry => Plan[1] = "create" /\ Steps = {1}
<1>1. CASE IsSplit(Plan)
  BY <1>1, PlanFacts, RetryAssumption DEF IsSplit, Cleanup
<1>2. CASE IsCutDelete(Plan)
  BY <1>2, PlanFacts, RetryAssumption DEF IsCutDelete, Cleanup
<1>3. CASE IsOneWrite(Plan)
  BY <1>3, PlanFacts, RetryAssumption DEF IsOneWrite, Cleanup
<1> QED
  BY <1>1, <1>2, <1>3, PlanAssumption

-----------------------------------------------------------------------------
(* Google. *)

(* An event's etag only grows, and while it stays so does the copy, but for *)
(* Google forgetting a deleted one.                                         *)
EtagsMove ==
  \A i \in Steps :
    \/ ev'[i] = ev[i]
    \/ /\ ev[i].st = "cancelled"
       /\ ev'[i].st = "purged"
       /\ ev'[i].etag = ev[i].etag
       /\ ev'[i].val = ev[i].val
       /\ ev'[i].rest = ev[i].rest
    \/ /\ ev[i].st \in {"none", "live"}
       /\ ev'[i].st \in {"live", "cancelled"}
       /\ ev'[i].etag > ev[i].etag

(* A write Google takes moves its event's etag, and no other event. *)
LEMMA WriteMoves ==
  ASSUME GoogleTypeOK, EtagsCount,
         NEW c \in Copy, OfThePlan(c), Accepts(c),
         NEW f \in Effects(c.op, ev[c.e]), ev' = [ev EXCEPT ![c.e] = f]
  PROVE  /\ EtagsMove
         /\ ev'[c.e] = f
         /\ \A i \in Steps : i # c.e => ev'[i] = ev[i]
         /\ f.etag > ev[c.e].etag
         /\ f.st \in {"live", "cancelled"}
         /\ f.st = "cancelled" => c.op \in {"cancel", "delete"}
         /\ c.op = "delete" => f.st = "cancelled"
         /\ c.op = "restore" => f.val \in {"old", ev[c.e].val}
         /\ c.op \in {"cancel", "delete"} => f.val = ev[c.e].val
<1> DEFINE e == ev[c.e]
<1>1. c.e \in Steps /\ e \in Event /\ Plan[c.e] \in Kinds
  BY PlanFacts DEF Copy, GoogleTypeOK
<1>2. c.op \in Kinds \cup {"restore"} /\ c.op \in Ops
  BY <1>1 DEF OfThePlan, Kinds, Copy
<1>3. e.etag \in Nat /\ (e.st = "none" <=> e.etag = 0)
  BY <1>1 DEF EtagsCount, Event
<1>4. Moved(e) = [e EXCEPT !.etag = e.etag + 1]
  BY DEF Moved
<1> HIDE DEF e
<1>5. /\ Moved(e).etag = e.etag + 1
      /\ Moved(e).st = e.st
      /\ Moved(e).val = e.val
      /\ Moved(e) \in Event
  BY <1>1, <1>3, <1>4 DEF Event, e
<1>6. c.op \notin Inserts => e.st = "live"
  BY DEF Accepts, e
<1>7. c.op \in Inserts => e.st = "none"
  BY DEF Accepts, e
<1> DEFINE m == Moved(e)
<1>8. /\ m.etag = e.etag + 1
      /\ m.st = e.st
      /\ m.val = e.val
      /\ m \in Event
  BY <1>5
<1>9. f \in Effects(c.op, e)
  BY DEF e
<1>10. CASE c.op \in Inserts
  <2>1. f = [Fresh("live", 1) EXCEPT !.val = "new"]
    BY <1>9, <1>10 DEF Effects, Applied, FaultyEffects
  <2>2. f.etag = 1 /\ f.st = "live" /\ f.val = "new"
    BY <2>1 DEF Fresh
  <2> QED
    BY <1>1, <1>3, <1>7, <1>10, <2>2 DEF EtagsMove, GoogleTypeOK, e
<1>11. CASE c.op \in {"cut", "retime", "carry"}
  <2>1. f \in {m, [m EXCEPT !.val = "new"], [m EXCEPT !.val = "half"]}
    BY <1>9, <1>11 DEF Effects, Applied, FaultyEffects
  <2>2. f.etag = e.etag + 1 /\ f.st = "live"
    <3> HIDE DEF m
    <3> QED
      BY <2>1, <1>6, <1>8, <1>11 DEF Event
  <2> QED
    BY <1>1, <1>3, <1>6, <1>11, <2>2 DEF EtagsMove, GoogleTypeOK, e
<1>12. CASE c.op = "restore"
  <2>1. f \in {m, [m EXCEPT !.val = "old"]}
    BY <1>9, <1>12 DEF Effects, Applied, FaultyEffects
  <2>2. f.etag = e.etag + 1 /\ f.st = "live" /\ f.val \in {"old", e.val}
    <3> HIDE DEF m
    <3> QED
      BY <2>1, <1>6, <1>8, <1>12 DEF Event
  <2> QED
    BY <1>1, <1>3, <1>6, <1>12, <2>2 DEF EtagsMove, GoogleTypeOK, e
<1>13. CASE c.op \in {"cancel", "delete"}
  <2>1. f = [m EXCEPT !.st = "cancelled"] \/ (f = m /\ c.op = "cancel")
    BY <1>9, <1>13 DEF Effects, Applied, FaultyEffects
  <2>2. /\ f.etag = e.etag + 1
        /\ f.st \in {"live", "cancelled"}
        /\ f.val = e.val
        /\ c.op = "delete" => f.st = "cancelled"
    <3> HIDE DEF m
    <3> QED
      BY <2>1, <1>6, <1>8, <1>13 DEF Event
  <2> QED
    BY <1>1, <1>3, <1>6, <1>13, <2>2 DEF EtagsMove, GoogleTypeOK, e
<1> QED
  BY <1>2, <1>10, <1>11, <1>12, <1>13 DEF Kinds

(* It makes a step land only where it is that step's own. *)
LEMMA WriteLands ==
  ASSUME GoogleTypeOK, EtagsCount,
         NEW c \in Copy, OfThePlan(c), Accepts(c),
         NEW f \in Effects(c.op, ev[c.e]), ev' = [ev EXCEPT ![c.e] = f],
         UNCHANGED deleted
  PROVE  \A i \in Steps : Landed(i)' => Landed(i) \/ (i = c.e /\ c.op = Plan[i])
<1> SUFFICES ASSUME NEW i \in Steps, Landed(i)', i = c.e => c.op # Plan[i]
             PROVE  Landed(i)
  OBVIOUS
<1>1. CASE i # c.e
  BY <1>1, WriteMoves DEF Landed
<1>2. CASE i = c.e /\ c.op = "restore" /\ Plan[i] = "retime"
  <2>1. ev'[i].val \in {"old", ev[i].val} /\ ev[i].st = "live"
    BY <1>2, WriteMoves DEF Accepts
  <2> QED
    BY <1>2, <2>1 DEF Landed
<1>3. CASE i = c.e /\ c.op = "delete" /\ Plan[i] = "insert"
  BY <1>3, WriteMoves DEF Landed
<1> QED
  BY <1>1, <1>2, <1>3 DEF OfThePlan

(* A copy made on an etag Google has been at meets what it met before, or   *)
(* nothing: Google took its event past that etag.                           *)
LEMMA AcceptsStays ==
  ASSUME GoogleTypeOK, GoogleTypeOK', EtagsMove,
         NEW c \in Copy, c.op \notin Inserts => c.tag <= ev[c.e].etag, Accepts(c)'
  PROVE  Accepts(c) /\ ev'[c.e] = ev[c.e]
<1>1. c.e \in Steps /\ ev[c.e] \in Event /\ ev'[c.e] \in Event /\ c.tag \in Nat
  BY DEF Copy, GoogleTypeOK
<1>2. CASE c.op \in Inserts
  BY <1>1, <1>2 DEF Accepts, EtagsMove, Event
<1>3. CASE c.op \notin Inserts
  <2>1. ev'[c.e].st = "live" /\ ev'[c.e].etag = c.tag /\ c.tag <= ev[c.e].etag
    BY <1>3 DEF Accepts
  <2>2. ev[c.e].etag \in Nat
    BY <1>1 DEF Event
  <2> QED
    BY <1>1, <1>3, <2>1, <2>2 DEF Accepts, EtagsMove
<1> QED
  BY <1>2, <1>3

LEMMA EtagsStillCount ==
  ASSUME GoogleTypeOK, GoogleTypeOK', EtagsMove, EtagsCount
  PROVE  EtagsCount' /\ \A i \in Steps : ev'[i].etag >= ev[i].etag
<1> SUFFICES ASSUME NEW i \in Steps
             PROVE  /\ ev'[i].st = "none" <=> ev'[i].etag = 0
                    /\ ev'[i].st = "none" => Plan[i] \in Inserts \cup {"carry"}
                    /\ ev'[i].etag >= ev[i].etag
  BY DEF EtagsCount
<1>1. ev[i] \in Event /\ ev'[i] \in Event
  BY DEF GoogleTypeOK
<1>2. ev[i].etag \in Nat /\ ev'[i].etag \in Nat
  BY <1>1 DEF Event
<1>3. CASE ev'[i] = ev[i]
  BY <1>2, <1>3 DEF EtagsCount
<1>4. CASE ev'[i] # ev[i]
  BY <1>2, <1>4 DEF EtagsMove, EtagsCount
<1> QED
  BY <1>3, <1>4

(* Other clients: none of them makes a step land. *)
LEMMA OthersMove ==
  ASSUME GoogleTypeOK, EtagsCount, NEW n \in Steps,
         OtherEdits(n) \/ OtherDeletes(n) \/ Purge(n) \/ Appear(n)
  PROVE  /\ EtagsMove
         /\ flight' \subseteq flight
         /\ \A i \in Steps : Landed(i)' => Landed(i)
         /\ 1 \in deleted' \/ (ev[1].st = "live" => ev'[1].st = "live")
<1>1. ASSUME NEW j \in Steps, OtherEdits(j)
      PROVE  /\ EtagsMove
             /\ flight' \subseteq flight
             /\ \A i \in Steps : Landed(i)' => Landed(i)
             /\ ev[1].st = "live" => ev'[1].st = "live"
  <2>1. PICK v \in MayBecome(Plan[j], ev[j].val), r \in {ev[j].rest, "changed"} :
          ev' = [ev EXCEPT ![j] = [Moved(ev[j]) EXCEPT !.val = v, !.rest = r]]
    BY <1>1 DEF OtherEdits
  <2>2. ev[j] \in Event /\ ev[j].etag \in Nat /\ ev[j].st = "live"
    BY <1>1 DEF OtherEdits, GoogleTypeOK, Event
  <2>3. Moved(ev[j]) = [ev[j] EXCEPT !.etag = ev[j].etag + 1]
    BY DEF Moved
  <2>4. /\ ev'[j].st = "live"
        /\ ev'[j].etag = ev[j].etag + 1
        /\ ev'[j].val = v
        /\ \A i \in Steps : i # j => ev'[i] = ev[i]
    BY <2>1, <2>2, <2>3 DEF GoogleTypeOK, Event
  <2>5. EtagsMove
    BY <2>2, <2>4 DEF EtagsMove
  <2>6. v = "new" => ev[j].val = "new"
    BY DEF MayBecome
  <2>7. \A i \in Steps : Landed(i)' => Landed(i)
    BY <1>1, <2>2, <2>4, <2>6 DEF Landed, OtherEdits
  <2> QED
    BY <1>1, <2>4, <2>5, <2>7, PlanFacts DEF OtherEdits
<1>2. ASSUME NEW j \in Steps, OtherDeletes(j)
      PROVE  /\ EtagsMove
             /\ flight' \subseteq flight
             /\ \A i \in Steps : Landed(i)' => Landed(i)
             /\ 1 \in deleted' \/ (ev[1].st = "live" => ev'[1].st = "live")
  <2>1. PICK v \in {ev[j].val, "other"} :
          ev' = [ev EXCEPT ![j] = [Moved(ev[j]) EXCEPT !.st = "cancelled", !.val = v]]
    BY <1>2 DEF OtherDeletes
  <2>2. ev[j] \in Event /\ ev[j].etag \in Nat /\ ev[j].st = "live"
    BY <1>2 DEF OtherDeletes, GoogleTypeOK, Event
  <2>3. Moved(ev[j]) = [ev[j] EXCEPT !.etag = ev[j].etag + 1]
    BY DEF Moved
  <2>4. /\ ev'[j].st = "cancelled"
        /\ ev'[j].etag = ev[j].etag + 1
        /\ \A i \in Steps : i # j => ev'[i] = ev[i]
    BY <2>1, <2>2, <2>3 DEF GoogleTypeOK, Event
  <2>5. EtagsMove
    BY <2>2, <2>4 DEF EtagsMove
  <2>6. j \in deleted' /\ \A i \in Steps : i # j => (i \in deleted' <=> i \in deleted)
    BY <1>2 DEF OtherDeletes
  <2>7. \A i \in Steps : Landed(i)' => Landed(i)
    BY <2>4, <2>6 DEF Landed
  <2> QED
    BY <1>2, <2>4, <2>5, <2>6, <2>7, PlanFacts DEF OtherDeletes
<1>3. ASSUME NEW j \in Steps, Purge(j)
      PROVE  /\ EtagsMove
             /\ flight' \subseteq flight
             /\ \A i \in Steps : Landed(i)' => Landed(i)
             /\ ev[1].st = "live" => ev'[1].st = "live"
  <2>1. ev' = [ev EXCEPT ![j] = [ev[j] EXCEPT !.st = "purged"]] /\ ev[j].st = "cancelled"
    BY <1>3 DEF Purge, GoogleTypeOK
  <2>2. /\ ev'[j].st = "purged"
        /\ ev'[j].etag = ev[j].etag
        /\ ev'[j].val = ev[j].val
        /\ ev'[j].rest = ev[j].rest
        /\ \A i \in Steps : i # j => ev'[i] = ev[i]
    BY <2>1 DEF GoogleTypeOK, Event
  <2> QED
    BY <1>3, <2>1, <2>2, PlanFacts DEF EtagsMove, Landed, Purge
<1>4. ASSUME NEW j \in Steps, Appear(j)
      PROVE  /\ EtagsMove
             /\ flight' \subseteq flight
             /\ \A i \in Steps : Landed(i)' => Landed(i)
             /\ ev[1].st = "live" => ev'[1].st = "live"
  <2>1. /\ ev'[j].st = "live" /\ ev'[j].etag = 1 /\ ev'[j].val = "old"
        /\ \A i \in Steps : i # j => ev'[i] = ev[i]
    BY <1>4 DEF Appear, GoogleTypeOK, Fresh
  <2>2. ev[j].st = "none" /\ ev[j].etag = 0 /\ Plan[j] = "carry"
    BY <1>4 DEF Appear, EtagsCount
  <2> QED
    BY <1>4, <2>1, <2>2, PlanFacts DEF EtagsMove, Landed, Appear
<1> QED
  BY <1>1, <1>2, <1>3, <1>4

(* Other clients and late copies: what the machine relies on of them. *)
LEMMA WorldMoves ==
  ASSUME GoogleTypeOK, EtagsCount, \A c \in flight : OfThePlan(c), World
  PROVE  /\ EtagsMove
         /\ flight' \subseteq flight
         /\ \A i \in Steps : Landed(i)' => Landed(i) \/ Landable(i)
         /\ \/ 1 \in deleted'
            \/ ev[1].st = "live" => ev'[1].st = "live"
            \/ \E c \in flight : c.e = 1 /\ c.op \in {"cancel", "delete"}
<1>1. ASSUME NEW c \in flight, Land(c)
      PROVE  /\ EtagsMove
             /\ flight' \subseteq flight
             /\ \A i \in Steps : Landed(i)' => Landed(i) \/ Landable(i)
             /\ (ev[1].st = "live" => ev'[1].st = "live") \/ (c.e = 1 /\ c.op \in {"cancel", "delete"})
  <2>1. PICK f \in Effects(c.op, ev[c.e]) : ev' = [ev EXCEPT ![c.e] = f]
    BY <1>1 DEF Land
  <2>2. c \in Copy /\ Accepts(c) /\ UNCHANGED deleted /\ flight' \subseteq flight
    BY <1>1 DEF Land, GoogleTypeOK
  <2>3. \A i \in Steps : Landed(i)' => Landed(i) \/ (i = c.e /\ c.op = Plan[i])
    BY <2>1, <2>2, WriteLands
  <2>4. \A i \in Steps : i = c.e /\ c.op = Plan[i] => Landable(i)
    BY <2>2 DEF Landable
  <2>5. /\ EtagsMove
        /\ ev'[c.e] = f
        /\ \A i \in Steps : i # c.e => ev'[i] = ev[i]
        /\ f.st \in {"live", "cancelled"}
        /\ f.st = "cancelled" => c.op \in {"cancel", "delete"}
    BY <2>1, <2>2, WriteMoves
  <2> QED
    BY <2>2, <2>3, <2>4, <2>5, PlanFacts
<1> QED
  BY <1>1, OthersMove DEF World

-----------------------------------------------------------------------------
(* What of the invariant rests on Google alone, for a copy that may land.   *)
LEMMA GoogleKeeps ==
  ASSUME GoogleTypeOK, GoogleTypeOK', EtagsMove, EtagsCount
  PROVE  /\ EtagsCount'
         /\ \A i \in Steps : ev'[i].etag >= ev[i].etag
         /\ PlannedAtFirst => PlannedAtFirst'
         /\ \A c \in Copy : OfThePlan(c) /\ Dated(c) =>
              /\ Dated(c)'
              /\ MeetsThePlan(c) => MeetsThePlan(c)'
              /\ c.op = Plan[c.e] /\ Accepts(c)' => Accepts(c)
<1>1. EtagsCount' /\ \A i \in Steps : ev'[i].etag >= ev[i].etag /\ ev[i].etag \in Nat /\ ev'[i].etag \in Nat
  BY EtagsStillCount DEF GoogleTypeOK, Event
<1>2. ASSUME PlannedAtFirst PROVE PlannedAtFirst'
  <2> SUFFICES ASSUME NEW i \in Steps, Plan[i] \in Watched, ev'[i].etag = 1
               PROVE  AsPlanned(ev'[i])
    BY DEF PlannedAtFirst
  <2>1. ev[i].etag # 0
    BY DEF EtagsCount, Watched
  <2>2. ev[i].etag = 1
    BY <1>1, <2>1
  <2>3. AsPlanned(ev[i])
    BY <1>2, <2>2 DEF PlannedAtFirst
  <2> QED
    BY <2>2, <2>3 DEF EtagsMove, AsPlanned
<1>3. ASSUME NEW c \in Copy, OfThePlan(c), Dated(c)
      PROVE  /\ Dated(c)'
             /\ MeetsThePlan(c) => MeetsThePlan(c)'
             /\ c.op = Plan[c.e] /\ Accepts(c)' => Accepts(c)
  <2>1. c.e \in Steps /\ c.tag \in Nat
    BY DEF Copy
  <2>2. Dated(c)'
    BY <1>1, <1>3, <2>1 DEF Dated
  <2>3. ASSUME Accepts(c)', Plan[c.e] \notin Inserts \/ c.op \in Inserts
        PROVE  Accepts(c) /\ ev'[c.e] = ev[c.e]
    BY <1>3, <2>3, AcceptsStays DEF Dated, OfThePlan
  <2>4. c.op = Plan[c.e] /\ Accepts(c)' => Accepts(c)
    BY <2>3
  <2>5. ASSUME MeetsThePlan(c) PROVE MeetsThePlan(c)'
    <3>1. CASE Plan[c.e] \in Inserts
      BY <3>1, <1>3 DEF MeetsThePlan, Watched, OfThePlan
    <3>2. CASE Plan[c.e] \notin Inserts
      BY <3>2, <2>3, <2>5 DEF MeetsThePlan
    <3> QED
      BY <3>1, <3>2
  <2> QED
    BY <2>2, <2>4, <2>5
<1> QED
  BY <1>1, <1>2, <1>3

-----------------------------------------------------------------------------
(* The request that is out is one of the plan's. *)
LEMMA OutOfThePlan ==
  ASSUME IInv, phase \in WritePhases
  PROVE  /\ CopyOf(out) \in Copy
         /\ CopyOf(out).e = out.e /\ CopyOf(out).op = out.op /\ CopyOf(out).tag = out.tag
         /\ OfThePlan(CopyOf(out))
         /\ Dated(CopyOf(out))
         /\ out.e <= at
<1>1. CopyOf(out) \in Copy /\ at \in Nat
  BY RequestTypes DEF IInv, TypeOK
<1>2. CopyOf(out).e = out.e /\ CopyOf(out).op = out.op /\ CopyOf(out).tag = out.tag
  BY DEF CopyOf
<1>3. CASE phase = "sent"
  BY <1>1, <1>2, <1>3 DEF IInv, OutIsTheStep, OfThePlan, Dated
<1>4. CASE phase = "restore"
  BY <1>1, <1>2, <1>4 DEF IInv, OutIsTheStep, OfThePlan, Dated
<1>5. CASE phase \in {"undo", "undo_again"}
  BY <1>1, <1>2, <1>5 DEF IInv, OutIsTheStep, Undoing, UndoPhases, OfThePlan, Dated
<1> QED
  BY <1>1, <1>2, <1>3, <1>4, <1>5 DEF WritePhases

(* Late copies and other clients keep the invariant. *)
LEMMA WorldSafe ==
  ASSUME IInv, World, UNCHANGED machine, TypeOK'
  PROVE  IInv'
<1> USE DEF IInv
<1>1. GoogleTypeOK /\ GoogleTypeOK' /\ at \in Nat
  BY DEF TypeOK
<1>2. UNCHANGED <<at, phase, copies, out, outcome>> /\ (Plan[at] = Plan[at])
  BY DEF machine
<1>3. flight \subseteq Copy /\ flight' \subseteq flight
  BY <1>1, WorldMoves DEF CopiesBehind, GoogleTypeOK
<1>4. /\ EtagsMove
      /\ \A i \in Steps : Landed(i)' => Landed(i) \/ Landable(i)
      /\ \/ 1 \in deleted'
         \/ ev[1].st = "live" => ev'[1].st = "live"
         \/ \E c \in flight : c.e = 1 /\ c.op \in {"cancel", "delete"}
  BY <1>1, WorldMoves DEF CopiesBehind
<1>5. /\ EtagsCount'
      /\ \A i \in Steps : ev'[i].etag >= ev[i].etag
      /\ PlannedAtFirst'
      /\ \A c \in Copy : OfThePlan(c) /\ Dated(c) =>
           /\ Dated(c)'
           /\ MeetsThePlan(c) => MeetsThePlan(c)'
           /\ c.op = Plan[c.e] /\ Accepts(c)' => Accepts(c)
  BY <1>1, <1>4, GoogleKeeps DEF CopiesMeetThePlan
<1>6. \A i \in Steps : Landable(i)' => Landable(i)
  BY <1>3, <1>5 DEF Landable, CopiesBehind
<1>7. CopiesBehind'
  BY <1>2, <1>3, <1>5 DEF CopiesBehind, TakenForNotDone
<1>8. OutIsTheStep'
  <2>1. \/ at \in Steps /\ out.tag \in Nat /\ ev[at].etag \in Nat /\ ev'[at].etag \in Nat
        \/ phase \notin {"sent", "restore"}
    BY DEF TypeOK, GoogleTypeOK, Event, RequestType
  <2> QED
    BY <1>2, <1>5, <2>1 DEF OutIsTheStep
<1>9. LaterUntouched'
  <2>1. \A i \in Steps : i > at \/ (i = at /\ phase = "start" /\ ~Retry) => ~Landable(i)
    BY <1>1, <1>3 DEF CopiesBehind, Landable, Copy
  <2> QED
    BY <1>2, <1>4, <2>1 DEF LaterUntouched
<1>10. LooksAreCarries' /\ Undoing'
  BY <1>2 DEF LooksAreCarries, Undoing
<1>11. DoubtIsKept'
  BY <1>2, <1>4, <1>6 DEF DoubtIsKept, Active, Doubt
<1>12. InsertAnswered'
  BY <1>2, <1>4 DEF InsertAnswered, EtagsMove
<1>13. TakenIsProved'
  BY <1>2, <1>4, <1>6 DEF TakenIsProved, TakenForNotDone
<1>14. TailStands'
  <2>1. Splits /\ (\E c \in flight : c.e = 1 /\ c.op \in {"cancel", "delete"}) => TakenForNotDone
    BY <1>1 DEF CopiesBehind, Splits, OfThePlan
  <2>2. 1 \notin deleted' => 1 \notin deleted
    BY DEF World, Land, OtherEdits, OtherDeletes, Purge, Appear
  <2> QED
    BY <1>2, <1>4, <2>1, <2>2 DEF TailStands, TakenForNotDone, Splits
<1>15. CopiesMeetThePlan'
  <2>1. \A c \in Pending' : c \in Pending
    BY <1>2, <1>3 DEF Pending
  <2>2. \A c \in Pending : c \in Copy /\ OfThePlan(c) /\ Dated(c)
    BY <1>3, OutOfThePlan DEF Pending, CopiesBehind
  <2>3. \A c \in Pending' : MeetsThePlan(c)'
    BY <2>1, <2>2, <1>5 DEF CopiesMeetThePlan
  <2>4. at \in Steps /\ Active => SentMeetsThePlan(copies.sentOn)'
    <3> SUFFICES ASSUME at \in Steps, Active, Plan[at] \in Watched, NEW t \in copies.sentOn
                 PROVE  t <= ev'[at].etag /\ (t = ev'[at].etag => AsPlanned(ev'[at]))
      BY <1>2 DEF SentMeetsThePlan
    <3>1. t <= ev[at].etag /\ (t = ev[at].etag => AsPlanned(ev[at]))
      BY DEF CopiesMeetThePlan, SentMeetsThePlan
    <3>2. t \in Nat /\ ev[at].etag \in Nat /\ ev'[at].etag \in Nat
      BY <1>1 DEF TypeOK, CopiesType, GoogleTypeOK, Event
    <3> QED
      BY <1>4, <1>5, <3>1, <3>2 DEF EtagsMove, AsPlanned
  <2> QED
    BY <1>2, <1>5, <2>3, <2>4 DEF CopiesMeetThePlan, Active
<1> QED
  BY <1>5, <1>7, <1>8, <1>9, <1>10, <1>11, <1>12, <1>13, <1>14, <1>15

-----------------------------------------------------------------------------
(* A step of the machine has two halves: Google's, and what the machine     *)
(* makes of the answer.  Between them, the step at `at` having gone out on  *)
(* the etags `sent`, this holds of Google.                                  *)
Between(sent) ==
  /\ EtagsCount'
  /\ PlannedAtFirst'
  /\ \A c \in flight' :
       /\ OfThePlan(c)
       /\ Dated(c)'
       /\ MeetsThePlan(c)'
       /\ c.e <= at
       /\ ~(c.op = "delete" /\ Plan[c.e] = "insert")
       /\ c.e = at /\ c.op = Plan[at] /\ c.op \notin Inserts => c.tag \in sent
  /\ \A i \in Steps : i > at => ~Landed(i)'
  /\ Splits /\ 1 \notin deleted' /\ at >= 2 => ev'[1].st = "live"
  /\ Plan[at] \in Watched =>
       \A t \in sent : t <= ev'[at].etag /\ (t = ev'[at].etag => AsPlanned(ev'[at]))

(* The step at `at` is not in Google and no copy of it can come to be. *)
ProvedNot == \A i \in Steps : i = at => ~Landed(i)' /\ ~Landable(i)'

(* What can't be seen of it is in doubt. *)
InDoubt(doubt, answeredOk) ==
  \A i \in Steps : i = at =>
    /\ Landable(i)' => doubt
    /\ Landed(i)' => doubt \/ answeredOk

LEMMA MoveSends ==
  ASSUME TypeOK, TypeOK', at \in Steps, outcome = "running",
         NEW c \in CopiesType, Between(c.sentOn), NEW t \in Nat, Sends(c, t),
         InDoubt(c.inDoubt, c.answeredOk),
         Plan[at] \notin Inserts => t <= ev'[at].etag /\ ~c.answeredOk,
         Plan[at] \in Watched /\ t = ev'[at].etag => AsPlanned(ev'[at]),
         Plan[at] \in Inserts /\ c.answeredOk => ev'[at].st = "purged"
  PROVE  IInv'
<1>1. /\ at' = at /\ phase' = "sent" /\ outcome' = "running"
      /\ out' = Request(at, Plan[at], t)
      /\ copies' = [c EXCEPT !.last = t, !.sentOn = IF Inserting(Plan[at]) THEN @ ELSE @ \cup {t}]
  BY DEF Sends
<1>2. out'.e = at /\ out'.op = Plan[at] /\ out'.tag = t
  BY <1>1 DEF Request
<1>3. /\ copies'.sentOn = IF Inserting(Plan[at]) THEN c.sentOn ELSE c.sentOn \cup {t}
      /\ copies'.inDoubt = c.inDoubt
      /\ copies'.answeredOk = c.answeredOk
  BY <1>1 DEF CopiesType
<1> HIDE DEF Between
<1>4. EtagsCount' /\ PlannedAtFirst'
  BY DEF Between
<1>5. CopiesBehind'
  BY <1>1, <1>3 DEF CopiesBehind, Between
<1>6. OutIsTheStep'
  BY <1>1, <1>2, <1>3 DEF OutIsTheStep, Inserting
<1>7. LaterUntouched' /\ LooksAreCarries'
  BY <1>1 DEF LaterUntouched, LooksAreCarries, Between
<1>8. DoubtIsKept'
  BY <1>1, <1>3 DEF DoubtIsKept, Doubt, InDoubt
<1>9. InsertAnswered'
  BY <1>1, <1>3 DEF InsertAnswered
<1>10. Undoing' /\ TakenIsProved'
  BY <1>1 DEF Undoing, TakenIsProved, TakenForNotDone, UndoPhases
<1>11. TailStands'
  BY <1>1 DEF TailStands, Between
<1>12. CopiesMeetThePlan'
  <2>1. CopyOf(out') = [e |-> at, op |-> Plan[at], tag |-> t]
    BY <1>2 DEF CopyOf
  <2>2. ASSUME NEW x, x = CopyOf(out') PROVE MeetsThePlan(x)'
    <3>1. x.e = at /\ x.op = Plan[at] /\ x.tag = t
      BY <2>1, <2>2
    <3>2. Plan[at] # "restore"
      BY PlanFacts DEF Kinds
    <3>3. ASSUME Accepts(x)', Plan[at] \in Watched PROVE AsPlanned(ev'[at])
      BY <3>1, <3>3 DEF Accepts, Watched
    <3> QED
      BY <3>1, <3>2, <3>3 DEF MeetsThePlan
  <2>3. \A x \in Pending' : MeetsThePlan(x)'
    <3>1. \A x \in Pending' : x \in flight' \/ x = CopyOf(out')
      BY DEF Pending, CopyOf
    <3> QED
      BY <2>2, <3>1 DEF Between
  <2>4. SentMeetsThePlan(copies.sentOn)'
    BY <1>1, <1>3 DEF SentMeetsThePlan, Between, Inserting, Watched
  <2> QED
    BY <1>4, <2>3, <2>4 DEF CopiesMeetThePlan
<1> QED
  BY <1>4, <1>5, <1>6, <1>7, <1>8, <1>9, <1>10, <1>11, <1>12 DEF IInv

LEMMA MoveLooks ==
  ASSUME TypeOK, TypeOK', at \in Steps, outcome = "running",
         NEW c \in CopiesType, Between(c.sentOn),
         NEW p \in LookPhases \cup {"check", "insert_look"}, Looks(p, c),
         InDoubt(c.inDoubt, c.answeredOk),
         p = "check" /\ Plan[at] \in Inserts /\ c.answeredOk => ev'[at].st # "none",
         p = "insert_look" => Plan[at] \in Inserts /\ (c.answeredOk => ev'[at].st = "purged"),
         p \in LookPhases => Plan[at] = "carry" /\ ~c.answeredOk
  PROVE  IInv'
<1>1. at' = at /\ phase' = p /\ outcome' = "running" /\ copies' = c
  BY DEF Looks
<1> HIDE DEF Between
<1>2. EtagsCount' /\ PlannedAtFirst'
  BY DEF Between
<1>3. CopiesBehind'
  BY <1>1 DEF CopiesBehind, Between
<1>4. OutIsTheStep' /\ LooksAreCarries'
  BY <1>1 DEF OutIsTheStep, LooksAreCarries
<1>5. LaterUntouched'
  BY <1>1 DEF LaterUntouched, Between
<1>6. DoubtIsKept'
  BY <1>1 DEF DoubtIsKept, Doubt, InDoubt
<1>7. InsertAnswered'
  BY <1>1 DEF InsertAnswered
<1>8. Undoing' /\ TakenIsProved'
  BY <1>1 DEF Undoing, TakenIsProved, TakenForNotDone, UndoPhases
<1>9. TailStands'
  BY <1>1 DEF TailStands, Between
<1>10. CopiesMeetThePlan'
  BY <1>1, <1>2 DEF CopiesMeetThePlan, Pending, SentMeetsThePlan, Between
<1> QED
  BY <1>2, <1>3, <1>4, <1>5, <1>6, <1>7, <1>8, <1>9, <1>10 DEF IInv

LEMMA MoveEnds ==
  ASSUME TypeOK, TypeOK', at \in Steps, outcome = "running",
         NEW sent, Between(sent),
         NEW c, NEW end, NEW t, StepEnds(c, end, t),
         Plan[at] = "insert" => ev'[at].st = "live"
  PROVE  IInv'
<1>1. at' = at + 1 /\ phase' = "start" /\ outcome' = "running" /\ at \in Nat
  BY DEF StepEnds
<1> HIDE DEF Between
<1>2. EtagsCount' /\ PlannedAtFirst'
  BY DEF Between
<1>3. CopiesBehind'
  <2>1. \A x \in flight' : x.e \in Nat
    BY DEF TypeOK, GoogleTypeOK, Copy
  <2> QED
    BY <1>1, <2>1 DEF CopiesBehind, Between
<1>4. OutIsTheStep' /\ LooksAreCarries' /\ DoubtIsKept' /\ InsertAnswered'
  BY <1>1 DEF OutIsTheStep, LooksAreCarries, DoubtIsKept, Active, InsertAnswered
<1>5. LaterUntouched'
  BY <1>1 DEF LaterUntouched, Between
<1>6. Undoing' /\ TakenIsProved'
  BY <1>1 DEF Undoing, TakenIsProved, TakenForNotDone, UndoPhases
<1>7. TailStands'
  <2>1. CASE at = 1
    BY <1>1, <2>1 DEF TailStands, Splits
  <2>2. CASE at # 1
    BY <1>1, <2>2 DEF TailStands, Between
  <2> QED
    BY <2>1, <2>2
<1>8. CopiesMeetThePlan'
  BY <1>1, <1>2 DEF CopiesMeetThePlan, Pending, Active, Between
<1> QED
  BY <1>2, <1>3, <1>4, <1>5, <1>6, <1>7, <1>8 DEF IInv

(* The run ends at its step: proved not done, or unknown. *)
LEMMA MoveOver ==
  ASSUME TypeOK, TypeOK', at \in Steps,
         NEW c \in CopiesType, Between(c.sentOn), copies' = c,
         NEW o, NEW w, NEW r, Over(o, w, r),
         o = "not_done" => ~Cleanup(at) /\ ProvedNot
  PROVE  IInv'
<1>1. at' = at /\ phase' = "over" /\ outcome' = o /\ copies' = c
  BY DEF Over
<1> HIDE DEF Between
<1>2. EtagsCount' /\ PlannedAtFirst'
  BY DEF Between
<1>3. CopiesBehind'
  BY <1>1 DEF CopiesBehind, Between
<1>4. OutIsTheStep' /\ LooksAreCarries' /\ DoubtIsKept' /\ InsertAnswered'
  BY <1>1 DEF OutIsTheStep, LooksAreCarries, DoubtIsKept, Active, InsertAnswered
<1>5. LaterUntouched'
  BY <1>1 DEF LaterUntouched, Between
<1>6. Undoing' /\ TakenIsProved'
  BY <1>1 DEF Undoing, TakenIsProved, TakenForNotDone, UndoPhases, ProvedNot
<1>7. TailStands'
  BY <1>1 DEF TailStands, Between
<1>8. CopiesMeetThePlan'
  BY <1>1, <1>2 DEF CopiesMeetThePlan, Pending, Active, Between
<1> QED
  BY <1>2, <1>3, <1>4, <1>5, <1>6, <1>7, <1>8 DEF IInv

(* A step proved not done: left out, the end of the run, or its undo. *)
LEMMA MoveNotDone ==
  ASSUME TypeOK, TypeOK', at \in Steps, outcome = "running",
         NEW c \in CopiesType, Between(c.sentOn), NEW w, NotDone(c, w), ProvedNot
  PROVE  IInv'
<1>1. CASE Cleanup(at) /\ StepEnds(c, "skipped", 0)
  <2>1. Plan[at] # "insert"
    BY <1>1, PlanShape DEF Cleanup
  <2> QED
    BY <1>1, <2>1, MoveEnds
<1>2. CASE ~Cleanup(at) /\ Over("not_done", w, "nothing") /\ copies' = c
  BY <1>2, MoveOver
<1>3. CASE /\ ~Cleanup(at)
           /\ ToUndo # {}
           /\ copies' = c
           /\ IF tag # 0 THEN phase' = "undo" /\ out' = Request(1, "delete", tag)
                         ELSE phase' = "undo_look_again" /\ out' = Idle
           /\ UNCHANGED <<at, ends, tag, rollback, outcome>>
  <2>1. at = 2 /\ Plan[1] = "insert" /\ Plan[2] = "cut"
    <3>1. PICK j \in Steps : j < at
      BY <1>3 DEF ToUndo
    <3> QED
      BY <1>3, <3>1, PlanShape
  <2>2. phase' \in UndoPhases /\ phase' \in {"undo", "undo_look_again"} /\ at' = at /\ outcome' = "running"
    BY <1>3 DEF UndoPhases
  <2>3. phase' = "undo" => out'.e = 1 /\ out'.op = "delete"
    BY <1>3 DEF Request
  <2> HIDE DEF Between
  <2>4. EtagsCount' /\ PlannedAtFirst'
    BY DEF Between
  <2>5. CopiesBehind'
    BY <1>3, <2>2 DEF CopiesBehind, Between
  <2>6. OutIsTheStep' /\ LooksAreCarries' /\ DoubtIsKept' /\ InsertAnswered'
    BY <2>2, <2>3 DEF OutIsTheStep, LooksAreCarries, DoubtIsKept, Active, InsertAnswered
  <2>7. LaterUntouched'
    BY <2>2 DEF LaterUntouched, Between
  <2>8. Undoing' /\ TakenIsProved'
    BY <1>3, <2>1, <2>2 DEF Undoing, TakenIsProved, TakenForNotDone, UndoPhases, ProvedNot
  <2>9. TailStands'
    BY <2>2 DEF TailStands, TakenForNotDone
  <2>10. CopiesMeetThePlan'
    <3>1. \A x \in Pending' : x \in flight' \/ (x = CopyOf(out') /\ phase' = "undo")
      BY <2>2 DEF Pending, CopyOf
    <3>2. ASSUME NEW x, x = CopyOf(out'), phase' = "undo" PROVE MeetsThePlan(x)'
      <4>1. x.e = 1 /\ x.op = "delete"
        BY <2>3, <3>2 DEF CopyOf
      <4> QED
        BY <2>1, <4>1 DEF MeetsThePlan, Watched
    <3> QED
      BY <2>2, <2>4, <3>1, <3>2 DEF CopiesMeetThePlan, Active, UndoPhases, Between
  <2> QED
    BY <2>4, <2>5, <2>6, <2>7, <2>8, <2>9, <2>10 DEF IInv
<1> QED
  BY <1>1, <1>2, <1>3 DEF NotDone

(* A step that may have landed: passed over, or the end of the run. *)
LEMMA MoveUnknown ==
  ASSUME TypeOK, TypeOK', at \in Steps, outcome = "running",
         NEW c \in CopiesType, Between(c.sentOn), Unknown(c)
  PROVE  IInv'
<1>1. CASE Cleanup(at) /\ StepEnds(c, "unanswered", 0)
  <2>1. Plan[at] # "insert"
    BY <1>1, PlanShape DEF Cleanup
  <2> QED
    BY <1>1, <2>1, MoveEnds
<1>2. CASE Over("unknown", why, "none") /\ copies' = c
  BY <1>2, MoveOver
<1> QED
  BY <1>1, <1>2 DEF Unknown

(* Where Google did nothing, what holds between the halves is the invariant.*)
LEMMA BetweenStays ==
  ASSUME IInv, at \in Steps, outcome = "running", UNCHANGED google
  PROVE  /\ Active => Between(copies.sentOn) /\ InDoubt(Doubt, copies.answeredOk)
         /\ phase = "start" => Between({})
<1> USE DEF IInv
<1>1. ev' = ev /\ flight' = flight /\ deleted' = deleted
  BY DEF google
<1>2. \A c \in flight : c.e <= at /\ c.e \in Nat
  BY DEF CopiesBehind, TypeOK, GoogleTypeOK, Copy
<1>3. phase \notin UndoPhases => ~TakenForNotDone
  BY DEF TakenForNotDone
<1>4. Active \/ phase = "start" => ~TakenForNotDone
  BY <1>3 DEF Active, UndoPhases
<1>5. \A i \in Steps : i > at => ~Landed(i)'
  BY <1>1 DEF LaterUntouched, Landed
<1>6. \A c \in flight : Dated(c)' /\ MeetsThePlan(c)'
  BY <1>1 DEF CopiesBehind, CopiesMeetThePlan, Pending, Dated, MeetsThePlan, Accepts
<1>7. EtagsCount' /\ PlannedAtFirst'
  BY <1>1 DEF CopiesMeetThePlan, EtagsCount, PlannedAtFirst
<1>8. ASSUME Active PROVE Between(copies.sentOn)
  BY <1>1, <1>2, <1>4, <1>5, <1>6, <1>7, <1>8
     DEF Between, CopiesBehind, TailStands, CopiesMeetThePlan, SentMeetsThePlan
<1>9. ASSUME phase = "start" PROVE Between({})
  <2>1. \A c \in flight : c.e = at /\ c.op = Plan[at] => c.op \in Inserts
    BY <1>9, PlanShape DEF CopiesBehind
  <2> QED
    BY <1>1, <1>2, <1>4, <1>5, <1>6, <1>7, <1>9, <2>1 DEF Between, CopiesBehind, TailStands
<1>10. ASSUME Active PROVE InDoubt(Doubt, copies.answeredOk)
  <2>1. \A i \in Steps : (Landed(i)' <=> Landed(i)) /\ (Landable(i)' <=> Landable(i))
    BY <1>1 DEF Landed, Landable, Accepts
  <2> QED
    BY <1>10, <2>1 DEF InDoubt, DoubtIsKept
<1> QED
  BY <1>8, <1>9, <1>10

-----------------------------------------------------------------------------
(* One attempt of a write, and what its answer tells of it.                 *)
LEMMA AttemptMoves ==
  ASSUME GoogleTypeOK, EtagsCount, out \in RequestType, OfThePlan(CopyOf(out)),
         NEW a, Attempt(a)
  PROVE  /\ EtagsMove
         /\ UNCHANGED <<edits, deleted>>
         /\ flight' \subseteq flight \cup {CopyOf(out)}
         /\ \A i \in Steps : i # out.e => ev'[i] = ev[i]
         /\ a.v # "ok" => UNCHANGED ev
         /\ a.v = "ok" =>
              /\ a.kind = "reply"
              /\ Accepts(out)
              /\ UNCHANGED flight
              /\ ev'[out.e].etag > ev[out.e].etag
              /\ ev'[out.e].st \in {"live", "cancelled"}
              /\ ev'[out.e].st = "cancelled" => out.op \in {"cancel", "delete"}
              /\ out.op = "restore" => ev'[out.e].val \in {"old", ev[out.e].val}
         /\ a.v \in {"gone", "refused"} => UNCHANGED flight
         /\ a.kind = "unsent" => ~out.maybe /\ UNCHANGED google
         /\ out.maybe => a.maybe \/ a.kind = "lost"
         /\ flight' = flight \/ a.kind = "lost" \/ a.v \in {"server_error", "other"}
<1> DEFINE c == CopyOf(out)
<1>1. c \in Copy /\ c.e = out.e /\ c.op = out.op /\ c.tag = out.tag /\ out.e \in Steps
  BY RequestTypes DEF CopyOf, RequestType
<1>2. UNCHANGED ev => EtagsMove
  BY DEF EtagsMove
<1>3. CASE NeverSent(a)
  BY <1>2, <1>3 DEF NeverSent, Lost, Unsent, google
<1>4. CASE LostAnswer(a) \/ ServerError(a) \/ Unreadable(a)
  BY <1>2, <1>4 DEF LostAnswer, ServerError, Unreadable, Lost, Reply, MayLand
<1>5. CASE Refused(a) \/ NoCalendar(a)
  BY <1>2, <1>5 DEF Refused, NoCalendar, Reply, google
<1>6. CASE Rejected(a)
  <2>1. PICK v \in Refusals(out) : a = Reply(v, out.maybe)
    BY <1>6 DEF Rejected
  <2>2. v \in {"duplicate", "conflict", "gone"}
    BY <2>1 DEF Refusals
  <2> QED
    BY <1>2, <1>6, <2>1, <2>2 DEF Rejected, Reply, google
<1>7. CASE Taken(a)
  <2>1. PICK f \in Effects(out.op, ev[out.e]) : ev' = [ev EXCEPT ![out.e] = f]
    BY <1>7 DEF Taken
  <2>2. Accepts(c) /\ Accepts(out)
    BY <1>1, <1>7 DEF Taken, Accepts
  <2>3. /\ EtagsMove
        /\ ev'[c.e] = f
        /\ \A i \in Steps : i # c.e => ev'[i] = ev[i]
        /\ f.etag > ev[c.e].etag
        /\ f.st \in {"live", "cancelled"}
        /\ f.st = "cancelled" => c.op \in {"cancel", "delete"}
        /\ c.op = "restore" => f.val \in {"old", ev[c.e].val}
    <3> HIDE DEF c
    <3>1. f \in Effects(c.op, ev[c.e]) /\ ev' = [ev EXCEPT ![c.e] = f] /\ OfThePlan(c)
      BY <1>1, <2>1 DEF c
    <3> QED
      BY <1>1, <2>2, <3>1, WriteMoves
  <2>4. a.v = "ok" /\ a.kind = "reply" /\ a.maybe = out.maybe
    BY <1>7 DEF Taken, Reply, NoBody
  <2> QED
    BY <1>1, <1>7, <2>2, <2>3, <2>4 DEF Taken
<1> QED
  BY <1>3, <1>4, <1>5, <1>6, <1>7 DEF Attempt

(* A step's own write, or the undo of half a move: what holds once it has   *)
(* been answered, whatever the answer.                                      *)
LEMMA AttemptBetween ==
  ASSUME IInv, GoogleTypeOK', phase \in {"sent", "restore"}, NEW a, Attempt(a)
  PROVE  /\ Between(copies.sentOn)
         /\ \A i \in Steps : i = at => (Landable(i)' => Landable(i) \/ flight' # flight)
         /\ a.v = "ok" => \A i \in Steps : i = at => ~Landable(i)'
         /\ a.v # "ok" => \A i \in Steps : Landed(i)' <=> Landed(i)
<1> USE DEF IInv
<1>1. /\ out.e = at /\ at \in Steps
      /\ out.op = Plan[at] \/ (out.op = "restore" /\ Plan[at] = "retime")
      /\ ~TakenForNotDone
      /\ Active
      /\ phase = "sent" => out.op = Plan[at]
  BY DEF OutIsTheStep, TypeOK, TakenForNotDone, Undoing, UndoPhases, Active
<1>2. /\ CopyOf(out) \in Copy /\ CopyOf(out).e = at /\ CopyOf(out).op = out.op
      /\ CopyOf(out).tag = out.tag
      /\ OfThePlan(CopyOf(out)) /\ Dated(CopyOf(out))
  BY <1>1, OutOfThePlan
<1>3. /\ EtagsMove
      /\ UNCHANGED deleted
      /\ flight' \subseteq flight \cup {CopyOf(out)}
      /\ \A i \in Steps : i # at => ev'[i] = ev[i]
      /\ a.v # "ok" => UNCHANGED ev
      /\ a.v = "ok" => /\ UNCHANGED flight
                       /\ ev'[at].etag > ev[at].etag
                       /\ ev'[at].st \in {"live", "cancelled"}
  <2>1. GoogleTypeOK /\ out \in RequestType
    BY DEF TypeOK
  <2> QED
    BY <1>1, <1>2, <2>1, AttemptMoves
<1>4. GoogleTypeOK /\ at \in Nat /\ flight \subseteq Copy
  BY <1>1 DEF TypeOK, GoogleTypeOK
<1>5. /\ EtagsCount' /\ PlannedAtFirst'
      /\ \A i \in Steps : ev'[i].etag >= ev[i].etag
      /\ \A c \in Copy : OfThePlan(c) /\ Dated(c) =>
           /\ Dated(c)'
           /\ MeetsThePlan(c) => MeetsThePlan(c)'
           /\ c.op = Plan[c.e] /\ Accepts(c)' => Accepts(c)
  BY <1>3, <1>4, GoogleKeeps DEF CopiesMeetThePlan
<1>6. \A c \in flight' : c \in flight \/ c = CopyOf(out)
  BY <1>3
<1>7. \A c \in flight' : c \in Copy /\ OfThePlan(c) /\ Dated(c) /\ MeetsThePlan(c) /\ c.e <= at
  <2>1. MeetsThePlan(CopyOf(out))
    BY DEF CopiesMeetThePlan, Pending
  <2> QED
    BY <1>2, <1>4, <1>6, <2>1 DEF CopiesBehind, CopiesMeetThePlan, Pending
<1>8. \A c \in flight' :
        /\ ~(c.op = "delete" /\ Plan[c.e] = "insert")
        /\ c.e = at /\ c.op = Plan[at] /\ c.op \notin Inserts => c.tag \in copies.sentOn
  <2>1. ASSUME NEW c \in flight
        PROVE  /\ ~(c.op = "delete" /\ Plan[c.e] = "insert")
               /\ c.e = at /\ c.op = Plan[at] /\ c.op \notin Inserts => c.tag \in copies.sentOn
    BY <1>1, <2>1 DEF CopiesBehind
  <2>2. out.op = Plan[at] /\ out.op \notin Inserts => out.tag \in copies.sentOn
    BY <1>1, PlanFacts DEF OutIsTheStep, Kinds
  <2> QED
    BY <1>1, <1>2, <1>6, <2>1, <2>2
<1>9. \A i \in Steps : i > at => ~Landed(i)'
  BY <1>3, <1>4 DEF LaterUntouched, Landed
<1>10. Splits /\ 1 \notin deleted' /\ at >= 2 => ev'[1].st = "live"
  BY <1>1, <1>3, PlanFacts DEF TailStands
<1>11. ASSUME Plan[at] \in Watched, NEW t \in copies.sentOn
       PROVE  t <= ev'[at].etag /\ (t = ev'[at].etag => AsPlanned(ev'[at]))
  <2>1. t <= ev[at].etag /\ (t = ev[at].etag => AsPlanned(ev[at]))
    BY <1>1, <1>11 DEF CopiesMeetThePlan, SentMeetsThePlan
  <2>2. t \in Nat /\ ev[at].etag \in Nat /\ ev'[at].etag \in Nat
    BY <1>1, <1>4 DEF TypeOK, CopiesType, GoogleTypeOK, Event
  <2> QED
    BY <1>1, <1>3, <1>5, <2>1, <2>2 DEF EtagsMove, AsPlanned
<1>12. Between(copies.sentOn)
  BY <1>5, <1>7, <1>8, <1>9, <1>10, <1>11 DEF Between
<1>13. \A i \in Steps : i = at => (Landable(i)' => Landable(i) \/ flight' # flight)
  BY <1>5, <1>7 DEF Landable
<1>14. ASSUME a.v = "ok", NEW i \in Steps, i = at PROVE ~Landable(i)'
  <2> SUFFICES ASSUME NEW c \in flight', c.e = at, c.op = Plan[at], Accepts(c)' PROVE FALSE
    BY <1>14 DEF Landable
  <2>1. c \in Copy /\ Dated(c) /\ c.tag \in Nat /\ ev[at].etag \in Nat /\ ev'[at].etag \in Nat
    BY <1>1, <1>4, <1>7 DEF Copy, GoogleTypeOK, Event
  <2>2. CASE Plan[at] \in Inserts
    BY <1>3, <1>14, <2>2 DEF Accepts
  <2>3. CASE Plan[at] \notin Inserts
    BY <1>3, <1>14, <2>1, <2>3 DEF Accepts, Dated
  <2> QED
    BY <2>2, <2>3
<1>15. a.v # "ok" => \A i \in Steps : Landed(i)' <=> Landed(i)
  BY <1>3 DEF Landed
<1> QED
  BY <1>12, <1>13, <1>14, <1>15

-----------------------------------------------------------------------------
(* The answers the machine reads. *)

(* What Google's copy says of a step, whatever the step. *)
LEMMA VerdictFacts ==
  ASSUME NEW k \in Kinds, NEW e
  PROVE  /\ Verdict(k, e) = "no" =>
              /\ k \in Inserts => k = "create" /\ e.st = "cancelled"
              /\ k \in {"delete", "cancel"} => e.st = "live"
              /\ k \notin Inserts \cup {"delete", "cancel"} => ~Shown(e) \/ e.val = "old"
         /\ Verdict(k, e) = "yes" /\ k \in Inserts => e.st = "live"
         /\ Verdict(k, e) = "unknown" =>
              /\ k \notin {"delete", "cancel"}
              /\ k \notin Inserts => e.val # "new"
BY DEF Verdict, Kinds, Shown

LEMMA MarkedFields ==
  ASSUME NEW c \in CopiesType, NEW a \in Answers
  PROVE  /\ Marked(c, a).sentOn = c.sentOn
         /\ Marked(c, a).inDoubt <=> \/ c.inDoubt \/ a.kind = "lost" \/ a.maybe
                                     \/ a.v \in {"server_error", "other", "duplicate"}
         /\ Marked(c, a).answeredOk <=> c.answeredOk \/ a.v = "ok"
<1> DEFINE doubt == c.inDoubt \/ a.kind = "lost" \/ a.maybe
                       \/ a.v \in {"server_error", "other", "duplicate"}
           okay == c.answeredOk \/ a.v = "ok"
           reposted == c.reposted \/ (a.kind = "lost" /\ a.maybe /\ Inserting(Plan[at]))
           resent == IF (a.maybe /\ (a.kind = "lost" \/ a.v # "refused")) /\ ~Inserting(Plan[at])
                       THEN c.resentOn \cup {c.last} ELSE c.resentOn
<1>1. Marked(c, a) = [c EXCEPT !.inDoubt = doubt, !.answeredOk = okay,
                               !.resentOn = resent, !.reposted = reposted]
  BY Zenon DEF Marked
<1> HIDE DEF doubt, okay, reposted, resent
<1>2. /\ Marked(c, a).sentOn = c.sentOn
      /\ Marked(c, a).inDoubt = doubt
      /\ Marked(c, a).answeredOk = okay
  BY <1>1 DEF CopiesType
<1> QED
  BY <1>2 DEF doubt, okay

(* The answer to the step's own write. *)
LEMMA WriteSafe ==
  ASSUME IInv, TypeOK', phase = "sent", NEW a \in Answers, Attempt(a), OnWrite(a)
  PROVE  IInv'
<1> DEFINE c == Marked(copies, a)
<1>1. /\ TypeOK /\ at \in Steps /\ outcome = "running" /\ Active /\ copies \in CopiesType
      /\ out.e = at /\ out.op = Plan[at] /\ Plan[at] \in Kinds
  BY PlanFacts DEF IInv, TypeOK, Undoing, Active, OutIsTheStep
<1>2. /\ Between(copies.sentOn)
      /\ \A i \in Steps : i = at => (Landable(i)' => Landable(i) \/ flight' # flight)
      /\ a.v = "ok" => \A i \in Steps : i = at => ~Landable(i)'
      /\ a.v # "ok" => \A i \in Steps : Landed(i)' <=> Landed(i)
  BY AttemptBetween DEF TypeOK
<1>3. /\ a.v # "ok" => UNCHANGED ev
      /\ a.v = "ok" => /\ a.kind = "reply"
                       /\ ev'[at].st \in {"live", "cancelled"}
                       /\ ev'[at].st = "cancelled" => Plan[at] \in {"cancel", "delete"}
      /\ out.maybe => a.maybe \/ a.kind = "lost"
      /\ flight' = flight \/ a.kind = "lost" \/ a.v \in {"server_error", "other"}
  <2>1. GoogleTypeOK /\ EtagsCount /\ out \in RequestType /\ OfThePlan(CopyOf(out))
    BY OutOfThePlan DEF IInv, TypeOK
  <2> QED
    BY <1>1, <2>1, AttemptMoves
<1>4. /\ c \in CopiesType
      /\ c.sentOn = copies.sentOn
      /\ c.inDoubt <=> \/ copies.inDoubt \/ a.kind = "lost" \/ a.maybe
                       \/ a.v \in {"server_error", "other", "duplicate"}
      /\ c.answeredOk <=> copies.answeredOk \/ a.v = "ok"
  BY <1>1, MarkedType, MarkedFields
<1> HIDE DEF c
<1>5. /\ Landable(at) => copies.inDoubt \/ out.maybe
      /\ Landed(at) => copies.inDoubt \/ out.maybe \/ copies.answeredOk
      /\ Plan[at] \in Inserts /\ copies.answeredOk => ev[at].st = "purged"
      /\ Plan[at] \notin Inserts => ~copies.answeredOk
  BY <1>1 DEF IInv, DoubtIsKept, Doubt, InsertAnswered, OutIsTheStep
<1>6. InDoubt(c.inDoubt, c.answeredOk)
  BY <1>2, <1>3, <1>4, <1>5 DEF InDoubt
<1>7. a.v # "ok" /\ ~c.inDoubt => ProvedNot
  <2>1. Plan[at] \in Inserts /\ ev[at].st = "purged" => ~Landed(at)
    BY DEF Landed
  <2> QED
    BY <1>2, <1>3, <1>4, <1>5, <2>1 DEF ProvedNot
<1>8. a.v = "ok" /\ Plan[at] # "delete" /\ Verdict(Plan[at], ev'[at]) = "no" => ProvedNot
  <2> SUFFICES ASSUME a.v = "ok", Plan[at] # "delete", Verdict(Plan[at], ev'[at]) = "no"
               PROVE  \A i \in Steps : i = at => ~Landed(i)'
    BY <1>2 DEF ProvedNot
  <2>1. /\ Plan[at] \in Inserts => Plan[at] = "create" /\ ev'[at].st = "cancelled"
        /\ Plan[at] \in {"delete", "cancel"} => ev'[at].st = "live"
        /\ Plan[at] \notin Inserts \cup {"delete", "cancel"} => ~Shown(ev'[at]) \/ ev'[at].val = "old"
    BY <1>1, VerdictFacts
  <2> QED
    BY <2>1 DEF Landed, Shown
<1>9. Looks("check", c) => IInv'
  <2>1. Plan[at] \in Inserts /\ c.answeredOk => ev'[at].st # "none"
    BY <1>3, <1>4, <1>5
  <2> QED
    BY <1>1, <1>2, <1>4, <1>6, <2>1, MoveLooks
<1>10. \A w : ProvedNot /\ NotDone(c, w) => IInv'
  BY <1>1, <1>2, <1>4, MoveNotDone
<1>11. \A t : StepEnds(c, "done", t) /\ (Plan[at] = "insert" => ev'[at].st = "live") => IInv'
  BY <1>1, <1>2, MoveEnds
<1>12. a.v = "ok" /\ ReadOwnReply(c, a.body, ev'[at]) => IInv'
  <2>1. Verdict(Plan[at], ev'[at]) = "yes" /\ Plan[at] = "insert" => ev'[at].st = "live"
    BY <1>1, VerdictFacts
  <2> QED
    BY <1>8, <1>9, <1>10, <1>11, <2>1 DEF ReadOwnReply
<1>13. a.v # "ok" /\ ~c.inDoubt /\ ReadPlainAnswer(c, a.v) => IInv'
  BY <1>7, <1>9, <1>10, <1>11 DEF ReadPlainAnswer, GoneIsDone
<1>14. a.kind = "unsent" => a.v # "ok"
  BY <1>3
<1> QED
  BY <1>7, <1>9, <1>10, <1>12, <1>13, <1>14 DEF OnWrite, c

(* The answer to putting half of a move back. *)
LEMMA RestoreSafe ==
  ASSUME IInv, TypeOK', phase = "restore", NEW a \in Answers, Attempt(a), OnRestore(a)
  PROVE  IInv'
<1>1. /\ TypeOK /\ at \in Steps /\ outcome = "running" /\ copies \in CopiesType
      /\ Plan[at] = "retime"
  BY DEF IInv, TypeOK, Undoing, OutIsTheStep
<1>2. /\ Between(copies.sentOn)
      /\ a.v = "ok" => \A i \in Steps : i = at => ~Landable(i)'
  BY AttemptBetween DEF TypeOK
<1>3. CASE a.v = "ok" /\ ev'[at].val = "old" /\ NotDone(copies, "put_back")
  <2>1. ProvedNot
    BY <1>1, <1>2, <1>3 DEF ProvedNot, Landed
  <2> QED
    BY <1>1, <1>2, <1>3, <2>1, MoveNotDone
<1>4. CASE Unknown(copies)
  BY <1>1, <1>2, <1>4, MoveUnknown
<1> QED
  BY <1>3, <1>4 DEF OnRestore

(* The rollback: whatever becomes of the new series' delete, the step it is *)
(* undone for stays not done.                                               *)
LEMMA UndoSafe ==
  ASSUME IInv, TypeOK', phase \in UndoPhases,
         EtagsMove, flight' \subseteq flight \cup {CopyOf(out)}, UNCHANGED deleted,
         flight' # flight => phase \in {"undo", "undo_again"},
         \A i \in Steps : i # 1 => ev'[i] = ev[i],
         at' = at, copies' = copies,
         \/ phase' \in UndoPhases /\ outcome' = outcome
         \/ phase' = "over" /\ outcome' = "not_done",
         phase' \in {"undo", "undo_again"} => out'.e = 1 /\ out'.op = "delete"
  PROVE  IInv'
<1> USE DEF IInv
<1>1. /\ at = 2 /\ at \in Steps /\ Plan[1] = "insert" /\ Plan[2] = "cut" /\ outcome = "running"
      /\ TakenForNotDone /\ TakenForNotDone' /\ ~Active'
      /\ phase' \notin {"start", "sent", "restore", "check", "insert_look"} \cup LookPhases
  BY DEF Undoing, TakenForNotDone, UndoPhases, Active, TakenIsProved
<1>2. GoogleTypeOK /\ GoogleTypeOK' /\ flight \subseteq Copy
  BY DEF TypeOK, GoogleTypeOK
<1>3. /\ EtagsCount' /\ PlannedAtFirst'
      /\ \A c \in Copy : OfThePlan(c) /\ Dated(c) =>
           /\ Dated(c)'
           /\ MeetsThePlan(c) => MeetsThePlan(c)'
           /\ c.op = Plan[c.e] /\ Accepts(c)' => Accepts(c)
  BY <1>2, GoogleKeeps DEF CopiesMeetThePlan
<1>4. \A c \in flight' : c \in flight \/ (c \in Copy /\ OfThePlan(c) /\ Dated(c) /\ c.e = 1 /\ c.op = "delete")
  BY OutOfThePlan DEF OutIsTheStep
<1>5. CopiesBehind'
  BY <1>1, <1>2, <1>3, <1>4 DEF CopiesBehind
<1>6. OutIsTheStep' /\ LooksAreCarries' /\ DoubtIsKept' /\ InsertAnswered'
  BY <1>1 DEF OutIsTheStep, LooksAreCarries, DoubtIsKept, InsertAnswered
<1>7. LaterUntouched' /\ TakenIsProved'
  <2>1. \A i \in Steps : i # 1 => (Landed(i)' <=> Landed(i))
    BY DEF Landed
  <2>2. Landable(2)' => Landable(2)
    BY <1>1, <1>2, <1>3, <1>4 DEF Landable, CopiesBehind
  <2> QED
    BY <1>1, <2>1, <2>2 DEF LaterUntouched, TakenIsProved
<1>8. Undoing' /\ TailStands'
  BY <1>1 DEF Undoing, TailStands, UndoPhases
<1>9. CopiesMeetThePlan'
  <2>1. \A x \in Pending' : x \in flight \/ (x.e = 1 /\ x.op = "delete")
    BY <1>1, <1>4 DEF Pending, CopyOf
  <2>2. \A x \in flight : MeetsThePlan(x)'
    BY <1>2, <1>3 DEF CopiesMeetThePlan, Pending, CopiesBehind
  <2>3. \A x : x.e = 1 /\ x.op = "delete" => MeetsThePlan(x)'
    BY <1>1 DEF MeetsThePlan, Watched
  <2> QED
    BY <1>1, <1>3, <2>1, <2>2, <2>3 DEF CopiesMeetThePlan
<1> QED
  BY <1>3, <1>5, <1>6, <1>7, <1>8, <1>9

(* The answer to the new series' delete. *)
LEMMA UndoAnswerSafe ==
  ASSUME IInv, TypeOK', phase \in {"undo", "undo_again"}, NEW a \in Answers,
         Attempt(a), OnUndoSend(a)
  PROVE  IInv'
<1>1. GoogleTypeOK /\ EtagsCount /\ out \in RequestType /\ OfThePlan(CopyOf(out)) /\ out.e = 1
  BY OutOfThePlan DEF IInv, TypeOK, OutIsTheStep
<1>2. /\ EtagsMove
      /\ flight' \subseteq flight \cup {CopyOf(out)}
      /\ UNCHANGED deleted
      /\ \A i \in Steps : i # 1 => ev'[i] = ev[i]
  BY <1>1, AttemptMoves
<1>3. at' = at /\ copies' = copies
  BY DEF OnUndoSend, Undone, RollbackUnknown, Looks, Over
<1>4. \/ phase' \in {"undo_look", "undo_look_again"} /\ outcome' = outcome
      \/ phase' = "over" /\ outcome' = "not_done"
  BY DEF OnUndoSend, Undone, RollbackUnknown, Looks, Over
<1> QED
  BY <1>2, <1>3, <1>4, UndoSafe DEF UndoPhases

(* The sender tries again. *)
LEMMA TriedAgainSafe ==
  ASSUME IInv, TypeOK', Sending, TriesAgain, UNCHANGED <<at, phase, copies, outcome>>
  PROVE  IInv'
<1> USE DEF IInv
<1>1. /\ ev' = ev /\ deleted' = deleted
      /\ flight' \subseteq flight \cup {CopyOf(out)}
      /\ out'.e = out.e /\ out'.op = out.op /\ out'.tag = out.tag
      /\ flight' = flight \/ out'.maybe
      /\ out.maybe => out'.maybe
  BY DEF TriesAgain, MayLand, TypeOK, RequestType, google
<1>2. /\ CopyOf(out) \in Copy /\ CopyOf(out).e = out.e /\ CopyOf(out).op = out.op
      /\ CopyOf(out).tag = out.tag
      /\ OfThePlan(CopyOf(out)) /\ Dated(CopyOf(out)) /\ out.e <= at
      /\ CopyOf(out') = CopyOf(out)
  BY <1>1, OutOfThePlan DEF Sending, CopyOf
<1>3. /\ EtagsCount' /\ PlannedAtFirst'
      /\ \A i \in Steps : Landed(i)' <=> Landed(i)
      /\ \A c : (Accepts(c)' <=> Accepts(c)) /\ (Dated(c)' <=> Dated(c)) /\ (MeetsThePlan(c)' <=> MeetsThePlan(c))
  BY <1>1 DEF EtagsCount, PlannedAtFirst, CopiesMeetThePlan, Landed, Accepts, Dated, MeetsThePlan
<1>4. TakenForNotDone' <=> TakenForNotDone
  BY DEF TakenForNotDone
<1>5. CopiesBehind'
  <2>1. /\ phase # "start"
        /\ out.op = "delete" /\ Plan[out.e] = "insert" => at = 2 /\ TakenForNotDone
        /\ out.e = at /\ out.op = Plan[at] /\ out.op \notin Inserts => out.tag \in copies.sentOn
    <3>1. CASE phase = "sent"
      BY <3>1 DEF OutIsTheStep
    <3>2. CASE phase = "restore"
      BY <3>2 DEF OutIsTheStep
    <3>3. CASE phase \in {"undo", "undo_again"}
      BY <3>3 DEF OutIsTheStep, Undoing, TakenForNotDone, UndoPhases
    <3> QED
      BY <3>1, <3>2, <3>3 DEF Sending
  <2> QED
    BY <1>1, <1>2, <1>3, <1>4, <2>1 DEF CopiesBehind
<1>6. OutIsTheStep' /\ LaterUntouched' /\ LooksAreCarries' /\ InsertAnswered' /\ Undoing' /\ TailStands'
  BY <1>1, <1>3, <1>4 DEF OutIsTheStep, LaterUntouched, LooksAreCarries, InsertAnswered, Undoing, TailStands
<1>7. \A i \in Steps : Landable(i)' => Landable(i) \/ (i = out.e /\ out'.maybe /\ out.op = Plan[i])
  BY <1>1, <1>2, <1>3 DEF Landable
<1>8. DoubtIsKept'
  <2>1. phase = "restore" => out.op # Plan[at]
    BY DEF OutIsTheStep
  <2>2. phase \in {"undo", "undo_again"} => ~Active
    BY DEF Active
  <2> QED
    BY <1>1, <1>3, <1>7, <2>1, <2>2 DEF DoubtIsKept, Doubt, Active, Sending
<1>9. TakenIsProved'
  <2>1. TakenForNotDone => out.e = 1 /\ at = 2
    BY DEF TakenForNotDone, Undoing, Sending, OutIsTheStep, UndoPhases
  <2> QED
    BY <1>3, <1>4, <1>7, <2>1 DEF TakenIsProved
<1>10. CopiesMeetThePlan'
  <2>1. \A x \in Pending' : x \in Pending
    BY <1>1, <1>2 DEF Pending, Sending
  <2> QED
    BY <1>1, <1>3, <2>1 DEF CopiesMeetThePlan, SentMeetsThePlan, Active
<1> QED
  BY <1>3, <1>5, <1>6, <1>8, <1>9, <1>10

(* A GET that shows the step not landed. *)
LEMMA NotLandedSafe ==
  ASSUME IInv, TypeOK', at \in Steps, phase \in {"check", "insert_look"}, UNCHANGED google,
         Verdict(Plan[at], ev[at]) = "no", NotLanded(copies, ev[at])
  PROVE  IInv'
<1> DEFINE c == copies
           e == ev[at]
<1>1. /\ TypeOK /\ outcome = "running" /\ c \in CopiesType /\ Plan[at] \in Kinds
      /\ e.etag \in Nat /\ ev' = ev /\ flight' = flight /\ deleted' = deleted
  BY PlanFacts DEF IInv, TypeOK, Undoing, GoogleTypeOK, Event, google
<1>2. Between(c.sentOn) /\ InDoubt(Doubt, c.answeredOk)
  BY <1>1, BetweenStays DEF Active
<1>3. Doubt = c.inDoubt
  BY <1>1 DEF Doubt, CopiesType
<1>4. /\ Plan[at] \in Inserts => Plan[at] = "create" /\ e.st = "cancelled"
      /\ Plan[at] \in {"delete", "cancel"} => e.st = "live"
      /\ Plan[at] \notin Inserts \cup {"delete", "cancel"} => ~Shown(e) \/ e.val = "old"
  BY <1>1, VerdictFacts
<1>5. ~Landed(at) /\ \A i \in Steps : i = at => ~Landed(i)'
  BY <1>1, <1>4 DEF Landed, Shown
<1>6. ASSUME e.etag \notin c.sentOn \/ ~Shown(e) \/ Plan[at] \in Inserts
      PROVE  ProvedNot
  <2> SUFFICES ASSUME NEW x \in flight', x.e = at, x.op = Plan[at], Accepts(x)' PROVE FALSE
    BY <1>5 DEF ProvedNot, Landable
  <2>1. x.op \in Inserts => e.st = "none"
    BY <1>1 DEF Accepts
  <2>2. x.op \notin Inserts => e.st = "live" /\ e.etag = x.tag /\ x.tag \in c.sentOn
    BY <1>1, <1>2 DEF Accepts, Between
  <2> QED
    BY <1>4, <1>6, <2>1, <2>2 DEF Shown
<1>7. \A w : ProvedNot /\ NotDone(c, w) => IInv'
  BY <1>1, <1>2, MoveNotDone
<1>8. Unknown(c) => IInv'
  BY <1>1, <1>2, MoveUnknown
<1>9. ASSUME Plan[at] \notin Inserts, ~c.answeredOk, e.etag \in c.sentOn,
             Sends([c EXCEPT !.resentOn = @ \cup {e.etag}], e.etag)
      PROVE  IInv'
  <2> DEFINE d == [c EXCEPT !.resentOn = c.resentOn \cup {e.etag}]
  <2>1. /\ d \in CopiesType /\ d.sentOn = c.sentOn
        /\ d.inDoubt = c.inDoubt /\ d.answeredOk = c.answeredOk
    BY <1>1 DEF CopiesType
  <2>2. Sends(d, e.etag)
    BY <1>9
  <2>3. Plan[at] \in Watched => AsPlanned(ev'[at])
    BY <1>1, <1>2, <1>9 DEF Between
  <2> HIDE DEF d
  <2> QED
    BY <1>1, <1>2, <1>3, <1>9, <2>1, <2>2, <2>3, MoveSends
<1>10. ASSUME Plan[at] \notin Inserts, e.etag \notin c.sentOn, Resend(Plan[at], e) = "proceed",
              Sends([c EXCEPT !.inDoubt = FALSE, !.answeredOk = FALSE, !.movedOn = TRUE], e.etag)
       PROVE  IInv'
  <2> DEFINE d == [c EXCEPT !.inDoubt = FALSE, !.answeredOk = FALSE, !.movedOn = TRUE]
  <2>1. /\ d \in CopiesType /\ d.sentOn = c.sentOn
        /\ d.inDoubt = FALSE /\ d.answeredOk = FALSE
    BY <1>1 DEF CopiesType
  <2>2. Sends(d, e.etag)
    BY <1>10
  <2>3. AsPlanned(ev'[at])
    BY <1>1, <1>10 DEF Resend, AsPlanned
  <2>4. ProvedNot
    BY <1>6, <1>10
  <2> HIDE DEF d
  <2>5. InDoubt(d.inDoubt, d.answeredOk)
    BY <2>4 DEF InDoubt, ProvedNot
  <2> QED
    BY <1>1, <1>2, <1>10, <2>1, <2>2, <2>3, <2>5, MoveSends
<1>11. ASSUME Plan[at] \notin Inserts, e.etag \notin c.sentOn, MovesOn(c, e) PROVE IInv'
  <2>1. ProvedNot
    BY <1>6, <1>11
  <2>2. StepEnds(c, "done", 0) => IInv'
    BY <1>1, <1>2, <1>11, MoveEnds
  <2> QED
    BY <1>7, <1>10, <1>11, <2>1, <2>2 DEF MovesOn
<1> QED
  BY <1>6, <1>7, <1>8, <1>9, <1>11 DEF NotLanded, Inserting

(* The machine's GETs. *)
LEMMA CheckSafe ==
  ASSUME IInv, TypeOK', Check
  PROVE  IInv'
<1> DEFINE c == copies
           e == ev[at]
<1>1. /\ TypeOK /\ at \in Steps /\ outcome = "running" /\ c \in CopiesType /\ Plan[at] \in Kinds
      /\ phase = "check" /\ UNCHANGED google
      /\ ev' = ev /\ flight' = flight /\ deleted' = deleted
  BY PlanFacts DEF Check, IInv, TypeOK, Undoing, google
<1>2. Between(c.sentOn) /\ InDoubt(Doubt, c.answeredOk)
  BY <1>1, BetweenStays DEF Active
<1>3. Doubt = c.inDoubt
  BY <1>1 DEF Doubt, CopiesType
<1>4. CASE Verdict(Plan[at], e) = "yes" /\ \E t \in ProofTags(e) : StepEnds(c, "done", t)
  <2>1. Plan[at] = "insert" => ev'[at].st = "live"
    BY <1>1, <1>4, VerdictFacts
  <2> QED
    BY <1>1, <1>2, <1>4, <2>1, MoveEnds
<1>5. CASE Verdict(Plan[at], e) = "no" /\ NotLanded(c, e)
  BY <1>1, <1>5, NotLandedSafe
<1>6. Unknown(c) => IInv'
  BY <1>1, <1>2, MoveUnknown
<1>7. CASE /\ Verdict(Plan[at], e) = "unknown"
           /\ Shown(e) /\ NoneCanLand(Plan[at], c, e)
           /\ LET r == Resend(Plan[at], e) IN
              \/ r = "conflict" /\ NotDone(c, "conflict")
              \/ r = "gone" /\ GoneIsDone(Plan[at]) /\ StepEnds(c, "done", 0)
              \/ r = "gone" /\ ~GoneIsDone(Plan[at]) /\ NotDone(c, "gone")
              \/ r = "proceed" /\ Unknown(c)
  <2>1. Plan[at] \notin Inserts \cup {"delete", "cancel"} /\ e.val # "new" /\ e.etag \notin c.sentOn
    BY <1>1, <1>7, VerdictFacts DEF NoneCanLand, NeverResent
  <2>2. ProvedNot
    <3>1. \A i \in Steps : i = at => ~Landed(i)'
      BY <1>1, <2>1 DEF Landed
    <3>2. ASSUME NEW x \in flight', x.e = at, x.op = Plan[at], Accepts(x)' PROVE FALSE
      BY <1>1, <1>2, <2>1, <3>2 DEF Accepts, Between
    <3> QED
      BY <3>1, <3>2 DEF ProvedNot, Landable
  <2>3. \A w : NotDone(c, w) => IInv'
    BY <1>1, <1>2, <2>2, MoveNotDone
  <2> QED
    BY <1>6, <1>7, <2>1, <2>3 DEF GoneIsDone
<1>8. CASE /\ Plan[at] = "retime" /\ e.val = "half"
           /\ phase' = "restore"
           /\ out' = Request(at, "restore", e.etag)
           /\ UNCHANGED <<at, ends, tag, copies, why, rollback, outcome>>
  <2>1. out'.e = at /\ out'.op = "restore" /\ out'.tag = e.etag /\ e.etag \in Nat
    BY <1>1, <1>8 DEF Request, TypeOK, GoogleTypeOK, Event
  <2> USE DEF IInv
  <2>2. EtagsCount' /\ PlannedAtFirst'
    BY <1>2 DEF Between
  <2>3. CopiesBehind'
    BY <1>8, <1>2 DEF CopiesBehind, Between
  <2>4. OutIsTheStep' /\ LooksAreCarries' /\ InsertAnswered'
    BY <1>1, <1>8, <2>1 DEF OutIsTheStep, LooksAreCarries, InsertAnswered
  <2>5. LaterUntouched'
    BY <1>2, <1>8 DEF LaterUntouched, Between
  <2>6. DoubtIsKept'
    BY <1>2, <1>3, <1>8 DEF DoubtIsKept, Doubt, InDoubt
  <2>7. Undoing' /\ TakenIsProved'
    BY <1>1, <1>8 DEF Undoing, TakenIsProved, TakenForNotDone, UndoPhases
  <2>8. TailStands'
    BY <1>2, <1>8 DEF TailStands, Between
  <2>9. CopiesMeetThePlan'
    <3>1. \A x \in Pending' : x \in flight' \/ x = CopyOf(out')
      BY DEF Pending, CopyOf
    <3>2. ASSUME NEW x, x = CopyOf(out') PROVE MeetsThePlan(x)'
      <4>1. x.e = at /\ x.op = "restore"
        BY <2>1, <3>2 DEF CopyOf
      <4> QED
        BY <1>1, <1>8, <4>1 DEF MeetsThePlan
    <3>3. SentMeetsThePlan(copies.sentOn)'
      BY <1>2, <1>8 DEF SentMeetsThePlan, Between
    <3> QED
      BY <1>2, <2>2, <3>1, <3>2, <3>3 DEF CopiesMeetThePlan, Between
  <2> QED
    BY <2>2, <2>3, <2>4, <2>5, <2>6, <2>7, <2>8, <2>9
<1>9. CASE ~Shown(e) /\ Inserting(Plan[at]) /\ Looks("insert_look", c)
  <2>1. c.answeredOk => ev'[at].st = "purged"
    <3>1. e.st \in Status
      BY <1>1 DEF TypeOK, GoogleTypeOK, Event
    <3>2. c.answeredOk => e.st # "none"
      BY <1>1, <1>9 DEF IInv, InsertAnswered, Inserting
    <3> QED
      BY <1>1, <1>9, <3>1, <3>2 DEF Shown, Status
  <2> QED
    BY <1>1, <1>2, <1>3, <1>9, <2>1, MoveLooks DEF Inserting
<1> QED
  BY <1>4, <1>5, <1>6, <1>7, <1>8, <1>9 DEF Check

LEMMA InsertLookSafe ==
  ASSUME IInv, TypeOK', InsertLook
  PROVE  IInv'
<1> DEFINE c == copies
           e == ev[at]
<1>1. /\ TypeOK /\ at \in Steps /\ outcome = "running" /\ c \in CopiesType /\ Plan[at] \in Kinds
      /\ phase = "insert_look" /\ UNCHANGED google /\ ev' = ev
      /\ Plan[at] \in Inserts /\ (c.answeredOk => e.st = "purged")
  BY PlanFacts DEF InsertLook, IInv, TypeOK, Undoing, google, InsertAnswered
<1>2. Between(c.sentOn) /\ InDoubt(Doubt, c.answeredOk)
  BY <1>1, BetweenStays DEF Active
<1>3. Doubt = c.inDoubt
  BY <1>1 DEF Doubt, CopiesType
<1>4. CASE Sends([c EXCEPT !.reposted = TRUE], c.last)
  <2> DEFINE d == [c EXCEPT !.reposted = TRUE]
  <2>1. /\ d \in CopiesType /\ d.sentOn = c.sentOn
        /\ d.inDoubt = c.inDoubt /\ d.answeredOk = c.answeredOk /\ c.last \in Nat
    BY <1>1 DEF CopiesType
  <2>2. Sends(d, c.last)
    BY <1>4
  <2> HIDE DEF d
  <2> QED
    BY <1>1, <1>2, <1>3, <2>1, <2>2, MoveSends DEF Watched
<1>5. CASE Verdict(Plan[at], e) = "yes" /\ \E t \in ProofTags(e) : StepEnds(c, "done", t)
  <2>1. ev'[at].st = "live"
    BY <1>1, <1>5, VerdictFacts
  <2> QED
    BY <1>1, <1>2, <1>5, <2>1, MoveEnds
<1>6. CASE Verdict(Plan[at], e) = "no" /\ NotLanded(c, e)
  BY <1>1, <1>6, NotLandedSafe
<1>7. CASE Unknown(c)
  BY <1>1, <1>2, <1>7, MoveUnknown
<1> QED
  BY <1>4, <1>5, <1>6, <1>7 DEF InsertLook

(* A carry's look for its occurrence. *)
LEMMA LooksSafe ==
  ASSUME IInv, TypeOK', phase \in LookPhases, UNCHANGED google,
         NextLook \/ (ev[at].st = "live" /\ Sends(copies, ev[at].etag))
  PROVE  IInv'
<1>1. /\ TypeOK /\ at \in Steps /\ outcome = "running" /\ copies \in CopiesType
      /\ Plan[at] = "carry" /\ ~copies.answeredOk /\ ev' = ev /\ ev[at].etag \in Nat
  BY DEF IInv, TypeOK, Undoing, LooksAreCarries, google, GoogleTypeOK, Event
<1>2. Between(copies.sentOn) /\ InDoubt(Doubt, copies.answeredOk)
  BY <1>1, BetweenStays DEF Active
<1>3. Doubt = copies.inDoubt
  BY <1>1 DEF Doubt, CopiesType
<1>4. CASE Sends(copies, ev[at].etag)
  BY <1>1, <1>2, <1>3, <1>4, MoveSends DEF Watched
<1>5. CASE NextLook
  <2>1. \A p \in LookPhases : Looks(p, copies) => IInv'
    BY <1>1, <1>2, <1>3, MoveLooks
  <2>2. StepEnds(copies, "skipped", 0) => IInv'
    BY <1>1, <1>2, MoveEnds
  <2> QED
    BY <1>5, <2>1, <2>2 DEF NextLook
<1> QED
  BY <1>4, <1>5

(* The rollback's looks. *)
LEMMA UndoLookSafe ==
  ASSUME IInv, TypeOK', phase \in {"undo_look", "undo_look_again"}, UNCHANGED google,
         \/ Undone
         \/ RollbackUnknown
         \/ /\ phase' = "undo_again"
            /\ out' = Request(1, "delete", ev[1].etag)
            /\ UNCHANGED <<at, ends, tag, copies, why, rollback, outcome>>
  PROVE  IInv'
<1>1. ev' = ev /\ flight' = flight /\ deleted' = deleted /\ EtagsMove
  BY DEF google, EtagsMove
<1>2. at' = at /\ copies' = copies
  BY DEF Undone, RollbackUnknown, Over
<1>3. \/ phase' \in UndoPhases /\ outcome' = outcome
      \/ phase' = "over" /\ outcome' = "not_done"
  BY DEF Undone, RollbackUnknown, Over, UndoPhases
<1>4. phase' \in {"undo", "undo_again"} => out'.e = 1 /\ out'.op = "delete"
  BY DEF Undone, RollbackUnknown, Over, Request
<1> QED
  BY <1>1, <1>2, <1>3, <1>4, UndoSafe DEF UndoPhases

LEMMA CheckUnansweredSafe ==
  ASSUME IInv, TypeOK', CheckUnanswered
  PROVE  IInv'
<1>1. CASE phase \in {"check", "insert_look"} /\ Unknown(copies) /\ UNCHANGED google
  <2>1. TypeOK /\ at \in Steps /\ outcome = "running" /\ copies \in CopiesType
    BY <1>1 DEF IInv, TypeOK, Undoing
  <2>2. Between(copies.sentOn)
    BY <1>1, <2>1, BetweenStays DEF Active
  <2> QED
    BY <1>1, <2>1, <2>2, MoveUnknown
<1>2. CASE phase \in {"undo_look", "undo_look_again"} /\ RollbackUnknown /\ UNCHANGED google
  BY <1>2, UndoLookSafe
<1> QED
  BY <1>1, <1>2 DEF CheckUnanswered

LEMMA StartSafe ==
  ASSUME IInv, TypeOK', Start
  PROVE  IInv'
<1> DEFINE fresh == [NoCopies EXCEPT !.inDoubt = Retry, !.reposted = Retry]
<1>1. /\ TypeOK /\ at \in Steps /\ outcome = "running" /\ phase = "start" /\ UNCHANGED google
      /\ ev' = ev /\ flight' = flight /\ deleted' = deleted /\ ev[at] \in Event
      /\ Plan[at] \in Kinds
  BY PlanFacts DEF Start, IInv, TypeOK, Undoing, google, GoogleTypeOK
<1>2. Between({})
  BY <1>1, BetweenStays
<1>3. /\ fresh \in CopiesType /\ fresh.sentOn = {}
      /\ fresh.inDoubt = Retry /\ fresh.answeredOk = FALSE
  BY RetryAssumption DEF NoCopies, CopiesType
<1>4. InDoubt(Retry, FALSE)
  <2>1. ~Retry => ~Landed(at)
    BY <1>1 DEF IInv, LaterUntouched
  <2>2. ~Retry => \A x \in flight : x.e # at
    BY <1>1 DEF IInv, CopiesBehind
  <2> QED
    BY <1>1, <2>1, <2>2 DEF InDoubt, Landed, Landable
<1> HIDE DEF fresh
<1>5. CASE \E j \in Requires(at) : StepEnds(copies, "skipped", 0)
  <2>1. Plan[at] # "insert"
    BY <1>5 DEF Requires
  <2> QED
    BY <1>1, <1>2, <1>5, <2>1, MoveEnds
<1>6. CASE Plan[at] = "carry" /\ Looks("look1", fresh)
  BY <1>1, <1>2, <1>3, <1>4, <1>6, MoveLooks
<1>7. CASE Plan[at] # "carry" /\ Sends(fresh, IF Inserting(Plan[at]) THEN 0 ELSE 1)
  <2> DEFINE t == IF Inserting(Plan[at]) THEN 0 ELSE 1
  <2>1. t \in Nat /\ (Plan[at] \notin Inserts => t = 1)
    BY DEF Inserting
  <2>2. Plan[at] \notin Inserts => ev[at].etag # 0 /\ ev[at].etag \in Nat
    BY <1>1, <1>7 DEF IInv, EtagsCount, Event
  <2>3. Plan[at] \notin Inserts => t <= ev'[at].etag
    BY <1>1, <2>1, <2>2
  <2>4. Plan[at] \in Watched /\ t = ev'[at].etag => AsPlanned(ev'[at])
    BY <1>1, <1>2, <2>1 DEF Between, PlannedAtFirst, Watched
  <2>5. Sends(fresh, t)
    BY <1>7
  <2> HIDE DEF t
  <2> QED
    BY <1>1, <1>2, <1>3, <1>4, <2>1, <2>3, <2>4, <2>5, MoveSends
<1> QED
  BY <1>5, <1>6, <1>7 DEF Start, fresh

LEMMA FinishSafe ==
  ASSUME IInv, TypeOK', Finish
  PROVE  IInv'
<1> USE DEF IInv
<1>1. /\ at \in Nat /\ at \notin Steps /\ phase = "start" /\ at' = at /\ copies' = copies
      /\ phase' = "over" /\ outcome' = "done" /\ outcome = "running"
      /\ ev' = ev /\ flight' = flight /\ deleted' = deleted
  BY DEF Finish, Over, google, TypeOK, Undoing
<1>2. ~TakenForNotDone /\ ~TakenForNotDone' /\ ~Active'
  BY <1>1 DEF TakenForNotDone, UndoPhases, Active
<1>3. EtagsCount' /\ PlannedAtFirst'
  BY <1>1 DEF EtagsCount, PlannedAtFirst, CopiesMeetThePlan
<1>4. CopiesBehind'
  BY <1>1, <1>2 DEF CopiesBehind, Dated
<1>5. OutIsTheStep' /\ LooksAreCarries' /\ DoubtIsKept' /\ InsertAnswered' /\ Undoing' /\ TakenIsProved'
  BY <1>1, <1>2 DEF OutIsTheStep, LooksAreCarries, DoubtIsKept, InsertAnswered, Undoing, TakenIsProved, UndoPhases
<1>6. LaterUntouched'
  BY <1>1 DEF LaterUntouched, Landed
<1>7. TailStands'
  BY <1>1, <1>2 DEF TailStands
<1>8. CopiesMeetThePlan'
  BY <1>1, <1>2, <1>3 DEF CopiesMeetThePlan, Pending, MeetsThePlan, Accepts
<1> QED
  BY <1>3, <1>4, <1>5, <1>6, <1>7, <1>8

-----------------------------------------------------------------------------
LEMMA InitSafe == Init => IInv
<1> SUFFICES ASSUME Init PROVE IInv
  OBVIOUS
<1>1. TypeOK
  BY InitType
<1>2. /\ at = 1 /\ phase = "start" /\ outcome = "running" /\ deleted = {}
      /\ flight \in {{}} \cup {f \in {{[e |-> 1, op |-> "create", tag |-> 0]}} : Retry}
  BY DEF Init, GoogleInit
<1>3. \A i \in Steps : /\ ev[i].val = "old" /\ ev[i].rest = "same"
                       /\ IF Plan[i] \in Inserts \cup {"carry"} THEN ev[i].st = "none" /\ ev[i].etag = 0
                                                            ELSE ev[i].st = "live" /\ ev[i].etag = 1
  BY DEF Init, GoogleInit, Fresh
<1>4. \A c \in flight : Retry /\ c.e = 1 /\ c.op = "create" /\ c.op = Plan[c.e]
  BY <1>2, PlanShape
<1>5. EtagsCount /\ PlannedAtFirst
  BY <1>3 DEF EtagsCount, PlannedAtFirst, AsPlanned
<1>6. CopiesBehind
  BY <1>2, <1>4 DEF CopiesBehind, OfThePlan, Dated
<1>7. OutIsTheStep /\ LooksAreCarries /\ DoubtIsKept /\ InsertAnswered /\ Undoing /\ TakenIsProved
  BY <1>2 DEF OutIsTheStep, LooksAreCarries, DoubtIsKept, InsertAnswered, Undoing, TakenIsProved,
              TakenForNotDone, UndoPhases, Active
<1>8. LaterUntouched
  BY <1>3 DEF LaterUntouched, Landed
<1>9. TailStands
  BY <1>2 DEF TailStands
<1>10. CopiesMeetThePlan
  BY <1>2, <1>4, <1>5 DEF CopiesMeetThePlan, Pending, MeetsThePlan, Active, Watched
<1> QED
  BY <1>1, <1>5, <1>6, <1>7, <1>8, <1>9, <1>10 DEF IInv

LEMMA StutterSafe ==
  ASSUME IInv, UNCHANGED vars
  PROVE  IInv'
<1>1. UNCHANGED <<ev, flight, edits, deleted, at, phase, ends, tag, copies, out, why, rollback, outcome, count>>
  BY DEF vars, google, machine
<1> QED
  BY <1>1 DEF IInv, TypeOK, GoogleTypeOK, EtagsCount, CopiesBehind, OutIsTheStep, LaterUntouched,
       LooksAreCarries, DoubtIsKept, Doubt, InsertAnswered, Undoing, TakenIsProved, TailStands,
       CopiesMeetThePlan, PlannedAtFirst, Pending, MeetsThePlan, SentMeetsThePlan, Accepts,
       Landed, Landable, Active, TakenForNotDone, Dated

LEMMA IInvStep == IInv /\ [Next]_vars => IInv'
<1> SUFFICES ASSUME IInv, [Next]_vars PROVE IInv'
  OBVIOUS
<1>t. TypeOK'
  BY TypeStep DEF IInv
<1>1. CASE Start
  BY <1>1, <1>t, StartSafe
<1>2. CASE Finish
  BY <1>2, <1>t, FinishSafe
<1>3. CASE WriteAnswered
  <2>1. PICK a \in Answers : Attempt(a) /\ Hears(a)
    BY <1>3 DEF WriteAnswered
  <2>2. CASE phase = "sent" /\ OnWrite(a)
    BY <2>1, <2>2, <1>t, WriteSafe
  <2>3. CASE phase = "restore" /\ OnRestore(a)
    BY <2>1, <2>3, <1>t, RestoreSafe
  <2>4. CASE phase \in {"undo", "undo_again"} /\ OnUndoSend(a)
    BY <2>1, <2>4, <1>t, UndoAnswerSafe
  <2> QED
    BY <2>1, <2>2, <2>3, <2>4 DEF Hears
<1>4. CASE WriteTriedAgain
  BY <1>4, <1>t, TriedAgainSafe DEF WriteTriedAgain
<1>5. CASE Look
  BY <1>5, <1>t, LooksSafe DEF Look
<1>6. CASE LookUnanswered
  BY <1>6, <1>t, LooksSafe DEF LookUnanswered
<1>7. CASE Check
  BY <1>7, <1>t, CheckSafe
<1>8. CASE InsertLook
  BY <1>8, <1>t, InsertLookSafe
<1>9. CASE UndoLook
  BY <1>9, <1>t, UndoLookSafe DEF UndoLook
<1>10. CASE CheckUnanswered
  BY <1>10, <1>t, CheckUnansweredSafe
<1>11. CASE Others
  BY <1>11, <1>t, WorldSafe DEF Others
<1>12. CASE UNCHANGED vars
  BY <1>12, StutterSafe
<1> QED
  BY <1>1, <1>2, <1>3, <1>4, <1>5, <1>6, <1>7, <1>8, <1>9, <1>10, <1>11, <1>12 DEF Next, Machine

(* The invariant holds of every reachable state: the copies that may land   *)
(* are behind the run, what it can't see it holds in doubt, and what it     *)
(* takes for not done is proved (run.rs, Run).                              *)
THEOREM Safe == Spec => []IInv
BY InitSafe, IInvStep, PTL DEF Spec

-----------------------------------------------------------------------------
(* What the inductive invariant gives: the properties the runs check, for   *)
(* every plan, and the promise of "this and following".                     *)

(* A step PM reports not done is not in Google, and no copy of it can come  *)
(* to be (run.rs, read_write and not_landed).                               *)
THEOREM NotDoneProved == Spec => []NotDoneIsProof
<1>1. IInv => NotDoneIsProof
  BY DEF IInv, TakenIsProved, NotDoneIsProof
<1> QED
  BY <1>1, Safe, PTL

LEMMA TailDeletesProved == IInv => TailDeletedOnProof
<1> SUFFICES ASSUME IInv, NEW c \in TailDeletes PROVE at = 2 /\ ~Landed(2) /\ ~Landable(2)
  BY DEF TailDeletedOnProof
<1>1. CASE c \in flight /\ c.op = "delete" /\ Plan[c.e] = "insert"
  BY <1>1 DEF IInv, CopiesBehind, TakenIsProved
<1>2. CASE phase \in {"undo", "undo_again"}
  BY <1>2 DEF IInv, Undoing, UndoPhases, TakenIsProved, TakenForNotDone
<1> QED
  BY <1>1, <1>2 DEF TailDeletes

(* The rollback deletes the new series only while the cut is not in Google  *)
(* and cannot come to be (run.rs, Run::apply).                              *)
THEOREM TailDeletesSafe == Spec => []TailDeletedOnProof
BY TailDeletesProved, Safe, PTL

LEMMA NeverMissingHolds == IInv => NeverMissing
<1> SUFFICES ASSUME IInv, Splits, 1 \notin deleted, Landed(2) PROVE ev[1].st = "live"
  BY DEF NeverMissing
<1>1. 1 \in Steps /\ 2 \in Steps /\ at \in Nat
  BY PlanFacts DEF Splits, IInv, TypeOK
<1>2. at >= 2
  BY <1>1 DEF IInv, LaterUntouched
<1>3. ~TakenForNotDone
  <2> SUFFICES ASSUME TakenForNotDone PROVE at = 2
    BY DEF IInv, TakenIsProved
  <2>1. at \in Steps /\ ~Cleanup(at)
    BY DEF IInv, TakenIsProved
  <2> QED
    BY <1>2, <2>1, PlanShape
<1> QED
  BY <1>2, <1>3 DEF IInv, TailStands

(* While no other client deletes the new series, the original is never cut  *)
(* without the new series there (plan.rs: "never missing occurrences").     *)
THEOREM NeverMissingSafe == Spec => []NeverMissing
BY NeverMissingHolds, Safe, PTL

-----------------------------------------------------------------------------
(* Who writes: a copy of PM's, another client, or nobody. *)
LEMMA StepWrites ==
  ASSUME IInv, [Next]_vars
  PROVE  \/ UNCHANGED <<ev, deleted>>
         \/ /\ UNCHANGED deleted
            /\ \E c \in Pending :
                 /\ c \in Copy /\ OfThePlan(c) /\ Accepts(c)
                 /\ \E f \in Effects(c.op, ev[c.e]) : ev' = [ev EXCEPT ![c.e] = f]
         \/ \E i \in Steps : OtherEdits(i) \/ OtherDeletes(i) \/ Purge(i) \/ Appear(i)
<1>1. CASE UNCHANGED google
  BY <1>1 DEF google
<1>2. CASE WriteAnswered
  <2>1. PICK a \in Answers : Attempt(a)
    BY <1>2 DEF WriteAnswered
  <2>2. phase \in WritePhases
    BY <1>2 DEF WriteAnswered, Sending
  <2>3. CASE Taken(a)
    <3>1. /\ CopyOf(out) \in Copy /\ OfThePlan(CopyOf(out)) /\ CopyOf(out) \in Pending
          /\ CopyOf(out).e = out.e /\ CopyOf(out).op = out.op /\ CopyOf(out).tag = out.tag
      BY <2>2, OutOfThePlan DEF Pending
    <3> QED
      BY <2>3, <3>1 DEF Taken, Accepts
  <2>4. CASE ~Taken(a)
    BY <2>1, <2>4 DEF Attempt, NeverSent, LostAnswer, ServerError, Refused, Unreadable, NoCalendar,
                      Rejected, MayLand, google
  <2> QED
    BY <2>3, <2>4
<1>3. CASE WriteTriedAgain
  BY <1>3 DEF WriteTriedAgain, TriesAgain, MayLand, google
<1>4. CASE Others
  <2>1. ASSUME NEW c \in flight, Land(c)
        PROVE  /\ UNCHANGED deleted
               /\ c \in Pending /\ c \in Copy /\ OfThePlan(c) /\ Accepts(c)
               /\ \E f \in Effects(c.op, ev[c.e]) : ev' = [ev EXCEPT ![c.e] = f]
    BY <2>1 DEF Land, Pending, IInv, TypeOK, GoogleTypeOK, CopiesBehind
  <2> QED
    BY <1>4, <2>1 DEF Others, World
<1>5. CASE Start \/ Finish \/ Look \/ LookUnanswered \/ Check \/ InsertLook \/ UndoLook \/ CheckUnanswered
  BY <1>1, <1>5 DEF Start, Finish, Look, LookUnanswered, Check, InsertLook, UndoLook, CheckUnanswered
<1>6. CASE UNCHANGED vars
  BY <1>1, <1>6 DEF vars
<1> QED
  BY <1>2, <1>3, <1>4, <1>5, <1>6 DEF Next, Machine

LEMMA OverwritesNothingStep ==
  ASSUME IInv, [Next]_vars, NEW i \in Steps, OwnChange(i)
  PROVE  AsPlanned(ev[i])
<1>1. /\ Plan[i] \in Watched /\ edits' = edits /\ ev[i].st = "live" /\ ev'[i].etag # ev[i].etag
      /\ ev'[i].val = "new" \/ ev'[i].st = "cancelled"
  BY DEF OwnChange, Watched
<1>2. GoogleTypeOK /\ EtagsCount /\ edits \in Nat /\ ev[i] \in Event
  BY BoundsAssumption DEF IInv, TypeOK, GoogleTypeOK
<1>3. ~ UNCHANGED ev
  BY <1>1
<1>4. ASSUME NEW j \in Steps, OtherEdits(j) \/ OtherDeletes(j) \/ Purge(j) \/ Appear(j)
      PROVE  FALSE
  <2>1. ~OtherEdits(j) /\ ~OtherDeletes(j)
    <3> SUFFICES ASSUME OtherEdits(j) \/ OtherDeletes(j) PROVE FALSE
      OBVIOUS
    <3>1. edits' = edits + 1
      BY DEF OtherEdits, OtherDeletes
    <3> QED
      BY <1>1, <1>2, <3>1
  <2>2. ~Purge(j)
    <3> SUFFICES ASSUME Purge(j) PROVE FALSE
      OBVIOUS
    <3> DEFINE f == [ev[j] EXCEPT !.st = "purged"]
    <3>1. f.etag = ev[j].etag
      BY <1>2 DEF GoogleTypeOK, Event
    <3> HIDE DEF f
    <3>2. ev' = [ev EXCEPT ![j] = f]
      BY DEF Purge, f
    <3>3. ev \in [Steps -> Event]
      BY <1>2 DEF GoogleTypeOK
    <3> QED
      BY <1>1, <3>1, <3>2, <3>3
  <2>3. ~Appear(j)
    BY <1>1, <1>2 DEF Appear, GoogleTypeOK, Watched
  <2> QED
    BY <1>4, <2>1, <2>2, <2>3
<1>5. PICK c \in Pending :
        /\ c \in Copy /\ OfThePlan(c) /\ Accepts(c)
        /\ \E f \in Effects(c.op, ev[c.e]) : ev' = [ev EXCEPT ![c.e] = f]
  BY <1>3, <1>4, StepWrites
<1>6. PICK f \in Effects(c.op, ev[c.e]) : ev' = [ev EXCEPT ![c.e] = f]
  BY <1>5
<1>7. /\ \A k \in Steps : k # c.e => ev'[k] = ev[k]
      /\ ev'[c.e] = f
      /\ f.st = "cancelled" => c.op \in {"cancel", "delete"}
      /\ c.op = "restore" => f.val \in {"old", ev[c.e].val}
  BY <1>2, <1>5, <1>6, WriteMoves
<1>8. c.e = i /\ MeetsThePlan(c)
  BY <1>1, <1>5, <1>7 DEF IInv, CopiesMeetThePlan
<1>9. c.op = Plan[i]
  <2> SUFFICES ASSUME c.op = "restore" PROVE FALSE
    BY <1>1, <1>5, <1>8 DEF OfThePlan, Watched
  <2> QED
    BY <1>1, <1>5, <1>7, <1>8 DEF MeetsThePlan
<1> QED
  BY <1>1, <1>5, <1>8, <1>9 DEF MeetsThePlan

(* PM's own change lands only on what the plan was made on, whatever copy   *)
(* lands and whenever (plan.rs, Recheck::Unchanged; the If-Match of every   *)
(* write).                                                                  *)
THEOREM NothingOverwrittenSafe == Spec => NothingOverwritten
<1>1. IInv /\ [Next]_vars => [\A i \in Steps : OverwritesNothing(i)]_vars
  BY OverwritesNothingStep DEF OverwritesNothing, AsPlanned
<1> QED
  BY <1>1, Safe, PTL DEF Spec, NothingOverwritten
-----------------------------------------------------------------------------
(* The promise.  No client but PM deletes what only PM may delete. *)
LEMMA DeletedIsDeletable ==
  /\ Init => deleted \subseteq Deletable
  /\ IInv /\ deleted \subseteq Deletable /\ [Next]_vars => (deleted \subseteq Deletable)'
<1>1. Init => deleted \subseteq Deletable
  BY DEF Init, GoogleInit
<1>2. ASSUME IInv, deleted \subseteq Deletable, [Next]_vars
      PROVE  (deleted \subseteq Deletable)'
  <2>1. ASSUME NEW i \in Steps, OtherEdits(i) \/ OtherDeletes(i) \/ Purge(i) \/ Appear(i)
        PROVE  deleted' = deleted \/ (i \in Deletable /\ deleted' = deleted \cup {i})
    BY <2>1 DEF OtherEdits, OtherDeletes, Purge, Appear
  <2> QED
    BY <1>2, <2>1, StepWrites
<1> QED
  BY <1>1, <1>2

(* One write of the whole run: who makes it decides what it can do to the   *)
(* two series.                                                              *)
LEMMA OneEventMoves ==
  ASSUME IInv, [Next]_vars, ev' # ev
  PROVE  \E i \in Steps :
           /\ \A k \in Steps : k # i => ev'[k] = ev[k]
           /\ ev[i].st = "live" /\ ev'[i].st # "live" =>
                \/ i \in Deletable
                \/ \E c \in Pending : c.e = i /\ OfThePlan(c) /\ c.op \in {"cancel", "delete"}
<1>t. GoogleTypeOK /\ EtagsCount
  BY DEF IInv, TypeOK, GoogleTypeOK
<1>1. ASSUME NEW i \in Steps, OtherEdits(i) \/ OtherDeletes(i) \/ Purge(i) \/ Appear(i)
      PROVE  /\ \A k \in Steps : k # i => ev'[k] = ev[k]
             /\ ev[i].st = "live" /\ ev'[i].st # "live" => i \in Deletable
  <2>1. PICK f : ev' = [ev EXCEPT ![i] = f]
    BY <1>1 DEF OtherEdits, OtherDeletes, Purge, Appear
  <2>2. \A k \in Steps : k # i => ev'[k] = ev[k]
    BY <1>t, <2>1 DEF GoogleTypeOK
  <2>3. ASSUME OtherEdits(i) PROVE ev'[i].st = "live"
    <3>1. PICK v, r : ev' = [ev EXCEPT ![i] = [Moved(ev[i]) EXCEPT !.val = v, !.rest = r]]
      BY <2>3 DEF OtherEdits
    <3> DEFINE m == Moved(ev[i])
    <3>2. m \in Event /\ m.st = ev[i].st
      BY <1>t DEF Moved, Event, GoogleTypeOK
    <3> HIDE DEF m
    <3> DEFINE g == [m EXCEPT !.val = v, !.rest = r]
    <3>3. g.st = m.st
      BY <3>2 DEF Event
    <3>4. ev' = [ev EXCEPT ![i] = g]
      BY <3>1 DEF m
    <3> HIDE DEF g
    <3>5. ev'[i] = g
      BY <1>t, <3>4 DEF GoogleTypeOK
    <3> QED
      BY <2>3, <3>2, <3>3, <3>5 DEF OtherEdits
  <2>4. ASSUME Appear(i) PROVE ev[i].st # "live"
    BY <2>4 DEF Appear
  <2> QED
    BY <1>1, <2>2, <2>3, <2>4 DEF OtherDeletes, Purge
<1>2. CASE \E c \in Pending :
             /\ c \in Copy /\ OfThePlan(c) /\ Accepts(c)
             /\ \E f \in Effects(c.op, ev[c.e]) : ev' = [ev EXCEPT ![c.e] = f]
  <2>1. PICK c \in Pending :
             /\ c \in Copy /\ OfThePlan(c) /\ Accepts(c)
             /\ \E f \in Effects(c.op, ev[c.e]) : ev' = [ev EXCEPT ![c.e] = f]
    BY <1>2
  <2>2. PICK f \in Effects(c.op, ev[c.e]) : ev' = [ev EXCEPT ![c.e] = f]
    BY <2>1
  <2>3. /\ ev'[c.e] = f
        /\ \A k \in Steps : k # c.e => ev'[k] = ev[k]
        /\ f.st \in {"live", "cancelled"}
        /\ f.st = "cancelled" => c.op \in {"cancel", "delete"}
    BY <1>t, <2>1, <2>2, WriteMoves
  <2>4. c.e \in Steps
    BY <2>1 DEF Copy
  <2> QED
    BY <2>1, <2>3, <2>4
<1> QED
  BY <1>1, <1>2, StepWrites

LEMMA PromiseStep ==
  ASSUME Splits, 1 \notin Deletable, IInv, NeverMissing, NeverMissing', (deleted \subseteq Deletable)',
         deleted \subseteq Deletable, [Next]_vars
  PROVE  [Promise!Next]_(Promise!shown)
<1> DEFINE original == ~(ev[2].st = "live" /\ ev[2].val = "new")
           tail == ev[1].st = "live"
<1> SUFFICES ASSUME ev' # ev
             PROVE  \/ original /\ ~tail /\ tail' /\ original'
                    \/ original /\ tail /\ ~original' /\ tail'
                    \/ original /\ tail /\ ~tail' /\ original'
                    \/ ~original /\ original' /\ (tail' <=> tail)
                    \/ (original' <=> original) /\ (tail' <=> tail)
  BY DEF Promise!Next, Promise!shown, Promise!Insert, Promise!Cut, Promise!Undo, Promise!PutBack
<1>1. 1 \in Steps /\ 2 \in Steps /\ Plan[1] = "insert" /\ Plan[2] = "cut"
  BY PlanFacts DEF Splits
<1>2. (original <=> ~Landed(2)) /\ (original' <=> ~Landed(2)')
  BY <1>1 DEF Landed
<1>3. (original \/ tail) /\ (original' \/ tail')
  <2>1. 1 \notin deleted /\ 1 \notin deleted'
    OBVIOUS
  <2> QED
    BY <1>2, <2>1 DEF NeverMissing
<1>4. PICK i \in Steps :
           /\ \A k \in Steps : k # i => ev'[k] = ev[k]
           /\ ev[i].st = "live" /\ ev'[i].st # "live" =>
                \/ i \in Deletable
                \/ \E c \in Pending : c.e = i /\ OfThePlan(c) /\ c.op \in {"cancel", "delete"}
  BY OneEventMoves
<1>5. i # 1 => (tail' <=> tail)
  BY <1>1, <1>4
<1>6. i # 2 => (original' <=> original)
  BY <1>1, <1>4
<1>7. ASSUME i = 1, tail, ~tail' PROVE original
  <2>1. PICK c \in Pending : c.e = 1 /\ OfThePlan(c) /\ c.op = "delete"
    BY <1>1, <1>4, <1>7 DEF OfThePlan
  <2>2. c \in TailDeletes
    BY <1>1, <2>1 DEF Pending, TailDeletes, IInv, OutIsTheStep, CopyOf, Undoing
  <2> QED
    BY <1>2, <2>2, TailDeletesProved DEF TailDeletedOnProof
<1> QED
  BY <1>3, <1>5, <1>6, <1>7

(* The run implements the promise of "this and following", for every split  *)
(* whose new series no other client deletes.                                *)
THEOREM ImplementsPromise ==
  ASSUME Splits, 1 \notin Deletable
  PROVE  Spec => PromiseKept
<1>1. Init => Promise!Init
  BY PlanFacts DEF Splits, Init, GoogleInit, Fresh, Promise!Init
<1>2. Init => deleted \subseteq Deletable
  BY DeletedIsDeletable
<1>3. IInv /\ deleted \subseteq Deletable /\ [Next]_vars => (deleted \subseteq Deletable)'
  BY DeletedIsDeletable
<1>4. IInv /\ NeverMissing /\ NeverMissing' /\ deleted \subseteq Deletable /\ (deleted \subseteq Deletable)' /\ [Next]_vars
        => [Promise!Next]_(Promise!shown)
  BY PromiseStep
<1> QED
  BY <1>1, <1>2, <1>3, <1>4, Safe, NeverMissingSafe, PTL DEF Spec, PromiseKept, Promise!Spec
=============================================================================
