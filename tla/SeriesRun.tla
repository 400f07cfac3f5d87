------------------------------ MODULE SeriesRun ------------------------------
(***************************************************************************)
(* Running a series plan against Google: the machine `Run` of              *)
(* calendar_write/series/run.rs, with the sender of its writes             *)
(* (GoogleSend) and Google (GoogleCalendar).                               *)
(*                                                                         *)
(* The machine has one request out at a time.  An action here is one       *)
(* answer: Google or the network settles what becomes of the request, the  *)
(* machine reads the answer, and its next request is out in the same step. *)
(* Reading an answer touches only the machine, so whatever other clients   *)
(* and late copies do between Google's answer and PM's reading of it is    *)
(* the same done just after.  The machine's pauses are time passing: its   *)
(* next look is simply out, and others may act before it is answered.      *)
(***************************************************************************)
EXTENDS GoogleSend

CONSTANTS
  Retry,     \* the run is Run::retry_insert: a new event an earlier run sent
  CountCap   \* where the two ghost counters stop counting

ASSUME RetryAssumption ==
  /\ Retry \in BOOLEAN
  /\ Retry => Plan = <<"create">>
  /\ CountCap \in Nat \ {0}

VARIABLES
  at,        \* the step being run
  phase,     \* Phase
  ends,      \* where each step ended
  tag,       \* the etag of Google's copy of the insert, 0 without one
  copies,    \* what has been sent of the current step (Copies)
  why,       \* why the commit step at `at` provably did not land
  rollback,  \* what became of the steps before it
  outcome,   \* how the run ended (Ran)
  count      \* ghost: requests and copies of the current step so far

machine == <<at, phase, ends, tag, copies, out, why, rollback, outcome, count>>
vars == <<google, machine>>

WritePhases == {"sent", "restore", "undo", "undo_again"}
LookPhases == {"look1", "look2", "look3"}
UndoPhases == {"undo", "undo_again", "undo_look", "undo_look_again"}
Phases == {"start", "check", "insert_look", "undo_look", "undo_look_again", "over"}
            \cup WritePhases \cup LookPhases

Ends == {"not_run", "done", "skipped", "unanswered", "undone"}
Whys == {"none", "ignored", "conflict", "gone", "refused", "put_back", "unsent"}

NoCopies == [last |-> 0, sentOn |-> {}, inDoubt |-> FALSE, resentOn |-> {},
             reposted |-> FALSE, movedOn |-> FALSE, answeredOk |-> FALSE]
CopiesType == [last : Nat, sentOn : SUBSET Nat, inDoubt : BOOLEAN, resentOn : SUBSET Nat,
               reposted : BOOLEAN, movedOn : BOOLEAN, answeredOk : BOOLEAN]

TypeOK ==
  /\ GoogleTypeOK
  /\ at \in 1..(Len(Plan) + 1)
  /\ phase \in Phases
  /\ phase \notin {"start", "over"} => at \in Steps
  /\ ends \in [Steps -> Ends]
  /\ tag \in Nat
  /\ copies \in CopiesType
  /\ out \in RequestType
  /\ why \in Whys
  /\ rollback \in {"none", "nothing", "done", "unknown"}
  /\ outcome \in {"running", "done", "not_done", "unknown"}
  /\ count \in [requests : 0..CountCap, copies : 0..CountCap]

(* A retry finds the earlier run's copy on its way, or nothing left of it. *)
Init ==
  /\ GoogleInit
  /\ flight \in {{}} \cup {f \in {{[e |-> 1, op |-> "create", tag |-> 0]}} : Retry}
  /\ at = 1
  /\ phase = "start"
  /\ ends = [i \in Steps |-> "not_run"]
  /\ tag = 0
  /\ copies = NoCopies
  /\ out = Idle
  /\ why = "none"
  /\ rollback = "none"
  /\ outcome = "running"
  /\ count = [requests |-> 0, copies |-> 0]

-----------------------------------------------------------------------------
(* Run::none_can_land. *)
NoneCanLand(k, c, e) ==
  /\ ~NeverResent(k)
  /\ ~c.inDoubt
  /\ ~c.answeredOk
  /\ e.etag \notin c.sentOn

-----------------------------------------------------------------------------
(* The machine's moves.  Each is a whole update of its variables.           *)

Bump(n) == IF n < CountCap THEN n + 1 ELSE n

(* Send a copy of the step's own request on the etag `t`. *)
Sends(c, t) ==
  /\ copies' = [c EXCEPT !.last = t,
                         !.sentOn = IF Inserting(Plan[at]) THEN @ ELSE @ \cup {t}]
  /\ out' = Request(at, Plan[at], t)
  /\ phase' = "sent"
  /\ UNCHANGED <<at, ends, tag, why, rollback, outcome>>

Looks(p, c) ==
  /\ phase' = p
  /\ copies' = c
  /\ out' = Idle
  /\ UNCHANGED <<at, ends, tag, why, rollback, outcome>>

StepEnds(c, end, t) ==
  /\ ends' = [ends EXCEPT ![at] = end]
  /\ tag' = IF Inserting(Plan[at]) THEN t ELSE tag
  /\ at' = at + 1
  /\ phase' = "start"
  /\ copies' = c
  /\ out' = Idle
  /\ UNCHANGED <<why, rollback, outcome>>

Over(o, w, r) ==
  /\ phase' = "over"
  /\ outcome' = o
  /\ why' = w
  /\ rollback' = r
  /\ out' = Idle
  /\ UNCHANGED <<at, tag>>

(* The steps to undo: a new series that landed. *)
ToUndo == {j \in Steps : j < at /\ ends[j] = "done" /\ Plan[j] = "insert"}

(* Run::apply on a step proved not done: a cleanup step is left out; a      *)
(* commit step undoes the new series before it, on the etag of its reply,   *)
(* or after a look when the reply had none.                                 *)
NotDone(c, w) ==
  \/ Cleanup(at) /\ StepEnds(c, "skipped", 0)
  \/ /\ ~Cleanup(at)
     /\ ToUndo = {}
     /\ Over("not_done", w, "nothing")
     /\ copies' = c
     /\ UNCHANGED ends
  \/ /\ ~Cleanup(at)
     /\ ToUndo # {}
     /\ copies' = c
     /\ why' = w
     /\ IF tag # 0 THEN phase' = "undo" /\ out' = Request(1, "delete", tag)
                   ELSE phase' = "undo_look_again" /\ out' = Idle
     /\ UNCHANGED <<at, ends, tag, rollback, outcome>>

(* A bug: no answer is taken for not done. *)
UnknownUndoes(c) == NotDone(c, "conflict")

(* A commit step that may have landed stops the run; nothing is undone. *)
Unknown(c) ==
  \/ Cleanup(at) /\ StepEnds(c, "unanswered", 0)
  \/ /\ ~Cleanup(at)
     /\ Over("unknown", why, "none")
     /\ copies' = c
     /\ UNCHANGED ends

Undone ==
  /\ Over("not_done", why, "done")
  /\ ends' = [ends EXCEPT ![1] = "undone"]
  /\ UNCHANGED copies

RollbackUnknown ==
  /\ Over("not_done", why, "unknown")
  /\ UNCHANGED <<ends, copies>>

(* A bug: the once more on a newer etag is not remembered. *)
MovesOnAgain(c, e) ==
  LET r == Resend(Plan[at], e) IN
  \/ /\ r = "proceed"
     /\ Sends([c EXCEPT !.inDoubt = FALSE, !.answeredOk = FALSE], e.etag)
  \/ r = "gone" /\ GoneIsDone(Plan[at]) /\ StepEnds(c, "done", 0)
  \/ r = "gone" /\ ~GoneIsDone(Plan[at]) /\ NotDone(c, "gone")
  \/ r = "conflict" /\ NotDone(c, "conflict")

(* Google is at an etag no copy went out on: no copy can land any more, and *)
(* the step may go once more on that etag, which clears the doubt.          *)
MovesOn(c, e) ==
  LET r == Resend(Plan[at], e) IN
  \/ r = "proceed" /\ c.movedOn /\ NotDone(c, "conflict")
  \/ /\ r = "proceed"
     /\ ~c.movedOn
     /\ Sends([c EXCEPT !.inDoubt = FALSE, !.answeredOk = FALSE, !.movedOn = TRUE], e.etag)
  \/ r = "gone" /\ GoneIsDone(Plan[at]) /\ StepEnds(c, "done", 0)
  \/ r = "gone" /\ ~GoneIsDone(Plan[at]) /\ NotDone(c, "gone")
  \/ r = "conflict" /\ NotDone(c, "conflict")

(* Run::not_landed: a GET shows the step not landed, its event at `e`. *)
NotLanded(c, e) ==
  \/ ~Shown(e) /\ NotDone(c, "gone")
  \/ /\ Shown(e)
     /\ Inserting(Plan[at])
     /\ IF e.st = "cancelled" THEN NotDone(c, "gone") ELSE Unknown(c)
  \/ /\ Shown(e)
     /\ ~Inserting(Plan[at])
     /\ \/ c.answeredOk /\ Unknown(c)
        \/ ~c.answeredOk /\ e.etag \in c.sentOn /\ e.etag \in c.resentOn /\ Unknown(c)
        \/ /\ ~c.answeredOk
           /\ e.etag \in c.sentOn
           /\ e.etag \notin c.resentOn
           /\ Sends([c EXCEPT !.resentOn = @ \cup {e.etag}], e.etag)
        \/ ~c.answeredOk /\ e.etag \notin c.sentOn /\ MovesOn(c, e)

-----------------------------------------------------------------------------
(* A bug: a retry starts as if nothing of it was ever sent. *)
StartAfresh ==
  /\ phase = "start"
  /\ at <= Len(Plan)
  /\ Sends(NoCopies, 0)
  /\ count' = [requests |-> 1, copies |-> 0]
  /\ UNCHANGED google

(* Run::start. *)
Start ==
  /\ phase = "start"
  /\ at <= Len(Plan)
  /\ LET fresh == [NoCopies EXCEPT !.inDoubt = Retry, !.reposted = Retry] IN
     \/ \E j \in Requires(at) : ends[j] # "done" /\ StepEnds(copies, "skipped", 0)
     \/ /\ \A j \in Requires(at) : ends[j] = "done"
        /\ IF Plan[at] = "carry" THEN Looks("look1", fresh)
           ELSE Sends(fresh, IF Inserting(Plan[at]) THEN 0 ELSE 1)
  /\ count' = [requests |-> IF phase' = "sent" THEN 1 ELSE 0, copies |-> 0]
  /\ UNCHANGED google

Finish ==
  /\ phase = "start"
  /\ at > Len(Plan)
  /\ Over("done", why, rollback)
  /\ UNCHANGED <<google, ends, copies, count>>

-----------------------------------------------------------------------------
(* Reading the answer to a write.                                           *)

(* Two bugs: what the sender's retry, or the lost answer, may have left at  *)
(* Google is forgotten.                                                     *)
MarkedByVerdict(c, a) ==
  [c EXCEPT !.inDoubt = @ \/ a.kind = "lost" \/ a.v \in {"server_error", "other", "duplicate"},
            !.answeredOk = @ \/ a.v = "ok"]

MarkedByReply(c, a) ==
  [c EXCEPT !.inDoubt = @ \/ a.maybe \/ a.v \in {"server_error", "other", "duplicate"},
            !.answeredOk = @ \/ a.v = "ok"]

(* The marks an answer leaves on the copies, before it is read.  A retry by *)
(* the sender was the once-more on its etag, unless it was refused.         *)
Marked(c, a) ==
  LET spent == a.maybe /\ (a.kind = "lost" \/ a.v # "refused") IN
  [c EXCEPT
     !.inDoubt = @ \/ a.kind = "lost" \/ a.maybe
                   \/ a.v \in {"server_error", "other", "duplicate"},
     !.answeredOk = @ \/ a.v = "ok",
     !.resentOn = IF spent /\ ~Inserting(Plan[at]) THEN @ \cup {c.last} ELSE @,
     !.reposted = @ \/ (a.kind = "lost" /\ a.maybe /\ Inserting(Plan[at]))]

(* The etag of the copy that proves an insert. *)
ProofTags(e) == {e.etag} \cup {t \in {0} : "bare" \in Faults}

(* A 2xx to the step's own request, which leaves its event at `e`. *)
ReadOwnReply(c, body, e) ==
  LET verdict == Verdict(Plan[at], e) IN
  \/ Plan[at] = "delete" /\ StepEnds(c, "done", 0)
  \/ Plan[at] # "delete" /\ (~body \/ verdict = "unknown") /\ Looks("check", c)
  \/ /\ Plan[at] # "delete"
     /\ body
     /\ verdict = "yes"
     /\ \E t \in ProofTags(e) : StepEnds(c, "done", t)
  \/ /\ Plan[at] # "delete"
     /\ body
     /\ verdict = "no"
     /\ NotDone(c, IF Inserting(Plan[at]) THEN "gone" ELSE "ignored")

(* Any other answer to the step's own request, with no copy in doubt. *)
ReadPlainAnswer(c, v) ==
  \/ /\ v = "gone"
     /\ Inserting(Plan[at])
     /\ IF c.reposted THEN Looks("check", c) ELSE NotDone(c, "refused")
  \/ /\ v = "gone"
     /\ ~Inserting(Plan[at])
     /\ IF GoneIsDone(Plan[at]) THEN StepEnds(c, "done", 0) ELSE NotDone(c, "gone")
  \/ v = "refused" /\ NotDone(c, "refused")
  \/ v \notin {"gone", "refused"} /\ Looks("check", c)

(* Run::read_write. *)
OnWrite(a) ==
  LET c == Marked(copies, a) IN
  \/ /\ a.kind = "unsent"
     /\ IF c.inDoubt \/ c.answeredOk THEN Looks("check", c) ELSE NotDone(c, "unsent")
  \/ a.kind = "lost" /\ Looks("check", c)
  \/ a.kind = "reply" /\ a.v = "ok" /\ ReadOwnReply(c, a.body, ev'[at])
  \/ a.kind = "reply" /\ a.v # "ok" /\ c.inDoubt /\ Looks("check", c)
  \/ a.kind = "reply" /\ a.v # "ok" /\ ~c.inDoubt /\ ReadPlainAnswer(c, a.v)

(* Phase::Restore: only Google showing the old times and rule proves it. *)
OnRestore(a) ==
  IF /\ a.kind = "reply"
     /\ a.v = "ok"
     /\ a.body
     /\ ev'[at].st = "live"
     /\ ev'[at].val = "old"
  THEN NotDone(copies, "put_back")
  ELSE Unknown(copies)

(* A bug: any answer to the undo is taken for the new series deleted. *)
OnUndoSendTrusting(a) ==
  \/ a.kind = "reply" /\ Undone
  \/ a.kind # "reply" /\ Looks(IF phase = "undo" THEN "undo_look" ELSE "undo_look_again", copies)

(* Run::on_undo_send. *)
OnUndoSend(a) ==
  \/ a.kind = "reply" /\ a.v \in {"ok", "gone"} /\ Undone
  \/ a.kind = "reply" /\ a.v = "refused" /\ ~a.maybe /\ RollbackUnknown
  \/ /\ ~(a.kind = "reply" /\ a.v \in {"ok", "gone"})
     /\ ~(a.kind = "reply" /\ a.v = "refused" /\ ~a.maybe)
     /\ Looks(IF phase = "undo" THEN "undo_look" ELSE "undo_look_again", copies)

Hears(a) ==
  \/ phase = "sent" /\ OnWrite(a)
  \/ phase = "restore" /\ OnRestore(a)
  \/ phase \in {"undo", "undo_again"} /\ OnUndoSend(a)

-----------------------------------------------------------------------------
(* A write is out: the sender tries, and the machine reads what it hears.   *)

Sending == phase \in WritePhases

Counts(reached) ==
  count' = [count EXCEPT !.copies = IF phase = "sent" /\ reached THEN Bump(@) ELSE @]

WriteAnswered ==
  /\ Sending
  /\ \E a \in Answers : Attempt(a) /\ Hears(a) /\ Counts(Reached(a))

WriteTriedAgain ==
  /\ Sending
  /\ TriesAgain
  /\ Counts(out'.maybe)
  /\ UNCHANGED <<at, phase, ends, tag, copies, why, rollback, outcome>>

-----------------------------------------------------------------------------
(* The machine's GETs.  `NoAnswer` is a GET PM could not read: offline, a   *)
(* server error twice, a reply it can't parse.                              *)

CountsRequest ==
  count' = [count EXCEPT !.requests = IF phase' = "sent" THEN Bump(@) ELSE @]

(* A bug: the occurrence is looked for until it is there. *)
NextLookUntilThere == Looks(IF phase = "look2" THEN "look3" ELSE "look2", copies)

(* A carry's look for its occurrence, up to three times. *)
NextLook ==
  \/ phase = "look1" /\ Looks("look2", copies)
  \/ phase = "look2" /\ Looks("look3", copies)
  \/ phase = "look3" /\ StepEnds(copies, "skipped", 0)

Look ==
  /\ phase \in LookPhases
  /\ IF ev[at].st = "live" THEN Sends(copies, ev[at].etag) ELSE NextLook
  /\ CountsRequest
  /\ UNCHANGED google

LookUnanswered ==
  /\ phase \in LookPhases
  /\ NextLook
  /\ UNCHANGED <<google, count>>

(* Run::read_check. *)
Check ==
  /\ phase = "check"
  /\ LET e == ev[at]
         c == copies
         verdict == Verdict(Plan[at], e)
         settled == Shown(e) /\ NoneCanLand(Plan[at], c, e)
         half == Plan[at] = "retime" /\ Shown(e) /\ e.val = "half" IN
     \/ verdict = "yes" /\ \E t \in ProofTags(e) : StepEnds(c, "done", t)
     \/ verdict = "no" /\ NotLanded(c, e)
     \/ /\ verdict = "unknown"
        /\ settled
        /\ LET r == Resend(Plan[at], e) IN
           \/ r = "conflict" /\ NotDone(c, "conflict")
           \/ r = "gone" /\ GoneIsDone(Plan[at]) /\ StepEnds(c, "done", 0)
           \/ r = "gone" /\ ~GoneIsDone(Plan[at]) /\ NotDone(c, "gone")
           \/ r = "proceed" /\ Unknown(c)
     \/ /\ verdict = "unknown"
        /\ ~settled
        /\ half
        /\ phase' = "restore"
        /\ out' = Request(at, "restore", e.etag)
        /\ UNCHANGED <<at, ends, tag, copies, why, rollback, outcome>>
     \/ /\ verdict = "unknown"
        /\ ~settled
        /\ ~half
        /\ IF ~Shown(e) /\ Inserting(Plan[at]) /\ ~c.reposted
           THEN Looks("insert_look", c) ELSE Unknown(c)
  /\ CountsRequest
  /\ UNCHANGED google

(* Run::on_insert_look: still not there after the pause, it is posted once  *)
(* more under its id.                                                       *)
InsertLook ==
  /\ phase = "insert_look"
  /\ LET e == ev[at]
         verdict == Verdict(Plan[at], e) IN
     \/ ~Shown(e) /\ Sends([copies EXCEPT !.reposted = TRUE], copies.last)
     \/ Shown(e) /\ verdict = "yes" /\ \E t \in ProofTags(e) : StepEnds(copies, "done", t)
     \/ Shown(e) /\ verdict = "no" /\ NotLanded(copies, e)
     \/ Shown(e) /\ verdict = "unknown" /\ Unknown(copies)
  /\ CountsRequest
  /\ UNCHANGED google

(* Run::on_undo_check. *)
UndoLook ==
  /\ phase \in {"undo_look", "undo_look_again"}
  /\ LET e == ev[1] IN
     \/ e.st # "live" /\ Undone
     \/ /\ e.st = "live"
        /\ phase = "undo_look"
        /\ e.val = "new"
        /\ phase' = "undo_again"
        /\ out' = Request(1, "delete", e.etag)
        /\ UNCHANGED <<at, ends, tag, copies, why, rollback, outcome>>
     \/ e.st = "live" /\ (phase = "undo_look_again" \/ e.val # "new") /\ RollbackUnknown
  /\ UNCHANGED <<google, count>>

CheckUnanswered ==
  /\ \/ phase \in {"check", "insert_look"} /\ Unknown(copies)
     \/ phase \in {"undo_look", "undo_look_again"} /\ RollbackUnknown
  /\ UNCHANGED <<google, count>>

-----------------------------------------------------------------------------
Machine ==
  \/ Start \/ Finish \/ WriteAnswered \/ WriteTriedAgain
  \/ Look \/ LookUnanswered \/ Check \/ InsertLook \/ UndoLook \/ CheckUnanswered

Others == World /\ UNCHANGED machine

Next == Machine \/ Others

(* Every request is answered, or given up after its 30-second timeout, and  *)
(* every pause ends: the machine always has a next step.  Nothing is        *)
(* promised of late copies or of other clients.                             *)
Spec == Init /\ [][Next]_vars /\ WF_vars(Machine)

-----------------------------------------------------------------------------
(* Properties. *)

(* What Google would show had step i landed. *)
Landed(i) ==
  CASE Plan[i] \in Inserts -> ev[i].st = "live"
    [] Plan[i] \in {"delete", "cancel"} -> ev[i].st = "cancelled" /\ i \notin deleted
    [] OTHER -> ev[i].st = "live" /\ ev[i].val = "new"

(* A copy of step i is on its way, and Google would take it. *)
Landable(i) == \E c \in flight : c.e = i /\ c.op = Plan[i] /\ Accepts(c)

(* The run has taken the commit step at `at` for not done. *)
TakenForNotDone == phase \in UndoPhases \/ outcome = "not_done"

(* A step the run reports not done (Ran::NotDone) is not in Google, and no  *)
(* copy of it can come to be: what plan.rs calls proof, over every answer,  *)
(* lost copy and other client's change (run.rs, read_write and not_landed). *)
NotDoneIsProof == TakenForNotDone => ~Landed(at) /\ ~Landable(at)

(* A new series PM is deleting, or whose delete is still on its way, is one *)
(* no cut can leave as the only copy of what follows (plan.rs: "a tail is   *)
(* never deleted" on an unknown cut).                                       *)
TailDeletes ==
  {c \in flight : c.op = "delete" /\ Plan[c.e] = "insert"}
    \cup {c \in {CopyOf(out)} : phase \in {"undo", "undo_again"}}
TailDeletedOnProof ==
  TailDeletes # {} => at = 2 /\ ~Landed(2) /\ ~Landable(2)

(* "Insert first, so a failure leaves a visible duplicate, never missing    *)
(* occurrences" (plan.rs): while no other client deletes the new series,    *)
(* the original is never cut without the new series there.                  *)
Splits == Len(Plan) >= 2 /\ Plan[1] = "insert" /\ Plan[2] = "cut"
NeverMissing ==
  Splits /\ 1 \notin deleted => ~Landed(2) \/ ev[1].st = "live"

(* A change reported not done with its rollback done left nothing behind:   *)
(* no step of it is in Google or on its way there (Rollback::Done and       *)
(* Rollback::Nothing).                                                      *)
CleanFailure ==
  outcome = "not_done" /\ rollback # "unknown"
    => \A i \in Steps : i <= at => ~Landed(i) /\ ~Landable(i)

(* "At most four requests of a step leave the machine, two per etag on at   *)
(* most two etags; up to six copies Google may apply reach it", and at most *)
(* two posts of one insert (run.rs, the module's doc).                      *)
FewCopies ==
  /\ count.requests <= (IF at \in Steps /\ Inserting(Plan[at]) THEN 2 ELSE 4)
  /\ count.copies <= 6

(* An exception on the original is cancelled only once its changes are on   *)
(* the new series' occurrence (plan.rs, DS3): none goes, or is on its way   *)
(* to go, while that occurrence has the series' own fields.                 *)
CarriedFirst ==
  \A i \in Steps : \A j \in {j \in Steps : j + 1 = i /\ Plan[j] = "carry" /\ Plan[i] = "cancel"} :
    Landed(i) \/ Landable(i) => ev[j].st # "none" /\ ev[j].val # "old"

(* PM's own change lands only on what the plan was made on: another         *)
(* client's change to what the plan watches is never overwritten, whatever  *)
(* copy lands and whenever (Recheck::Unchanged and If-Match).               *)
OwnChange(i) ==
  /\ Plan[i] \in {"cut", "retime", "delete", "cancel"}
  /\ edits' = edits
  /\ ev[i].st = "live"
  /\ ev'[i].etag # ev[i].etag
  /\ ev'[i].val = "new" \/ ev'[i].st = "cancelled"
OverwritesNothing(i) == i \in Steps /\ OwnChange(i) => ev[i].val = "old" /\ ev[i].rest = "same"
NothingOverwritten == [][\A i \in Steps : OverwritesNothing(i)]_vars

(* A new series that stands for an original cut and deleted since is never  *)
(* deleted by PM: it is the only copy of what follows.                      *)
CutThenDeleted == ev[2].st \in {"cancelled", "purged"} /\ ev[2].val = "new"
OnlyCopyKept ==
  Splits /\ 1 \notin deleted /\ CutThenDeleted => ev[1].st = "live"

(* The run implements the promise, while no other client deletes a part.    *)
Promise == INSTANCE SplitPromise WITH
             original <- ~(ev[2].st = "live" /\ ev[2].val = "new"),
             tail <- (ev[1].st = "live")
PromiseKept == Promise!Spec

(* Every run ends, whatever is lost, late or refused and whoever else       *)
(* writes: the machine never sends a step for ever.                         *)
RunEnds == <>(phase = "over")
-----------------------------------------------------------------------------
(* The inductive invariant behind the safety properties.                    *)

Active == phase \in {"sent", "check", "insert_look", "restore"} \cup LookPhases
Watched == {"cut", "retime", "delete", "cancel"}

(* Every copy Google may still take, or is being asked to take. *)
Pending == flight \cup {c \in {CopyOf(out)} : phase \in WritePhases}

EtagsCount ==
  \A i \in Steps :
    /\ ev[i].st = "none" <=> ev[i].etag = 0
    /\ ev[i].st = "none" => Plan[i] \in Inserts \cup {"carry"}

(* A write that is one of the plan's, its undo included. *)
OfThePlan(c) ==
  \/ c.op = Plan[c.e]
  \/ c.op = "restore" /\ Plan[c.e] = "retime"
  \/ c.op = "delete" /\ Plan[c.e] = "insert"

(* A copy is made on an etag Google has been at. *)
Dated(c) == Plan[c.e] \notin Inserts => c.tag <= ev[c.e].etag

(* Only steps already sent have copies on their way. *)
CopiesBehind ==
  \A c \in flight :
    /\ OfThePlan(c)
    /\ Dated(c)
    /\ c.e <= at
    /\ c.e = at => phase # "start" \/ Retry
    /\ c.op = "delete" /\ Plan[c.e] = "insert" => at = 2 /\ TakenForNotDone
    /\ c.e = at /\ c.op = Plan[at] /\ c.op \notin Inserts => c.tag \in copies.sentOn

OutIsTheStep ==
  /\ phase = "sent" =>
       /\ out.e = at
       /\ out.op = Plan[at]
       /\ Plan[at] \notin Inserts =>
            out.tag \in copies.sentOn /\ out.tag <= ev[at].etag /\ ~copies.answeredOk
  /\ phase = "restore" =>
       /\ out.e = at
       /\ out.op = "restore"
       /\ Plan[at] = "retime"
       /\ out.tag <= ev[at].etag
  /\ phase \in {"undo", "undo_again"} => out.e = 1 /\ out.op = "delete"

LaterUntouched ==
  \A i \in Steps : i > at \/ (i = at /\ phase = "start" /\ ~Retry) => ~Landed(i)

(* A step that is looked for has not been sent. *)
LooksAreCarries ==
  phase \in LookPhases => Plan[at] = "carry" /\ ~copies.answeredOk

(* What the machine can't see of the step at `at` it holds in doubt. *)
Doubt == copies.inDoubt \/ (phase = "sent" /\ out.maybe)
DoubtIsKept ==
  at \in Steps /\ Active =>
    /\ Landable(at) => Doubt
    /\ Landed(at) => Doubt \/ copies.answeredOk

InsertAnswered ==
  /\ phase = "insert_look" => Plan[at] \in Inserts
  /\ at \in Steps /\ Plan[at] \in Inserts /\ copies.answeredOk =>
       /\ phase = "check" => ev[at].st # "none"
       /\ phase \in {"sent", "insert_look"} => ev[at].st = "purged"

Undoing ==
  /\ phase \in UndoPhases => at = 2 /\ Plan[1] = "insert" /\ Plan[2] = "cut"
  /\ outcome # "running" => phase = "over"

TakenIsProved ==
  TakenForNotDone => at \in Steps /\ ~Cleanup(at) /\ ~Landed(at) /\ ~Landable(at)

TailStands ==
  Splits /\ 1 \notin deleted /\ at >= 2 => ev[1].st = "live" \/ TakenForNotDone

(* What the plan watches of an event is as it was planned on. *)
AsPlanned(e) == e.val = "old" /\ e.rest = "same"

(* At the etag the plan was made on it is. *)
PlannedAtFirst == \A i \in Steps : Plan[i] \in Watched /\ ev[i].etag = 1 => AsPlanned(ev[i])

(* A copy Google would take meets the event as the plan knows it. *)
MeetsThePlan(c) ==
  Accepts(c) =>
    /\ Plan[c.e] \in Watched /\ c.op = Plan[c.e] => AsPlanned(ev[c.e])
    /\ c.op = "restore" => ev[c.e].val = "half"

(* So would a further copy on an etag the step has gone out on. *)
SentMeetsThePlan(sent) ==
  Plan[at] \in Watched =>
    \A t \in sent : t <= ev[at].etag /\ (t = ev[at].etag => AsPlanned(ev[at]))

CopiesMeetThePlan ==
  /\ PlannedAtFirst
  /\ \A c \in Pending : MeetsThePlan(c)
  /\ at \in Steps /\ Active => SentMeetsThePlan(copies.sentOn)

IInv ==
  /\ TypeOK
  /\ EtagsCount
  /\ CopiesBehind
  /\ OutIsTheStep
  /\ LaterUntouched
  /\ LooksAreCarries
  /\ DoubtIsKept
  /\ InsertAnswered
  /\ Undoing
  /\ TakenIsProved
  /\ TailStands
  /\ CopiesMeetThePlan
-----------------------------------------------------------------------------
(* What the other safety properties rest on besides.                        *)

(* Once the cut goes, the new series is done, and was there; a run that     *)
(* ends clean after it found it gone again.                                 *)
SeriesBehind ==
  Splits /\ at >= 2 =>
    /\ ev[1].st # "none"
    /\ outcome # "not_done" => ends[1] = "done"
    /\ outcome = "not_done" =>
         rollback = "unknown" \/ (rollback = "done" /\ ev[1].st # "live")

(* A run that is over has said how; it says unknown of a commit step only.  *)
EndSays ==
  phase = "over" =>
    /\ outcome # "running"
    /\ outcome = "unknown" => at \in Steps /\ ~Cleanup(at)

(* A cancel whose carry is done follows a change there to see; no other is  *)
(* ever sent.                                                               *)
CarriesBehind ==
  \A i \in Steps : \A j \in {j \in Steps : j + 1 = i /\ Plan[j] = "carry" /\ Plan[i] = "cancel"} :
    \/ ends[j] = "done" /\ ev[j].st # "none" /\ ev[j].val # "old"
    \/ /\ ends[j] # "done"
       /\ ~Landed(i)
       /\ \A c \in flight : c.e # i
       /\ at = i => phase = "start"

One(b) == IF b THEN 1 ELSE 0
OnceMore == copies.last \in copies.resentOn

(* An insert is posted once, and once more unless it already was.           *)
InsertsCounted ==
  /\ phase = "insert_look" => ~copies.reposted
  /\ phase = "sent" => ~out.maybe
  /\ count.requests <= 1 + One(copies.reposted)
  /\ count.copies <= One(copies.reposted) + One(phase # "sent")

(* Any other step goes once on an etag, and once more: at most three copies *)
(* of it, and only the last etag may have one to come.                      *)
CopiesCounted ==
  /\ copies.resentOn \subseteq copies.sentOn
  /\ IF phase \in LookPhases
     THEN copies.sentOn = {} /\ ~copies.movedOn /\ count.requests = 0 /\ count.copies = 0
     ELSE /\ copies.last \in copies.sentOn
          /\ \A t \in copies.sentOn : t <= copies.last
          /\ count.requests <= 1 + One(OnceMore) + 2 * One(copies.movedOn)
          /\ count.copies <= 3 * One(copies.movedOn)
                + (IF phase = "sent" THEN One(OnceMore) + One(out.maybe) ELSE 1 + 2 * One(OnceMore))

Counted ==
  /\ out.maybe => out.attempt = 2
  /\ count.requests <= 4 /\ count.copies <= 6
  /\ at \in Steps /\ Inserting(Plan[at]) => count.requests <= 2
  /\ at \in Steps /\ Active => IF Inserting(Plan[at]) THEN InsertsCounted ELSE CopiesCounted

RunInv == IInv /\ SeriesBehind /\ EndSays /\ CarriesBehind /\ Counted
=============================================================================
