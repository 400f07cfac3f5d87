----------------------------- MODULE OneWrites -----------------------------
(***************************************************************************)
(* The writes to one event that does not repeat: an editor's save, a move, *)
(* the Undo of either, and a delete, which is held for a few seconds first *)
(* (commands/calendar_edit.rs).  All of them claim the event's row, read   *)
(* Google's copy, check that it still is what the user saw, and send one   *)
(* request guarded by its etag, in at most two rounds.                     *)
(*                                                                         *)
(* Google, its other clients and the copies of a request that land after   *)
(* its answer was lost are steps of their own.  The gate, guests to ask    *)
(* about and a body that cannot be built are one refusal, which may come   *)
(* on any reading.                                                         *)
(***************************************************************************)
EXTENDS Naturals

CONSTANTS
  MaxWrites, \* bound: the writes the user asks for
  MaxOthers  \* bound: the changes other clients make

ASSUME WritesAssumption == MaxWrites \in Nat \ {0} /\ MaxOthers \in Nat

VARIABLES
  event,    \* the event at Google, with which write wrote what of it last
  late,     \* copies of requests that may still reach Google
  othersDid, \* the changes other clients have made
  mirrored, \* the mirror's row, which is what the user sees
  session,  \* the copy an open editor was opened on
  undo,     \* the change that can be undone (CalendarEditState.undos)
  claimed,  \* the row is in CalendarEditState.in_flight
  job,      \* the write under way: a command, or a held delete after its wait
  hold,     \* the task of a held delete, in its wait
  heldEntry, \* the delete in HeldDeletes, by its number, or 0
  quitting, \* RunEvent::Exit has come
  asked,    \* the writes asked for
  letGo,    \* deletes whose Undo was answered true, or that PM dropped as it quit
  said      \* what the user was told last, of which write

atGoogle == <<event, late, othersDid>>
shown == <<mirrored, session, undo>>
held == <<hold, heldEntry, quitting, letGo>>
writesVars == <<atGoogle, shown, claimed, job, held, asked, said>>

Fields == {"time", "text"}
Typed == {"a", "b"}   \* what the user may set
FieldValues == Typed \cup {"c"}
Some == UNION {[F -> FieldValues] : F \in SUBSET Fields}
NoFields == <<>>   \* of no field
Numbers == 1..MaxWrites

NoUndo == [was |-> NoFields, left |-> NoFields]
NoHold == [at |-> "none", n |-> 0, saw |-> NoFields]
NothingSent == [puts |-> NoFields, saw |-> NoFields]
NoWrite ==
  [kind |-> "none", at |-> "none", n |-> 0, puts |-> NoFields, saw |-> NoFields,
   sent |-> NothingSent, round |-> 1, tag |-> 0, attempt |-> 1, maybe |-> FALSE, heard |-> "none"]
Unsaid == [n |-> 0, what |-> "nothing"]

Verdicts == {"conflict", "gone", "busy", "refused"}
WriteType ==
  [kind : {"none", "save", "move", "undo", "delete"},
   at : {"none", "read", "sent", "look", "show"}, n : {0} \cup Numbers,
   puts : Some, saw : Some, sent : [puts : Some, saw : Some], round : {1, 2}, tag : Nat, attempt : {1, 2}, maybe : BOOLEAN,
   heard : Verdicts \cup {"none", "lost"}]

WritesTypeOK ==
  /\ event.there \in BOOLEAN /\ event.holds \in [Fields -> FieldValues] /\ event.etag \in Nat
  /\ event.who \in [Fields \cup {"there"} -> {0} \cup Numbers]
  /\ othersDid \in 0..MaxOthers /\ asked \in 0..MaxWrites
  /\ mirrored.there \in BOOLEAN /\ mirrored.holds \in [Fields -> FieldValues]
  /\ {session, undo.was, undo.left} \subseteq Some
  /\ {claimed, quitting} \subseteq BOOLEAN
  /\ job \in WriteType
  /\ hold.at \in {"none", "waiting", "due"} /\ hold.saw \in Some
  /\ heldEntry \in {0} \cup Numbers /\ letGo \subseteq Numbers

WritesInit ==
  /\ event = [there |-> TRUE, holds |-> [f \in Fields |-> "a"], etag |-> 0,
              who |-> [f \in Fields \cup {"there"} |-> 0]]
  /\ late = {} /\ othersDid = 0
  /\ mirrored = [there |-> TRUE, holds |-> event.holds] /\ session = NoFields /\ undo = NoUndo
  /\ claimed = FALSE /\ job = NoWrite
  /\ hold = NoHold /\ heldEntry = 0 /\ quitting = FALSE /\ letGo = {}
  /\ asked = 0 /\ said = Unsaid

-----------------------------------------------------------------------------
(* Google. *)
Only(fs, holds) == [f \in fs |-> holds[f]]
Onto(puts, holds) == [f \in Fields |-> IF f \in DOMAIN puts THEN puts[f] ELSE holds[f]]
ShowsAll(puts) == \A f \in DOMAIN puts : event.holds[f] = puts[f]

CopyOf(w) == [n |-> w.n, kind |-> w.kind, puts |-> w.sent.puts, saw |-> w.sent.saw, tag |-> w.tag]

(* If-Match. *)
Accepts(c) == event.there /\ event.etag = c.tag

Applied(c) ==
  [there |-> c.kind # "delete",
   holds |-> Onto(c.puts, event.holds),
   etag  |-> event.etag + 1,
   who   |-> [f \in DOMAIN event.who |->
                IF f \in DOMAIN c.puts \/ (f = "there" /\ c.kind = "delete") THEN c.n
                ELSE event.who[f]]]

(* Google takes a change.  Etags only move on, so no copy sent on an older  *)
(* one can be taken any more, and none is remembered.                       *)
Takes(c) == Accepts(c) /\ event' = Applied(c) /\ late' = {} /\ UNCHANGED othersDid
MayLandLate(c) ==
  /\ late' = IF Accepts(c) THEN late \cup {c} ELSE late
  /\ UNCHANGED <<event, othersDid>>

LandsLate == (\E c \in late : Takes(c)) /\ UNCHANGED <<shown, claimed, job, held, asked, said>>

(* Another client changes the event, or deletes it. *)
OthersChange ==
  /\ event.there /\ othersDid < MaxOthers
  /\ \/ \E f \in Fields, v \in FieldValues :
          /\ v # event.holds[f]
          /\ event' = [event EXCEPT !.holds[f] = v, !.who[f] = 0, !.etag = @ + 1]
     \/ event' = [event EXCEPT !.there = FALSE]
  /\ othersDid' = othersDid + 1 /\ late' = {}
  /\ UNCHANGED <<shown, claimed, job, held, asked, said>>

(* A sync brings the row up to date; CalendarMirror says when it does. *)
Synced ==
  /\ mirrored' = [there |-> event.there, holds |-> event.holds]
  /\ UNCHANGED <<atGoogle, session, undo, claimed, job, held, asked, said>>
-----------------------------------------------------------------------------
(* What the user asks for.  Where the row is claimed the answer is Busy,    *)
(* which changes nothing.                                                   *)
Asks ==
  /\ ~claimed /\ ~quitting /\ asked < MaxWrites
  /\ claimed' = TRUE /\ asked' = asked + 1 /\ said' = Unsaid
StartsWrite(kind, puts, saw) ==
  /\ Asks
  /\ job' = [NoWrite EXCEPT !.kind = kind, !.at = "read", !.n = asked', !.puts = puts, !.saw = saw]
  /\ UNCHANGED <<atGoogle, held>>

OpenEditor ==
  /\ event.there /\ ~quitting /\ session' = event.holds
  /\ UNCHANGED <<atGoogle, mirrored, undo, claimed, job, held, asked, said>>
SaveEvent ==
  /\ session # NoFields
  /\ \E puts \in UNION {[F -> Typed] : F \in SUBSET Fields \ {{}}} :
       /\ \A f \in DOMAIN puts : puts[f] # session[f]
       /\ StartsWrite("save", puts, Only(DOMAIN puts, session))
  /\ UNCHANGED shown
MoveEvent ==
  /\ mirrored.there
  /\ \E v \in Typed \ {mirrored.holds["time"]} :
       StartsWrite("move", [f \in {"time"} |-> v], Only({"time"}, mirrored.holds))
  /\ UNCHANGED shown

(* The row is claimed first, then the record taken. *)
UndoChange ==
  /\ undo # NoUndo /\ StartsWrite("undo", undo.was, undo.left)
  /\ undo' = NoUndo /\ UNCHANGED <<mirrored, session>>
UndoLapses ==
  /\ undo # NoUndo /\ undo' = NoUndo
  /\ UNCHANGED <<atGoogle, mirrored, session, claimed, job, held, asked, said>>

(* The claim goes with the task that waits. *)
DeleteEvent ==
  /\ mirrored.there /\ Asks
  /\ hold' = [at |-> "waiting", n |-> asked', saw |-> mirrored.holds] /\ heldEntry' = asked'
  /\ UNCHANGED <<atGoogle, shown, job, quitting, letGo>>

(* The Undo of a held delete, answered true: the entry was still there.     *)
(* As PM begins to quit, the entry goes the same way.                       *)
Dropped == letGo' = letGo \cup ({heldEntry} \ {0}) /\ heldEntry' = 0
CancelDelete ==
  /\ heldEntry # 0 /\ ~quitting /\ Dropped
  /\ UNCHANGED <<atGoogle, shown, claimed, job, hold, quitting, asked, said>>
BeginQuit ==
  /\ ~quitting /\ quitting' = TRUE /\ Dropped
  /\ UNCHANGED <<atGoogle, shown, claimed, job, hold, asked, said>>

(* The process is gone, tasks and all, and PM starts again.  What was being *)
(* sent may land all the same.                                              *)
EndQuit ==
  /\ quitting /\ quitting' = FALSE
  /\ IF job.at = "sent" THEN MayLandLate(CopyOf(job)) ELSE UNCHANGED atGoogle
  /\ job' = NoWrite /\ hold' = NoHold /\ claimed' = FALSE
  /\ session' = NoFields /\ undo' = NoUndo
  /\ UNCHANGED <<mirrored, heldEntry, letGo, asked, said>>

-----------------------------------------------------------------------------
(* The held delete's task: the wait ends, and then, whoever takes the entry *)
(* decides.                                                                 *)
TimerEnds ==
  /\ hold.at = "waiting" /\ hold' = [hold EXCEPT !.at = "due"]
  /\ UNCHANGED <<atGoogle, shown, claimed, job, heldEntry, quitting, letGo, asked, said>>

(* Undone or dropped: nothing is sent, and the claim goes with the task.    *)
(* Mutant: the claim is not handed to the task.                             *)
KeepsClaim ==
  /\ heldEntry # hold.n /\ hold' = NoHold
  /\ UNCHANGED <<atGoogle, shown, claimed, job, heldEntry, quitting, letGo, asked, said>>
LetsGo ==
  /\ heldEntry # hold.n /\ hold' = NoHold /\ claimed' = FALSE
  /\ UNCHANGED <<atGoogle, shown, job, heldEntry, quitting, letGo, asked, said>>
Woken == hold.at = "waiting" /\ LetsGo

SendsHeld ==
  /\ job' = [NoWrite EXCEPT !.kind = "delete", !.at = "read", !.n = hold.n, !.saw = hold.saw]
  /\ hold' = NoHold /\ heldEntry' = 0
  /\ UNCHANGED <<atGoogle, shown, claimed, quitting, letGo, asked, said>>
\* Mutant: the task sends without taking the entry.
TakesUnasked == hold.at = "due" /\ SendsHeld
TakesEntry ==
  /\ hold.at = "due"
  /\ \/ heldEntry = hold.n /\ SendsHeld
     \/ LetsGo

-----------------------------------------------------------------------------
(* How a write ends: what the user is told, what becomes of the mirror and  *)
(* of the Undos.                                                            *)
Tells(what) ==
  /\ said' = [n |-> job.n, what |-> what]
  /\ job' = NoWrite /\ claimed' = FALSE /\ UNCHANGED <<held, asked>>

(* Nothing lands.  An Undo that Google was too busy for goes back, unless   *)
(* its window has ended.                                                    *)
EndsAs(what) ==
  /\ Tells(what)
  /\ \/ UNCHANGED undo
     \/ job.kind = "undo" /\ what = "busy" /\ undo' = [was |-> job.puts, left |-> job.saw]
  /\ UNCHANGED <<atGoogle, mirrored, session>>

(* Google's copy goes into the mirror, and with it any Undo of the row.  The *)
(* mirror's write may fail, and the next sync shows it.                     *)
LandsHere(e) == mirrored' = [there |-> e.there, holds |-> e.holds] /\ undo' = NoUndo
EndsShowing(what) ==
  /\ Tells(what) /\ (LandsHere(event) \/ UNCHANGED <<mirrored, undo>>)
  /\ UNCHANGED <<atGoogle, session>>

(* It is in Google, whole or in part.  A save or a move that landed whole   *)
(* can be undone.                                                           *)
Rebased ==
  IF job.kind = "save" THEN Onto(Only(DOMAIN job.sent.puts, event'.holds), session) ELSE session
CanUndo(what) == what = "saved" /\ job.kind \in {"save", "move"}
EndsSaved(what) ==
  /\ Tells(what) /\ session' = Rebased
  /\ \/ UNCHANGED <<mirrored, undo>>
     \/ ~CanUndo(what) /\ LandsHere(event')
     \/ /\ CanUndo(what)
        /\ mirrored' = [there |-> TRUE, holds |-> event'.holds]
        /\ undo' = [was |-> job.sent.saw, left |-> Only(DOMAIN job.sent.puts, event'.holds)]

-----------------------------------------------------------------------------
(* A round's reading of Google's copy: gone, refused, nothing to send, not  *)
(* what the user saw, or ready; a request goes out on the etag just read.   *)
(* A save sends, and checks, what Google's copy does not hold already.      *)
Body ==
  LET new == {f \in DOMAIN job.puts : event.holds[f] # job.puts[f]}
  IN  IF job.kind = "save" THEN Only(new, job.puts) ELSE job.puts
Basis == IF job.kind = "save" THEN Only(DOMAIN Body, job.saw) ELSE job.saw
AsSeen == \A f \in DOMAIN Basis : event.holds[f] = Basis[f]
NothingToSend == job.kind \in {"save", "move"} /\ ShowsAll(job.puts)

ReadFails == \E what \in {"kept", "busy"} : EndsAs(what)
ReadGone == ~event.there /\ EndsShowing("gone")
ReadRefused ==
  /\ event.there
  /\ EndsAs("kept") \/ (job.kind = "delete" /\ EndsShowing("kept"))
ReadNothing ==
  /\ event.there /\ NothingToSend /\ (job.kind = "save" \/ AsSeen)
  /\ EndsAs("kept")
ReadChanged ==
  /\ event.there /\ ~AsSeen
  /\ \/ job.kind = "save" /\ ~NothingToSend /\ EndsAs("kept")
     \/ job.kind # "save" /\ EndsShowing("kept")
GoesOut ==
  /\ job' = [job EXCEPT !.at = "sent", !.sent = [puts |-> Body, saw |-> Basis],
                        !.tag = event.etag, !.attempt = 1, !.maybe = FALSE]
  /\ UNCHANGED <<atGoogle, shown, claimed, held, asked, said>>

(* Mutant: the second round sends on the newer etag with no second check,   *)
(* as a reply to an invitation does.                                        *)
ReadRebased == event.there /\ (AsSeen \/ job.round = 2) /\ ~NothingToSend /\ GoesOut
ReadReady == event.there /\ AsSeen /\ ~NothingToSend /\ GoesOut

Reads ==
  /\ job.at = "read"
  /\ ReadFails \/ ReadGone \/ ReadRefused \/ ReadNothing \/ ReadChanged \/ ReadReady

-----------------------------------------------------------------------------
(* What an answer comes to, once none of the request is in doubt. *)
NextTo(at) ==
  /\ job' = [job EXCEPT !.at = at, !.round = 2, !.heard = "none"]
  /\ UNCHANGED <<atGoogle, shown, claimed, held, asked, said>>
Comes(v) ==
  \/ v = "conflict" /\ job.round = 1 /\ NextTo("read")
  \/ v = "conflict" /\ job.round = 2 /\ job.kind \in {"save", "delete"} /\ EndsAs("kept")
  \/ v = "conflict" /\ job.round = 2 /\ job.kind \in {"move", "undo"} /\ NextTo("show")
  \/ v = "gone" /\ job.kind = "delete" /\ UNCHANGED atGoogle /\ EndsSaved("saved")
  \/ v = "gone" /\ job.kind # "delete" /\ EndsShowing("gone")
  \/ v = "busy" /\ EndsAs("busy")
  \/ v = "refused" /\ EndsAs("kept")

WillLook(v) ==
  /\ job' = [job EXCEPT !.at = "look", !.heard = v, !.maybe = FALSE]
  /\ UNCHANGED <<shown, claimed, held, asked, said>>

(* An earlier attempt that may have been applied: PM looks before it says   *)
(* anything but success.  Mutant: the last answer is believed as it is.     *)
HearsTheLast(v) == Comes(v)
Hears(v) ==
  IF job.maybe /\ ~(v = "gone" /\ job.kind = "delete") THEN WillLook(v) /\ UNCHANGED atGoogle
  ELSE Comes(v)

(* google_io::send: at most two attempts, then one answer. *)
NeverWent == IF job.maybe THEN WillLook("lost") /\ UNCHANGED atGoogle ELSE EndsAs("kept")
NoAnswer == WillLook("lost") /\ MayLandLate(CopyOf(job))
ServerError ==
  /\ MayLandLate(CopyOf(job))
  /\ \/ /\ job.attempt = 1 /\ job' = [job EXCEPT !.attempt = 2, !.maybe = TRUE]
        /\ UNCHANGED <<shown, claimed, held, asked, said>>
     \/ job.attempt = 2 /\ WillLook("refused")
RateLimit ==
  /\ job.attempt = 1 /\ job' = [job EXCEPT !.attempt = 2]
  /\ UNCHANGED <<atGoogle, shown, claimed, held, asked, said>>
Refusal == \E v \in {"busy", "refused"} : Hears(v)
Taken == Takes(CopyOf(job)) /\ EndsSaved("saved")
NotTaken == ~Accepts(CopyOf(job)) /\ Hears(IF event.there THEN "conflict" ELSE "gone")
AnswerComes ==
  /\ job.at = "sent"
  /\ NeverWent \/ NoAnswer \/ ServerError \/ RateLimit \/ Refusal \/ Taken \/ NotTaken

(* The look after an answer that can't be trusted. *)
ShowsSome ==
  LET w == job.sent
  IN  \E f \in DOMAIN w.puts : w.puts[f] # w.saw[f] /\ event.holds[f] = w.puts[f]
IsThere(what) == UNCHANGED atGoogle /\ EndsSaved(what)
NotThere == IF job.heard = "lost" THEN EndsAs("kept") ELSE Comes(job.heard)
LookDelete == job.kind = "delete" /\ IF event.there THEN NotThere ELSE IsThere("saved")
LookChange ==
  /\ job.kind # "delete" /\ event.there
  /\ IF ShowsAll(job.sent.puts) THEN IsThere("saved")
     ELSE IF ShowsSome THEN IsThere("partly") ELSE NotThere
LookGone ==
  /\ job.kind # "delete" /\ ~event.there
  /\ NotThere \/ (job.heard # "lost" /\ EndsShowing("gone"))
Looks ==
  /\ job.at = "look"
  /\ EndsAs("unconfirmed") \/ LookDelete \/ LookChange \/ LookGone

(* A second conflict of a move or an Undo: Google's copy is shown. *)
ShowsConflict ==
  /\ job.at = "show"
  /\ EndsAs("kept") \/ EndsShowing(IF event.there THEN "kept" ELSE "gone")

WritesMachine == TimerEnds \/ Woken \/ TakesEntry \/ Reads \/ AnswerComes \/ Looks \/ ShowsConflict
WritesNext ==
  \/ LandsLate \/ OthersChange \/ Synced
  \/ OpenEditor \/ SaveEvent \/ MoveEvent \/ UndoChange \/ UndoLapses
  \/ DeleteEvent \/ CancelDelete \/ BeginQuit \/ EndQuit
  \/ WritesMachine


(* A request ends, with an answer or by its timeout, and the wait ends.     *)
WritesFairness == WF_writesVars(WritesMachine)
WritesSpec == WritesInit /\ [][WritesNext]_writesVars /\ WritesFairness
-----------------------------------------------------------------------------
(* A delete whose Undo was answered true, and one dropped as PM began to    *)
(* quit, is never sent, however late the Undo and however long the quitting *)
(* (HeldDeletes::cancel, take, abandon_all).                                *)
LetGoIsKept ==
  /\ job.kind = "delete" => job.n \notin letGo
  /\ \A c \in late : c.kind = "delete" => c.n \notin letGo
  /\ event.who["there"] \notin letGo

(* Whatever of PM's lands, at once or late, lands on what the user saw: a   *)
(* delete on the event as the row showed it, a move on the time it was      *)
(* dragged from, a save on each field it sends as its editor had it, an     *)
(* Undo on what the write it undoes left (R2, delete_still_matches,         *)
(* timing_still_matches, update_check, still_holds).                        *)
LandsOnSeen(w) ==
  (\E f \in DOMAIN event.who : event.who[f] # w.n /\ event'.who[f] = w.n)
  => \A f \in DOMAIN w.saw : event.holds[f] = w.saw[f]
NothingUnseen == [][LandsOnSeen(CopyOf(job)) /\ \A c \in late : LandsOnSeen(c)]_writesVars

(* What the user is told of a write is so as it is told: what was saved is  *)
(* in Google, and of a write PM says changed nothing, nothing is there      *)
(* (review H1).  A copy that lands later is another matter.                 *)
InGoogle(w) ==
  IF w.kind = "delete" THEN ~event'.there
  ELSE \A f \in DOMAIN w.sent.puts : event'.holds[f] = w.sent.puts[f]
IsIn(n) == event'.who["there"] = n \/ (event'.there /\ \E f \in Fields : event'.who[f] = n)
ToldIsSo ==
  [][said' \notin {said, Unsaid} =>
       /\ said'.what = "saved" => InGoogle(job)
       /\ said'.what \in {"kept", "busy"} => ~IsIn(job.n)]_writesVars

(* A row answers Busy for as long as a write to it waits or is on its way, *)
(* every write ends, and no claim outlives them (InFlight, HeldClaim).      *)
BusyEnds ==
  (claimed \/ job # NoWrite \/ hold # NoHold) ~> (~claimed /\ job = NoWrite /\ hold = NoHold)
=============================================================================
