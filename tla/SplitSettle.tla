----------------------------- MODULE SplitSettle -----------------------------
(***************************************************************************)
(* A split its run left partial: PM looks at Google, holds it, and lets    *)
(* the user check again, finish it, or remove the new series.  The machine *)
(* `Settle` of calendar_write/series/run.rs, and the commands around it in *)
(* commands/calendar_edit.rs (land_split, look_and_hold, settle_split).    *)
(*                                                                         *)
(* What is known of the cut, and the etags its copies went out on, are how *)
(* the run ended: the run's own variables keep it.  The mirror in PM's     *)
(* database is left out; so are the occurrences of the new series changed  *)
(* on their own, which count as a change to the series.                    *)
(***************************************************************************)
EXTENDS SeriesRun

CONSTANT Menus  \* what a user may ask: each a subset of check, finish, remove

ASSUME SettlesASplit ==
  /\ Len(Plan) >= 2 /\ Plan[1] = "insert" /\ Plan[2] = "cut"
  /\ \A m \in Menus : m \subseteq {"check", "finish", "remove"}

VARIABLES
  stage,    \* where the command that has the split is
  menu,     \* what this user may ask of it
  asked,    \* what the user asked of it
  held,     \* what is held: the offers, and whether the new series changed
  sphase,   \* SettlePhase
  action,   \* SettleAction
  checked,  \* the new series' etag as last checked, 0 without one (tail_etag)
  result    \* what the last look or removal found (Settled), and its etag

settling == <<stage, menu, asked, held, sphase, action, checked, result>>
allVars == <<vars, settling>>

Stages == {"run", "landing", "held", "looking", "checking", "listing", "removing",
           "saved", "not_done", "removed", "original_gone", "tail_gone"}
Closed == {"saved", "not_done", "removed", "original_gone", "tail_gone"}
SettlePhases == {"tail_look1", "tail_look2", "tail_look3", "original_look", "fence", "relook",
                 "delete_look", "delete_look_again", "delete", "delete_again", "over"}
Results == {"none", "cut_done", "tail_there", "tail_absent", "cut_not_done", "cut_unproved",
            "removed", "original_gone", "unknown"}

NoResult == [found |-> "none", etag |-> 0]

SettleTypeOK ==
  /\ TypeOK
  /\ stage \in Stages
  /\ menu \in Menus /\ asked \in menu \cup {"check"}
  /\ held \in [offers : SUBSET {"check", "finish", "remove"}, changed : BOOLEAN]
  /\ sphase \in SettlePhases
  /\ action \in {"check", "remove"}
  /\ checked \in Nat
  /\ result \in [found : Results, etag : Nat]

SettleInit ==
  /\ Init
  /\ stage = "run"
  /\ menu \in Menus
  /\ asked = "check"
  /\ held = [offers |-> {}, changed |-> FALSE]
  /\ sphase = "over"
  /\ action = "check"
  /\ checked = 0
  /\ result = NoResult

-----------------------------------------------------------------------------
(* A bug: a run that stopped on an unknown answer is held as one whose cut  *)
(* never went.                                                              *)
CutKindOfTheEnd ==
  CASE outcome = "unknown" -> "not_sent"
    [] outcome = "not_done" /\ rollback = "unknown" -> "proved"
    [] OTHER -> "none"

(* What is known of the cut, read off how the run ended (cut_kind). *)
CutKind ==
  CASE outcome = "unknown" /\ at = 1 -> "not_sent"
    [] outcome = "unknown" /\ at = 2 /\ ends[1] = "done" -> "sent"
    [] outcome = "not_done" /\ rollback = "unknown" -> "proved"
    [] OTHER -> "none"

SentOn == IF CutKind = "sent" THEN copies.sentOn ELSE {}

(* The offers Google's state allows (offers_for), for a split still held. *)
Offered(found) ==
  CASE found = "cut_done" -> {"finish"}
    [] CutKind = "not_sent" /\ found = "tail_there" -> {"finish", "remove"}
    [] CutKind = "not_sent" /\ found \in {"tail_absent", "unknown"} -> {"remove", "check"}
    [] CutKind # "not_sent" /\ found = "cut_not_done" -> {"remove"}
    [] CutKind = "sent" /\ found = "cut_unproved" -> {"remove", "check"}
    [] CutKind = "proved" /\ found = "unknown" -> {"remove", "check"}
    [] OTHER -> {"check"}

(* While the new series is changed, neither its removal nor a Finish that   *)
(* would send the cut.                                                      *)
OffersFor(found, changed) ==
  IF ~changed THEN Offered(found)
  ELSE {"check"} \cup {o \in Offered(found) : o = "finish" /\ found = "cut_done"}

(* The new series as Google holds it now (tail_check); "unread" besides. *)
TailNow ==
  IF ev[1].st # "live" \/ ev[1].val # "new" THEN "gone"
  ELSE IF ev[1].etag = tag \/ ev[1].rest = "same" THEN "unchanged"
  ELSE "changed"
TailChecks == {"unread", TailNow}

-----------------------------------------------------------------------------
(* The machine Settle.                                                      *)

Begins(act, etag) ==
  /\ action' = act
  /\ checked' = etag
  /\ sphase' = IF CutKind = "sent" THEN "original_look" ELSE "tail_look1"

Finds(found, etag) ==
  /\ sphase' = "over"
  /\ result' = [found |-> found, etag |-> etag]
  /\ out' = Idle
  /\ UNCHANGED <<action, checked>>

(* A GET goes out; `Goes` when a write does. *)
LooksNext(p) == sphase' = p /\ out' = Idle /\ UNCHANGED <<action, checked, result>>
Goes(p, r) == sphase' = p /\ out' = r /\ UNCHANGED <<action, checked, result>>

Unmoved ==
  /\ UNCHANGED <<at, phase, ends, tag, copies, why, rollback, outcome, count>>
  /\ UNCHANGED <<stage, menu, asked, held>>

(* A bug: the etag checked is not the one deleted on. *)
DeleteTailAsItIs(e, again) ==
  IF e.st = "cancelled" THEN Finds("removed", 0)
  ELSE IF e.val = "new"
    THEN Goes(IF again THEN "delete_again" ELSE "delete", Request(1, "delete", e.etag))
    ELSE Finds("unknown", 0)

(* Delete the new series at Google's copy `e` of it: only while it is this  *)
(* plan's, and at the etag checked.                                         *)
DeleteTail(e, again) ==
  IF e.st = "cancelled" THEN Finds("removed", 0)
  ELSE IF e.val = "new" /\ checked \in {0, e.etag}
    THEN Goes(IF again THEN "delete_again" ELSE "delete", Request(1, "delete", e.etag))
    ELSE Finds("unknown", 0)

TailLooks == {"tail_look1", "tail_look2", "tail_look3"}

(* Settle::on_tail_look. *)
TailLook ==
  /\ sphase \in TailLooks
  /\ LET e == ev[1] IN
     \/ /\ e.st = "live"
        /\ CASE e.val # "new" -> Finds("unknown", 0)
             [] e.val = "new" /\ action = "remove" -> DeleteTail(e, FALSE)
             [] OTHER -> Finds(IF CutKind = "proved" THEN "cut_not_done" ELSE "tail_there", e.etag)
     \/ /\ e.st = "cancelled"
        /\ Finds(IF action = "check" /\ CutKind = "not_sent" THEN "tail_absent" ELSE "removed", 0)
     \/ /\ ~Shown(e)
        /\ IF CutKind # "proved" /\ sphase # "tail_look3"
           THEN LooksNext(IF sphase = "tail_look1" THEN "tail_look2" ELSE "tail_look3")
           ELSE Finds(IF CutKind # "proved" /\ action = "check" THEN "tail_absent" ELSE "removed", 0)
  /\ Unmoved
  /\ UNCHANGED google

(* A bug: an original seen uncut is proof, at whatever etag. *)
OriginalLookAlone ==
  /\ sphase = "original_look"
  /\ LET e == ev[2]
         verdict == Verdict("cut", e) IN
     CASE e.st # "live" -> Finds(IF action = "check" THEN "original_gone" ELSE "unknown", 0)
       [] e.st = "live" /\ verdict = "yes" -> Finds("cut_done", e.etag)
       [] e.st = "live" /\ verdict = "no" /\ action = "check" -> Finds("cut_not_done", 0)
       [] e.st = "live" /\ verdict = "no" /\ action = "remove" -> LooksNext("delete_look")
       [] OTHER -> Finds("unknown", 0)
  /\ Unmoved
  /\ UNCHANGED google

(* Settle::on_original. *)
OriginalLook ==
  /\ sphase = "original_look"
  /\ LET e == ev[2]
         verdict == Verdict("cut", e)
         atCut == e.etag \in SentOn IN
     \/ e.st # "live" /\ Finds(IF action = "check" THEN "original_gone" ELSE "unknown", 0)
     \/ e.st = "live" /\ verdict = "yes" /\ Finds("cut_done", e.etag)
     \/ e.st = "live" /\ verdict = "unknown" /\ Finds("unknown", 0)
     \/ /\ e.st = "live"
        /\ verdict = "no"
        /\ CASE action = "check" -> Finds(IF atCut THEN "cut_unproved" ELSE "cut_not_done", 0)
             [] action = "remove" /\ ~atCut -> LooksNext("delete_look")
             [] OTHER -> Goes("fence", Request(2, "fence", e.etag))
  /\ Unmoved
  /\ UNCHANGED google

(* A bug: a fence Google refused, or took and ignored, is taken for landed. *)
OnFenceTrusting(a) ==
  IF a.kind = "reply" /\ a.v \in {"ok", "conflict"} THEN LooksNext("delete_look")
                                                 ELSE Finds("unknown", 0)

(* Settle::on_fence: only a copy past every etag of the cut proves it not   *)
(* done; at one of them, or after a 412, look again.                        *)
OnFence(a) ==
  LET e == ev'[2]
      verdict == Verdict("cut", e) IN
  IF a.kind = "reply" /\ a.v = "ok" /\ a.body
  THEN CASE verdict = "yes" -> Finds("cut_done", e.etag)
         [] verdict = "no" /\ e.etag \notin SentOn -> LooksNext("delete_look")
         [] verdict = "no" /\ e.etag \in SentOn -> LooksNext("relook")
         [] OTHER -> Finds("unknown", 0)
  ELSE IF a.kind = "reply" /\ a.v = "conflict" /\ ~a.maybe THEN LooksNext("relook")
  ELSE Finds("unknown", 0)

(* Settle::on_delete. *)
OnDelete(a) ==
  CASE a.kind = "reply" /\ a.v \in {"ok", "gone"} -> Finds("removed", 0)
    [] a.kind = "reply" /\ a.v = "refused" /\ ~a.maybe -> Finds("unknown", 0)
    [] OTHER -> IF sphase = "delete" THEN LooksNext("delete_look_again") ELSE Finds("unknown", 0)

SettleWrites == {"fence", "delete", "delete_again"}

SettleAnswered ==
  /\ sphase \in SettleWrites
  /\ \E a \in Answers : Attempt(a) /\ IF sphase = "fence" THEN OnFence(a) ELSE OnDelete(a)
  /\ Unmoved

SettleTriedAgain ==
  /\ sphase \in SettleWrites
  /\ TriesAgain
  /\ Unmoved
  /\ UNCHANGED <<sphase, action, checked, result>>

(* Settle::on_relook. *)
Relook ==
  /\ sphase = "relook"
  /\ LET e == ev[2]
         verdict == Verdict("cut", e) IN
     CASE e.st = "live" /\ verdict = "yes" -> Finds("cut_done", e.etag)
       [] e.st = "live" /\ verdict = "no" /\ e.etag \notin SentOn -> LooksNext("delete_look")
       [] OTHER -> Finds("unknown", 0)
  /\ Unmoved
  /\ UNCHANGED google

(* Settle::on_delete_look. *)
DeleteLook ==
  /\ sphase \in {"delete_look", "delete_look_again"}
  /\ IF Shown(ev[1]) THEN DeleteTail(ev[1], sphase = "delete_look_again") ELSE Finds("removed", 0)
  /\ Unmoved
  /\ UNCHANGED google

(* A GET PM could not read. *)
SettleUnread ==
  /\ sphase \in TailLooks \cup {"original_look", "relook", "delete_look", "delete_look_again"}
  /\ Finds("unknown", 0)
  /\ Unmoved
  /\ UNCHANGED google

SettleMachine ==
  \/ TailLook \/ OriginalLook \/ SettleAnswered \/ SettleTriedAgain
  \/ Relook \/ DeleteLook \/ SettleUnread

-----------------------------------------------------------------------------
(* The commands.                                                            *)

Runs == stage = "run" /\ Machine /\ UNCHANGED settling

(* A command ends; of its machine nothing is kept. *)
LeavesAt(where) ==
  /\ stage' = where
  /\ asked' = "check" /\ action' = "check" /\ checked' = 0 /\ result' = NoResult
  /\ UNCHANGED <<vars, menu, sphase>>
Closes(where) == LeavesAt(where) /\ UNCHANGED held
HoldsAgain == Closes("held")
Holds(offers, changed) == LeavesAt("held") /\ held' = [offers |-> offers, changed |-> changed]

(* land_split: a run that left a split partial is looked at first.  Of the  *)
(* run its end is kept, and the etags the cut went out on (Ran).            *)
LandsRun ==
  /\ stage = "run"
  /\ phase = "over"
  /\ \/ CutKind = "none" /\ Closes(IF outcome = "done" THEN "saved" ELSE "not_done")
     \/ /\ CutKind # "none"
        /\ stage' = "landing"
        /\ Begins("check", 0)
        /\ copies' = [NoCopies EXCEPT !.sentOn = SentOn]
        /\ count' = [requests |-> 0, copies |-> 0]
        /\ UNCHANGED <<google, at, phase, ends, tag, out, why, rollback, outcome>>
        /\ UNCHANGED <<menu, asked, held, result>>

(* A bug: a look that found nothing out is made again. *)
LandsLookAgain ==
  /\ stage = "landing"
  /\ sphase = "over"
  /\ CASE result.found = "removed" -> Closes(IF CutKind = "proved" THEN "not_done" ELSE "removed")
       [] result.found = "original_gone" -> Closes("original_gone")
       [] result.found = "unknown" ->
            Begins("check", 0) /\ UNCHANGED <<vars, stage, menu, asked, held, result>>
       [] OTHER -> Holds(OffersFor(result.found, FALSE), FALSE)

(* look_and_hold. *)
LandsLook ==
  /\ stage = "landing"
  /\ sphase = "over"
  /\ CASE result.found = "removed" -> Closes(IF CutKind = "proved" THEN "not_done" ELSE "removed")
       [] result.found = "original_gone" -> Closes("original_gone")
       [] OTHER -> Holds(OffersFor(result.found, FALSE), FALSE)

(* The user asks; PM looks first, every time (settle_taken). *)
Ask ==
  /\ stage = "held"
  /\ asked' \in menu
  /\ stage' = "looking"
  /\ Begins("check", 0)
  /\ UNCHANGED <<vars, menu, held, result>>

Offers(changed) ==
  LET offers == OffersFor(result.found, changed) IN
  CASE result.found \in {"removed", "original_gone"} -> Closes(result.found)
    [] asked = "check" \/ asked \notin offers -> Holds(offers, changed)
    [] OTHER ->
         /\ stage' = "checking"
         /\ held' = [offers |-> offers, changed |-> changed]
         /\ UNCHANGED <<vars, menu, asked, action, checked, result, sphase>>

(* A new series seen changed before is read again. *)
OffersAfterLook ==
  /\ stage = "looking"
  /\ sphase = "over"
  /\ IF held.changed THEN \E t \in TailChecks : Offers(t \notin {"unchanged", "gone"})
                     ELSE Offers(FALSE)

(* remove_split, up to its machine. *)
RemoveChecks ==
  /\ stage = "checking"
  /\ asked = "remove"
  /\ \E t \in TailChecks :
       \/ t = "changed" /\ Holds({"check"}, TRUE)
       \/ t = "unread" /\ HoldsAgain
       \/ /\ t \in {"unchanged", "gone"}
          /\ stage' = "removing"
          /\ Begins("remove", IF t = "unchanged" THEN ev[1].etag ELSE 0)
          /\ UNCHANGED <<vars, menu, asked, held, result>>

RemoveEnds ==
  /\ stage = "removing"
  /\ sphase = "over"
  /\ IF result.found = "removed" THEN Closes("removed")
     ELSE Holds(OffersFor(result.found, held.changed), held.changed)

CutDone == result.found = "cut_done"

(* finish_split, up to its listing: of a new series that changed, only what *)
(* Google holds already stands.                                             *)
FinishChecks ==
  /\ stage = "checking"
  /\ asked = "finish"
  /\ \E t \in TailChecks :
       \/ t = "unread" /\ HoldsAgain
       \/ t = "gone" /\ CutDone /\ Closes("tail_gone")
       \/ t = "gone" /\ ~CutDone /\ Holds({"check"}, held.changed)
       \/ t = "changed" /\ ~CutDone /\ Holds({"check"}, TRUE)
       \/ /\ t = "unchanged" \/ (t = "changed" /\ CutDone)
          /\ stage' = "listing"
          /\ checked' = IF t = "changed" THEN 0 ELSE ev[1].etag
          /\ UNCHANGED <<vars, menu, asked, held, action, result, sphase>>

(* Run::finish: the run goes on from the step Google's copy proves. *)
RunsOn ==
  /\ LET step == IF CutDone THEN 2 ELSE 1 IN
     /\ ends' = [ends EXCEPT ![step] = "done"]
     /\ at' = step + 1
  /\ tag' = IF CutDone THEN tag ELSE result.etag
  /\ phase' = "start"
  /\ outcome' = "running"
  /\ copies' = NoCopies
  /\ stage' = "run"
  /\ asked' = "check" /\ action' = "check" /\ checked' = 0 /\ result' = NoResult
  /\ UNCHANGED <<google, out, why, rollback, count, menu, held, sphase>>

(* The original's exceptions listed again.  `changed` is whether they are   *)
(* still as the plan saw them, which the model leaves open.                 *)
FinishLists ==
  /\ stage = "listing"
  /\ \/ HoldsAgain
     \/ ~CutDone /\ ev[2].st # "live" /\ Closes("original_gone")
     \/ ~CutDone /\ ev[2].st = "live" /\ Holds({"remove"}, held.changed)
     \/ CutDone /\ Closes("saved")
     \/ (CutDone \/ ev[2].st = "live") /\ checked # 0 /\ RunsOn

Commands ==
  \/ LandsRun \/ LandsLook \/ OffersAfterLook
  \/ RemoveChecks \/ RemoveEnds \/ FinishChecks \/ FinishLists

SettleOthers == World /\ UNCHANGED <<machine, settling>>

SettleNext == Runs \/ SettleMachine \/ Commands \/ Ask \/ SettleOthers

(* As of a run: every request is answered or given up, so a command in hand *)
(* goes on.  The user need not ask.                                         *)
SettleSpec ==
  SettleInit /\ [][SettleNext]_allVars /\ WF_allVars(Runs \/ SettleMachine \/ Commands)

-----------------------------------------------------------------------------
(* Properties. *)

(* A delete of the new series is out, or on its way, and PM says removed or *)
(* not done (Settled::Removed, SplitRemoved, not_done_outcome), only while  *)
(* the original at Google, if it is still there, is not cut and nothing     *)
(* that can cut it is on its way, for the run's rollback and Remove alike.  *)
RemovalPending ==
  \/ \E c \in flight : c.e = 1 /\ c.op = "delete" /\ Accepts(c)
  \/ phase \in {"undo", "undo_again"}
  \/ sphase \in {"delete", "delete_again"}
RemovedOnProof ==
  RemovalPending \/ stage \in {"removed", "not_done"} => ~Landed(2) /\ ~Landable(2)

(* A change another client made to the new series is never deleted with it: *)
(* Remove deletes only the version it checked (Settle::tail_etag).          *)
Removes ==
  /\ ev[1].st = "live"
  /\ ev'[1].st = "cancelled"
  /\ edits' = edits
  /\ sphase \in {"delete", "delete_again"}
ChangedTailKept == [][Removes => ev[1].rest = "same" \/ ev[1].etag = tag]_allVars

(* It is kept where Remove's check found the new series there: not when the *)
(* check met a 404 and the series showed up after it.                       *)
CheckedTailKept ==
  [][Removes /\ checked # 0 => ev[1].rest = "same" \/ ev[1].etag = tag]_allVars

(* Every command comes to an answer: the split is held again, or settled. *)
CommandsEnd == stage # "held" ~> stage \in Closed \cup {"held"}
-----------------------------------------------------------------------------
(* The inductive invariant behind RemovedOnProof and NeverMissing, for users *)
(* who may ask for Finish or for Remove, not for both.                      *)
OneWay == \A m \in Menus : ~({"finish", "remove"} \subseteq m)

(* The cut is not at Google, and no copy of it can come to be. *)
NoCut == ~Landed(2) /\ ~Landable(2)

TailDelete(c) == c.e = 1 /\ c.op = "delete"

(* Of Google alone, so also after PM has stopped: the new series goes, or   *)
(* is missing, only for want of a cut.                                      *)
GoogleStands ==
  /\ EtagsCount
  /\ \A c \in flight :
       /\ OfThePlan(c) \/ (c.e = 2 /\ c.op = "fence")
       /\ Dated(c)
       /\ TailDelete(c) => NoCut
  /\ 1 \notin deleted /\ ev[1].st # "live" => NoCut

RunStands == stage = "run" => IInv /\ SeriesBehind /\ EndSays /\ result = NoResult

(* What the end of the run says of the cut stays so. *)
KindStands ==
  stage # "run" =>
    /\ phase = "over"
    /\ stage \notin Closed => CutKind # "none"
    /\ stage \in {"removed", "not_done"} \/ CutKind \in {"not_sent", "proved"} => NoCut
    /\ CutKind = "sent" => \A c \in flight : c.e = 2 /\ c.op = "cut" => c.tag \in copies.sentOn

OriginalPhases == {"original_look", "fence", "relook"}
DeletePhases == {"delete_look", "delete_look_again", "delete", "delete_again"}

(* The machine deletes only past every copy of the cut. *)
PhaseSays ==
  /\ sphase # "over" => stage \in {"landing", "looking", "removing"}
  /\ sphase \in TailLooks => CutKind \in {"not_sent", "proved"}
  /\ sphase \in OriginalPhases => CutKind = "sent"
  /\ sphase \in DeletePhases \/ result.found = "removed" => NoCut
  /\ sphase \in {"delete", "delete_again"} => TailDelete(out)
  /\ sphase = "fence" => out.e = 2 /\ out.op = "fence" /\ out.tag <= ev[2].etag

(* Only a Remove writes. *)
RemoveWrites ==
  /\ sphase \in {"fence", "relook"} \cup DeletePhases => action = "remove"
  /\ action = "remove" => stage = "removing"
  /\ stage = "removing" => asked = "remove"
  /\ stage = "listing" => asked = "finish"

(* A Finish may still go back to the run: of its copies nothing has changed. *)
FinishStands ==
  "finish" \in menu /\ stage \notin Closed \cup {"run"} /\ CutKind \in {"not_sent", "sent"} =>
    /\ \A c \in flight : OfThePlan(c) /\ ~TailDelete(c) /\ c.e <= at /\ MeetsThePlan(c)
    /\ \A i \in Steps : i > at => ~Landed(i)
    /\ PlannedAtFirst
    /\ CutKind = "sent" => ev[1].st # "none"
    /\ stage = "listing" => ev[1].st # "none" /\ (ev[1].st = "live" \/ 1 \in deleted)

(* A Finish is offered of a cut seen done, or of one that never went. *)
FinishOffered ==
  /\ result.found = "cut_done" => CutKind = "sent"
  /\ stage \in {"checking", "listing"} /\ asked = "finish" => CutDone \/ CutKind = "not_sent"

SettleInv ==
  /\ SettleTypeOK
  /\ GoogleStands
  /\ RunStands
  /\ KindStands
  /\ PhaseSays
  /\ RemoveWrites
  /\ FinishStands
  /\ FinishOffered

(* What PM has read of the new series is no newer than Google's copy of it. *)
TailDated ==
  /\ tag <= ev[1].etag
  /\ ~CutDone => result.etag <= ev[1].etag
  /\ sphase \in {"delete", "delete_again"} => ev[1].st # "none"
  /\ phase \in {"undo", "undo_again"} \/ sphase \in {"delete", "delete_again"} => out.tag <= ev[1].etag
  /\ \A c \in flight : TailDelete(c) => c.tag <= ev[1].etag

(* No delete goes out on a newer version than the one Remove checked. *)
TailChecked ==
  action = "remove" /\ checked # 0 =>
    /\ checked <= ev[1].etag
    /\ ev[1].st = "live" /\ ev[1].etag = checked => ev[1].rest = "same" \/ ev[1].etag = tag
    /\ sphase \in {"delete", "delete_again"} => out.tag = checked
    /\ \A c \in flight : TailDelete(c) => c.tag <= checked
=============================================================================
