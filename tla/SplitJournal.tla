---------------------------- MODULE SplitJournal ----------------------------
(***************************************************************************)
(* The record of a split (calendar_write/series/journal.rs): kept in the   *)
(* settings from before the first write until the split is settled, it is  *)
(* all that is left when PM stops half way.  After a restart PM reads      *)
(* Google's two series against it, in two GETs that are not one moment,    *)
(* and keeps the record, or forgets it.                                    *)
(*                                                                         *)
(* PM may stop at any moment of the run, of a look or of a command; what   *)
(* it has sent by then can still land.  The original's occurrences deleted *)
(* one by one are left out, so an uncut original overlaps the new series   *)
(* whenever its occurrences can be read (journal::backed).                 *)
(***************************************************************************)
EXTENDS SplitSettle

VARIABLES
  kept,     \* the record is in the settings
  stopped,  \* PM has stopped and started again since
  glimpse,  \* the series a save or its choices read first, and its copy
  seen,     \* ghost: PM has read the new series there
  altered   \* ghost: the original has held another rule than before the split

journal == <<kept, stopped, glimpse, seen, altered>>
journalVars == <<allVars, journal>>

Nothing == [e |-> 0, copy |-> [st |-> "none"]]

JournalTypeOK ==
  /\ SettleTypeOK
  /\ kept \in BOOLEAN /\ stopped \in BOOLEAN /\ seen \in BOOLEAN /\ altered \in BOOLEAN
  /\ glimpse \in {Nothing} \cup [e : {1, 2}, copy : Event]

(* The record is written before anything goes out (journal_add).            *)
JournalInit ==
  /\ SettleInit
  /\ kept = TRUE
  /\ stopped = FALSE /\ seen = FALSE /\ altered = FALSE
  /\ glimpse = Nothing

-----------------------------------------------------------------------------
(* What Google's copies say of the record (journal::orphan).                *)
Gone == [st |-> "none"]
Unread == [st |-> "unread"]

IsTail(copy) == copy.st = "live" /\ copy.val = "new"

(* Moving occurrences changed on their own is the part of a landed change   *)
(* that may be missing (Entry::cleanup).                                    *)
RuleSays(original) ==
  CASE Verdict("cut", original) = "yes" -> IF Len(Plan) > 2 THEN "cut_landed" ELSE "clear"
    [] Verdict("cut", original) = "no" -> "twice"
    [] Verdict("cut", original) = "unknown" -> "changed"

(* A bug: a series that could not be read is taken for one that is gone.    *)
OrphanOfUnread(tail, original) ==
  IF ~IsTail(tail) \/ original.st # "live" THEN "clear" ELSE RuleSays(original)

Orphan(tail, original) ==
  IF tail.st = "unread" \/ (IsTail(tail) /\ original.st = "unread") THEN "unknown"
  ELSE IF ~IsTail(tail) \/ original.st # "live" THEN "clear"
  ELSE RuleSays(original)

(* A save, or the choices before it, on the original or on the new series:  *)
(* PM reads that one first; one that is gone ends there.  A record that was *)
(* not forgotten, for want of the database, is read likewise without a      *)
(* restart.                                                                 *)
FirstRead ==
  /\ kept
  /\ stopped
  /\ glimpse = Nothing
  /\ \E i \in {1, 2} : ev[i].st = "live" /\ glimpse' = [e |-> i, copy |-> ev[i]]
  /\ seen' = (seen \/ glimpse'.e = 1)
  /\ UNCHANGED <<allVars, kept, stopped, altered>>

(* Then the other one, for the record on it (orphans_on).  An uncut         *)
(* original whose occurrences cannot be read is unknown (journal::backed).  *)
SecondRead ==
  /\ glimpse # Nothing
  /\ \E other \in {Unread, IF ev[3 - glimpse.e].st \in {"live", "cancelled"}
                             THEN ev[3 - glimpse.e] ELSE Gone} :
       LET tail == IF glimpse.e = 1 THEN glimpse.copy ELSE other
           original == IF glimpse.e = 1 THEN other ELSE glimpse.copy IN
       /\ kept' \in {kept, Orphan(tail, original) \in {"twice", "unknown"}}
       /\ seen' = (seen \/ tail.st = "live")
  /\ glimpse' = Nothing
  /\ UNCHANGED <<allVars, stopped, altered>>

-----------------------------------------------------------------------------
(* A quit or a crash: of the run, the held split and the command nothing is *)
(* left.                                                                    *)
Stops ==
  /\ ~stopped
  /\ kept
  /\ stopped' = TRUE
  /\ at' = 1 /\ phase' = "over" /\ ends' = [i \in Steps |-> "not_run"]
  /\ tag' = 0 /\ copies' = NoCopies /\ out' = Idle
  /\ why' = "none" /\ rollback' = "none" /\ outcome' = "running"
  /\ count' = [requests |-> 0, copies |-> 0]
  /\ stage' = "held" /\ menu' = (CHOOSE m \in Menus : TRUE) /\ asked' = "check"
  /\ held' = [offers |-> {}, changed |-> FALSE]
  /\ sphase' = "over" /\ action' = "check" /\ checked' = 0
  /\ result' = [found |-> "none", etag |-> 0]
  /\ glimpse' = Nothing
  /\ UNCHANGED <<google, kept, seen, altered>>

(* A bug: a split whose run ended unconfirmed is settled too. *)
EndsTheRecord == stage' # "run"

(* A split held again keeps its record; a settled one's goes, best effort   *)
(* (send_series, settle_split_once: forget).                                *)
EndsRecord == stage' \in Closed

(* PM has read the new series: its etag, or a look that found it there.     *)
SeesTail == tag' # 0 \/ result'.etag # 0 \/ sphase' \in {"delete", "delete_again"}

Settles ==
  /\ ~stopped
  /\ Runs \/ SettleMachine \/ Commands \/ Ask
  /\ kept' \in IF stage' # stage /\ EndsRecord THEN {kept, FALSE} ELSE {kept}
  /\ seen' = (seen \/ SeesTail)
  /\ altered' = (altered \/ ev'[2].val # "old")
  /\ UNCHANGED <<stopped, glimpse>>

GoogleGoesOn ==
  /\ SettleOthers
  /\ altered' = (altered \/ ev'[2].val # "old")
  /\ UNCHANGED <<kept, stopped, glimpse, seen>>

JournalNext == Settles \/ GoogleGoesOn \/ Stops \/ FirstRead \/ SecondRead

(* While PM is there its commands go on, as in SettleSpec. *)
JournalSpec ==
  JournalInit /\ [][JournalNext]_journalVars /\ WF_allVars(Runs \/ SettleMachine \/ Commands)

-----------------------------------------------------------------------------
(* The original still repeats past the split, as it always has, and the new *)
(* series is there beside it.                                               *)
ShowsTwice ==
  /\ ev[1].st = "live" /\ ev[1].val = "new"
  /\ ev[2].st = "live" /\ ev[2].val = "old"
  /\ ~altered

(* A split stopped half way is never forgotten while it shows twice: while  *)
(* the original keeps its rule and the new series PM has seen stands, the   *)
(* record stays, over restarts, unread series and reads of two moments      *)
(* (Orphan::Clear: "nothing can show twice. The entry goes.").              *)
TwiceIsOnRecord == [][kept /\ ~kept' => ~(seen /\ ShowsTwice)]_journalVars
-----------------------------------------------------------------------------
(* The inductive invariant: once PM has stopped, only Google's part is left. *)
JournalInv ==
  /\ SettleTypeOK
  /\ GoogleStands
  /\ stopped => sphase = "over" /\ phase = "over" /\ stage = "held"
  /\ ~stopped => SettleInv

(* What the record's ghosts stand for, and what a command ends on. *)
Recorded ==
  /\ ev[2].val # "old" => altered
  /\ seen \/ at >= 2 => ev[1].st # "none"
  /\ at > 2 \/ CutDone => altered
  /\ outcome = "done" => at > 2
  /\ seen /\ result.found = "removed" => ev[1].st # "live"
  /\ result.found = "original_gone" => ev[2].st # "live"
  /\ result.found \in {"removed", "original_gone"} =>
       sphase = "over" /\ stage \in {"landing", "looking", "removing"}

(* A copy read first still tells what it told, when the other is read. *)
Glimpsed ==
  glimpse # Nothing =>
    /\ stopped /\ glimpse.e \in {1, 2} /\ glimpse.copy.st = "live"
    /\ glimpse.e = 1 => ev[1].st # "none" /\ (ev[1].val = "new" => glimpse.copy.val = "new")
    /\ glimpse.e = 2 /\ glimpse.copy.val # "old" => altered

RecordInv == TailDated /\ TailChecked /\ Recorded /\ Glimpsed
=============================================================================
