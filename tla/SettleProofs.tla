---------------------------- MODULE SettleProofs ----------------------------
(* Settling a split, over restarts, for every split, every number of acts   *)
(* of other clients and every choice of faults: what is removed was never   *)
(* cut, no change but the one checked is deleted, and the record outlives   *)
(* what it is kept for.                                                     *)
(*                                                                          *)
(* All of it is for users who may ask for Finish or for Remove, not for     *)
(* both (OneWay): with both the first of these is false.  A Finish of a cut *)
(* that never went sends it, after a Remove whose delete may still land.    *)
(*                                                                          *)
(* The invariant is JournalInv.  Its part of Google alone (GoogleStands) is *)
(* carried by how etags move, so it outlives PM; the rest says of the       *)
(* commands and of the machine Settle what each rests on.  First Google and *)
(* the requests; then what the run's end says of the cut; then the machine, *)
(* one lemma per verb and per action; then the commands; then the run that  *)
(* a Finish goes on with, which starts where IInv of SeriesRun holds.       *)
(* RecordInv is carried over it: the etags PM knows are no newer than       *)
(* Google's, no delete goes out past the one checked, and what PM has seen  *)
(* or found of the two series is still so when the record goes.             *)
EXTENDS SplitJournal, SeriesRunEnds

USE DEF Inserts, Steps, Phases, WritePhases, LookPhases

-----------------------------------------------------------------------------
(* Google, and the requests of a split. *)

(* A split: the new series first, then the cut. *)
LEMMA SplitShape ==
  /\ 1 \in Steps /\ 2 \in Steps /\ Plan[1] = "insert" /\ Plan[2] = "cut"
  /\ Splits /\ ~Retry
  /\ \A i \in Steps : i > 1 => Plan[i] \notin {"insert", "create", "delete", "retime"}
  /\ \A i \in Steps : ~Cleanup(i) <=> i \in {1, 2}
<1>1. 1 \in Steps /\ 2 \in Steps /\ Plan[1] = "insert" /\ Plan[2] = "cut"
  BY PlanFacts, SettlesASplit
<1>2. IsSplit(Plan)
  BY <1>1, PlanAssumption DEF IsSplit, IsCutDelete, IsOneWrite
<1>3. \A i \in Steps : i > 2 => Plan[i] \in {"cancel", "carry"}
  BY <1>2 DEF IsSplit
<1>4. Splits /\ ~Retry
  BY <1>1, PlanShape, SettlesASplit DEF Splits
<1>5. \A i \in Steps : i = 1 \/ i = 2 \/ i > 2
  OBVIOUS
<1> QED
  BY <1>1, <1>3, <1>4, <1>5 DEF Cleanup

(* A write of PM's: one of the plan's, or the note on the original. *)
OfTheSplit(c) == OfThePlan(c) \/ (c.e = 2 /\ c.op = "fence")

(* What such a write does where Google takes it. *)
LEMMA SplitWriteMoves ==
  ASSUME GoogleTypeOK, EtagsCount, UNCHANGED deleted,
         NEW c \in Copy, OfTheSplit(c), Accepts(c),
         NEW f \in Effects(c.op, ev[c.e]), ev' = [ev EXCEPT ![c.e] = f]
  PROVE  /\ EtagsMove
         /\ \A i \in Steps : i # c.e => ev'[i] = ev[i]
         /\ Landed(2)' => Landed(2) \/ (c.e = 2 /\ c.op = "cut")
         /\ ev[1].st = "live" /\ ev'[1].st # "live" => TailDelete(c)
<1>1. CASE OfThePlan(c)
  <2>1. \A i \in Steps : Landed(i)' => Landed(i) \/ (i = c.e /\ c.op = Plan[i])
    BY <1>1, WriteLands
  <2>2. /\ EtagsMove
        /\ ev'[c.e] = f
        /\ \A i \in Steps : i # c.e => ev'[i] = ev[i]
        /\ f.st \in {"live", "cancelled"}
        /\ f.st = "cancelled" => c.op \in {"cancel", "delete"}
    BY <1>1, WriteMoves
  <2>3. c.e = 1 /\ c.op \in {"cancel", "delete"} => TailDelete(c)
    BY <1>1, SplitShape DEF OfThePlan, TailDelete
  <2> QED
    BY <2>1, <2>2, <2>3, SplitShape
<1>2. CASE c.e = 2 /\ c.op = "fence"
  <2> DEFINE m == Moved(ev[2])
  <2>1. f \in {m, ev[2]}
    BY <1>2 DEF Effects, Applied, FaultyEffects
  <2>2. ev[2] \in Event /\ ev[2].etag \in Nat /\ ev[2].st = "live"
    BY <1>2, SplitShape DEF GoogleTypeOK, Event, Accepts
  <2>3. m.st = "live" /\ m.val = ev[2].val /\ m.etag = ev[2].etag + 1
    BY <2>2 DEF Moved, Event
  <2> HIDE DEF m
  <2>4. ev'[2] = f /\ \A i \in Steps : i # 2 => ev'[i] = ev[i]
    BY <1>2, SplitShape DEF GoogleTypeOK
  <2>5. EtagsMove
    BY <2>1, <2>2, <2>3, <2>4 DEF EtagsMove
  <2>6. Landed(2)' => Landed(2)
    BY <2>1, <2>2, <2>3, <2>4, SplitShape DEF Landed
  <2> QED
    BY <1>2, <2>4, <2>5, <2>6, SplitShape
<1> QED
  BY <1>1, <1>2 DEF OfTheSplit

(* No copy of the cut comes to be acceptable, and none lands that could not. *)
LEMMA NoCutStays ==
  ASSUME GoogleTypeOK, GoogleTypeOK', EtagsMove, NoCut,
         \A c \in flight : Dated(c),
         \A c \in flight' : c \in flight \/ ~(c.e = 2 /\ c.op = "cut"),
         Landed(2)' => Landed(2)
  PROVE  NoCut'
<1> SUFFICES ASSUME NEW c \in flight', c.e = 2, c.op = "cut", Accepts(c)' PROVE FALSE
  BY SplitShape DEF NoCut, Landable
<1>1. c \in flight /\ c \in Copy
  BY DEF GoogleTypeOK
<1>2. c.tag <= ev[c.e].etag
  BY <1>1, SplitShape DEF Dated
<1>3. Accepts(c)
  BY <1>1, <1>2, AcceptsStays
<1> QED
  BY <1>1, <1>3, SplitShape DEF NoCut, Landable

(* Google's part of a step, whoever writes. *)
Steady ==
  /\ EtagsMove
  /\ deleted \subseteq deleted'
  /\ Landed(2)' => Landed(2) \/ Landable(2)

(* The new series goes by another client, or by a delete on its way. *)
TailGoes ==
  ev[1].st = "live" /\ ev'[1].st # "live" =>
    1 \in deleted' \/ \E c \in flight : TailDelete(c)

(* Late copies and other clients move Google so. *)
LEMMA WorldSteady ==
  ASSUME GoogleTypeOK, GoogleStands, World
  PROVE  Steady /\ flight' \subseteq flight /\ TailGoes
<1>1. EtagsCount /\ \A c \in flight : OfTheSplit(c) /\ c \in Copy
  BY DEF GoogleStands, OfTheSplit, GoogleTypeOK
<1>2. ASSUME NEW c \in flight, Land(c) PROVE Steady /\ flight' \subseteq flight /\ TailGoes
  <2>1. PICK f \in Effects(c.op, ev[c.e]) : ev' = [ev EXCEPT ![c.e] = f]
    BY <1>2 DEF Land
  <2>2. Accepts(c) /\ UNCHANGED deleted /\ flight' \subseteq flight
    BY <1>2 DEF Land
  <2>3. /\ EtagsMove
        /\ Landed(2)' => Landed(2) \/ (c.e = 2 /\ c.op = "cut")
        /\ ev[1].st = "live" /\ ev'[1].st # "live" => TailDelete(c)
    BY <1>1, <2>1, <2>2, SplitWriteMoves
  <2>4. c.e = 2 /\ c.op = "cut" => Landable(2)
    BY <2>2, SplitShape DEF Landable
  <2> QED
    BY <2>2, <2>3, <2>4 DEF Steady, TailGoes
<1>3. ASSUME NEW n \in Steps, OtherEdits(n) \/ OtherDeletes(n) \/ Purge(n) \/ Appear(n)
      PROVE  Steady /\ flight' \subseteq flight /\ TailGoes
  <2>1. deleted \subseteq deleted'
    BY <1>3 DEF OtherEdits, OtherDeletes, Purge, Appear
  <2> QED
    BY <1>1, <1>3, <2>1, OthersMove, SplitShape DEF Steady, TailGoes
<1> QED
  BY <1>2, <1>3 DEF World

(* Google's part of the invariant stays, where a new copy is dated and no   *)
(* delete of the new series unless there is no cut.                         *)
LEMMA GoogleStandsStep ==
  ASSUME GoogleTypeOK, GoogleTypeOK', GoogleStands, Steady,
         \A c \in flight' : c \in flight \/ (/\ OfTheSplit(c) /\ Dated(c)
                                             /\ ~(c.e = 2 /\ c.op = "cut")
                                             /\ (TailDelete(c) => NoCut)),
         ev[1].st = "live" /\ ev'[1].st # "live" => 1 \in deleted' \/ NoCut
  PROVE  GoogleStands' /\ (NoCut => NoCut')
<1>1. \A c \in flight : OfTheSplit(c) /\ Dated(c) /\ (TailDelete(c) => NoCut)
  BY DEF GoogleStands, OfTheSplit
<1>2. NoCut => NoCut'
  <2>1. NoCut => (Landed(2)' => Landed(2))
    BY DEF Steady, NoCut
  <2> QED
    BY <1>1, <2>1, NoCutStays DEF Steady
<1>3. EtagsCount' /\ \A i \in Steps : ev'[i].etag >= ev[i].etag
  BY EtagsStillCount DEF GoogleStands, Steady
<1>4. \A c \in flight' : OfTheSplit(c)' /\ Dated(c)' /\ (TailDelete(c) => NoCut')
  <2> SUFFICES ASSUME NEW c \in flight' PROVE OfTheSplit(c) /\ Dated(c)' /\ (TailDelete(c) => NoCut')
    BY DEF OfTheSplit, OfThePlan
  <2>1. OfTheSplit(c) /\ Dated(c) /\ (TailDelete(c) => NoCut)
    BY <1>1
  <2>2. c \in Copy /\ c.e \in Steps /\ c.tag \in Nat /\ ev[c.e].etag \in Nat /\ ev'[c.e].etag \in Nat
    BY DEF GoogleTypeOK, Copy, Event
  <2>3. Dated(c)'
    BY <1>3, <2>1, <2>2 DEF Dated
  <2> QED
    BY <1>2, <2>1, <2>3
<1>5. 1 \notin deleted' /\ ev'[1].st # "live" => NoCut'
  <2>1. 1 \notin deleted' => 1 \notin deleted
    BY DEF Steady
  <2> QED
    BY <1>2, <2>1 DEF GoogleStands
<1> QED
  BY <1>2, <1>3, <1>4, <1>5 DEF GoogleStands, OfTheSplit

(* A request of the settle's that Google answers, or not. *)
LEMMA RequestSteady ==
  ASSUME GoogleTypeOK, EtagsCount, out \in RequestType,
         OfTheSplit(CopyOf(out)), ~(out.e = 2 /\ out.op = "cut"),
         NEW a, Attempt(a) \/ TriesAgain
  PROVE  /\ EtagsMove
         /\ deleted' = deleted
         /\ flight' \subseteq flight \cup {CopyOf(out)}
         /\ Landed(2)' => Landed(2)
         /\ ev[1].st = "live" /\ ev'[1].st # "live" => TailDelete(out)
<1> DEFINE c == CopyOf(out)
<1>1. c \in Copy /\ c.e = out.e /\ c.op = out.op /\ c.tag = out.tag
  BY RequestTypes DEF CopyOf
<1>2. CASE UNCHANGED google
  BY <1>2 DEF google, EtagsMove, Landed
<1>3. CASE MayLand
  BY <1>3 DEF MayLand, EtagsMove, Landed
<1>4. CASE Taken(a)
  <2>1. PICK f \in Effects(out.op, ev[out.e]) : ev' = [ev EXCEPT ![out.e] = f]
    BY <1>4 DEF Taken
  <2>2. /\ Accepts(c) /\ UNCHANGED <<flight, deleted>>
        /\ f \in Effects(c.op, ev[c.e]) /\ ev' = [ev EXCEPT ![c.e] = f]
    BY <1>1, <1>4, <2>1 DEF Taken, Accepts
  <2> HIDE DEF c
  <2>3. OfTheSplit(c)
    BY DEF c
  <2>4. /\ EtagsMove
        /\ Landed(2)' => Landed(2) \/ (c.e = 2 /\ c.op = "cut")
        /\ ev[1].st = "live" /\ ev'[1].st # "live" => TailDelete(c)
    BY <1>1, <2>2, <2>3, SplitWriteMoves
  <2> QED
    BY <1>1, <2>2, <2>4 DEF TailDelete
<1> QED
  BY <1>2, <1>3, <1>4
     DEF Attempt, NeverSent, LostAnswer, ServerError, Refused, Unreadable, NoCalendar, Rejected, TriesAgain

(* While the run runs, Google's part follows from the run's invariant. *)
LEMMA NotDoneNoCut == IInv /\ TakenForNotDone => NoCut
<1> SUFFICES ASSUME IInv, TakenForNotDone PROVE NoCut
  OBVIOUS
<1>1. at \in Steps /\ ~Cleanup(at) /\ ~Landed(at) /\ ~Landable(at)
  BY DEF IInv, TakenIsProved
<1>2. CASE at = 2
  BY <1>1, <1>2 DEF NoCut
<1>3. CASE at = 1
  BY <1>3, SplitShape DEF IInv, LaterUntouched, CopiesBehind, NoCut, Landable
<1> QED
  BY <1>1, <1>2, <1>3, SplitShape

(* nor is there a cut before its step, *)
LEMMA FirstNoCut == IInv /\ at = 1 => NoCut
BY SplitShape DEF IInv, LaterUntouched, CopiesBehind, NoCut, Landable

(* and Google's part follows from the run's invariant. *)
LEMMA RunGoogleStands == IInv => GoogleStands
<1> SUFFICES ASSUME IInv PROVE GoogleStands
  OBVIOUS
<1>1. EtagsCount /\ \A c \in flight : OfThePlan(c) /\ Dated(c)
  BY DEF IInv, CopiesBehind
<1>2. \A c \in flight : TailDelete(c) => NoCut
  BY NotDoneNoCut, SplitShape DEF IInv, CopiesBehind, TailDelete
<1>3. 1 \notin deleted /\ ev[1].st # "live" => NoCut
  <2>1. at = 1 \/ at >= 2
    BY DEF IInv, TypeOK
  <2> QED
    BY <2>1, FirstNoCut, NotDoneNoCut, SplitShape DEF IInv, TailStands
<1> QED
  BY <1>1, <1>2, <1>3 DEF GoogleStands

(* How a run that is over left the cut (cut_kind). *)
LEMMA KindOfTheEnd ==
  ASSUME IInv, SeriesBehind, EndSays, phase = "over"
  PROVE  /\ CutKind \in {"none", "not_sent", "sent", "proved"}
         /\ CutKind = "none" => outcome = "done" \/ NoCut
         /\ CutKind \in {"not_sent", "proved"} => NoCut
         /\ CutKind = "not_sent" => at = 1 /\ outcome = "unknown"
         /\ CutKind = "sent" => at = 2 /\ outcome = "unknown" /\ ends[1] = "done" /\ ev[1].st # "none"
<1>1. /\ outcome \in {"done", "not_done", "unknown"}
      /\ outcome = "unknown" => at \in {1, 2}
      /\ outcome = "not_done" => NoCut
      /\ at = 1 => NoCut
  BY SplitShape, FirstNoCut, NotDoneNoCut DEF EndSays, IInv, TypeOK, TakenForNotDone
<1>2. at = 2 => ev[1].st # "none" /\ (outcome = "unknown" => ends[1] = "done")
  BY SplitShape DEF SeriesBehind
<1> QED
  BY <1>1, <1>2 DEF CutKind

(* Once the run is over what it says of the cut is fixed. *)
LEMMA KindStays ==
  UNCHANGED <<at, ends, outcome, rollback>> => CutKind' = CutKind
BY DEF CutKind

(* The cut is out where the original shows none, at an etag it never went   *)
(* out on.                                                                  *)
LEMMA NoCutSeen ==
  ASSUME KindStands, stage # "run", CutKind = "sent",
         Verdict("cut", ev[2]) = "no", ev[2].etag \notin SentOn
  PROVE  NoCut
<1>1. ~(ev[2].st = "live" /\ ev[2].val = "new")
  BY DEF Verdict, Shown
<1>2. \A c \in flight : c.e = 2 /\ c.op = "cut" => c.tag # ev[2].etag
  BY DEF KindStands, SentOn
<1> QED
  BY <1>1, <1>2, SplitShape DEF NoCut, Landed, Landable, Accepts

-----------------------------------------------------------------------------
(* The machine Settle: its verbs, *)

(* What a step of the machine Settle leaves to the commands. *)
Said == SettleTypeOK' /\ PhaseSays' /\ RemoveWrites' /\ FinishOffered'
Stood == RunStands' /\ KindStands' /\ FinishStands'

(* What a step of the machine keeps of the run's end, and of Google. *)
LEMMA MachineStands ==
  ASSUME SettleInv, sphase # "over", Unmoved, NoCut => NoCut',
         \A c \in flight' : c \in flight \/ ~(c.e = 2 /\ c.op = "cut"),
         UNCHANGED google \/ "finish" \notin menu
  PROVE  Stood /\ CutKind' = CutKind
<1>1. /\ stage' = stage /\ menu' = menu /\ stage # "run" /\ CutKind' = CutKind
      /\ UNCHANGED <<at, phase, copies>>
  BY KindStays DEF Unmoved, SettleInv, PhaseSays
<1>2. RunStands'
  BY <1>1 DEF RunStands
<1>3. KindStands'
  BY <1>1 DEF SettleInv, KindStands
<1>4. FinishStands'
  <2>1. CASE UNCHANGED google
    <3>1. UNCHANGED <<ev, flight, deleted>>
      BY <2>1 DEF google
    <3>2. \A c : (OfThePlan(c)' <=> OfThePlan(c)) /\ (MeetsThePlan(c)' <=> MeetsThePlan(c))
      BY <3>1 DEF OfThePlan, MeetsThePlan, Accepts, AsPlanned
    <3>3. (PlannedAtFirst' <=> PlannedAtFirst) /\ \A i \in Steps : Landed(i)' <=> Landed(i)
      BY <3>1 DEF PlannedAtFirst, AsPlanned, Landed
    <3> QED
      BY <1>1, <3>1, <3>2, <3>3 DEF SettleInv, FinishStands, TailDelete
  <2>2. CASE "finish" \notin menu
    BY <1>1, <2>2 DEF FinishStands
  <2> QED
    BY <2>1, <2>2
<1> QED
  BY <1>1, <1>2, <1>3, <1>4 DEF Stood

(* The types of what a step leaves, by the request that is out after it. *)
LEMMA VerbType ==
  ASSUME SettleInv, Unmoved, GoogleTypeOK', out' \in RequestType,
         sphase' \in SettlePhases, action' \in {"check", "remove"}, checked' \in Nat,
         result' \in [found : Results, etag : Nat]
  PROVE  SettleTypeOK'
<1>1. TypeOK'
  BY DEF Unmoved, SettleInv, SettleTypeOK, TypeOK
<1> QED
  BY <1>1 DEF Unmoved, SettleInv, SettleTypeOK

(* It has found something out, *)
LEMMA FindsSays ==
  ASSUME SettleInv, sphase # "over", Unmoved, GoogleTypeOK', CutKind' = CutKind,
         NEW found \in Results, NEW etag \in Nat, Finds(found, etag),
         found = "removed" => NoCut',
         found = "cut_done" => CutKind = "sent"
  PROVE  Said
<1>1. /\ sphase' = "over" /\ result' = [found |-> found, etag |-> etag] /\ out' = Idle
      /\ action' = action /\ checked' = checked
      /\ stage' = stage /\ asked' = asked
  BY DEF Finds, Unmoved
<1>2. result'.found = found /\ result' \in [found : Results, etag : Nat]
  BY <1>1
<1>3. SettleTypeOK'
  BY <1>1, <1>2, VerbType, RequestTypes DEF SettleInv, SettleTypeOK, SettlePhases
<1>4. PhaseSays'
  BY <1>1, <1>2 DEF PhaseSays, TailLooks, OriginalPhases, DeletePhases
<1>5. RemoveWrites'
  BY <1>1 DEF SettleInv, RemoveWrites, DeletePhases
<1>6. stage \notin {"checking", "listing"}
  BY DEF SettleInv, PhaseSays
<1> QED
  BY <1>1, <1>2, <1>3, <1>4, <1>5, <1>6 DEF Said, FinishOffered

(* a GET goes out, *)
LEMMA LooksSays ==
  ASSUME SettleInv, sphase # "over", Unmoved, GoogleTypeOK', CutKind' = CutKind, NoCut => NoCut',
         NEW p \in SettlePhases \ (SettleWrites \cup {"over"}), LooksNext(p),
         p \in TailLooks => CutKind \in {"not_sent", "proved"},
         p \in OriginalPhases => CutKind = "sent",
         p \in DeletePhases => NoCut',
         p \in {"relook"} \cup DeletePhases => action = "remove"
  PROVE  Said
<1>1. /\ sphase' = p /\ out' = Idle
      /\ UNCHANGED <<action, checked, result, stage, asked>>
      /\ p \notin {"over", "fence", "delete", "delete_again"} /\ p \in SettlePhases
  BY DEF LooksNext, Unmoved, SettleWrites
<1>2. SettleTypeOK'
  BY <1>1, VerbType, RequestTypes DEF SettleInv, SettleTypeOK
<1>3. stage \in {"landing", "looking", "removing"} /\ (result.found = "removed" => NoCut')
  BY DEF SettleInv, PhaseSays
<1>4. PhaseSays'
  BY <1>1, <1>3 DEF PhaseSays
<1>5. RemoveWrites'
  BY <1>1 DEF SettleInv, RemoveWrites
<1>6. FinishOffered'
  BY <1>1, <1>3 DEF SettleInv, FinishOffered
<1> QED
  BY <1>2, <1>4, <1>5, <1>6 DEF Said

(* or a write. *)
LEMMA GoesSays ==
  ASSUME SettleInv, sphase # "over", Unmoved, GoogleTypeOK', CutKind' = CutKind, NoCut => NoCut',
         action = "remove", NEW p \in SettleWrites, NEW r \in RequestType, Goes(p, r),
         p = "fence" => CutKind = "sent" /\ r.e = 2 /\ r.op = "fence" /\ r.tag <= ev'[2].etag,
         p \in {"delete", "delete_again"} => NoCut' /\ TailDelete(r)
  PROVE  Said
<1>1. /\ sphase' = p /\ out' = r
      /\ UNCHANGED <<action, checked, result, stage, asked>>
      /\ p \in {"fence", "delete", "delete_again"} /\ p \in SettlePhases
  BY DEF Goes, Unmoved, SettleWrites, SettlePhases
<1>2. SettleTypeOK'
  BY <1>1, VerbType DEF SettleInv, SettleTypeOK
<1>3. stage \in {"landing", "looking", "removing"} /\ (result.found = "removed" => NoCut')
  BY DEF SettleInv, PhaseSays
<1>4. PhaseSays'
  BY <1>1, <1>3 DEF PhaseSays, TailLooks, OriginalPhases, DeletePhases, TailDelete
<1>5. RemoveWrites'
  BY <1>1 DEF SettleInv, RemoveWrites
<1>6. FinishOffered'
  BY <1>1, <1>3 DEF SettleInv, FinishOffered
<1> QED
  BY <1>2, <1>4, <1>5, <1>6 DEF Said

(* The delete of the new series as it is, where there is no cut. *)
LEMMA DeleteTailSays ==
  ASSUME SettleInv, sphase # "over", Unmoved, GoogleTypeOK', CutKind' = CutKind,
         UNCHANGED google, NoCut, NoCut', action = "remove", NEW again \in BOOLEAN, DeleteTail(ev[1], again)
  PROVE  Said
<1>1. ev[1] \in Event /\ ev[1].etag \in Nat
  BY SplitShape DEF SettleInv, SettleTypeOK, TypeOK, GoogleTypeOK, Event
<1>2. Request(1, "delete", ev[1].etag) \in RequestType /\ TailDelete(Request(1, "delete", ev[1].etag))
  BY <1>1, RequestTypes, SplitShape DEF TailDelete, Request, Ops, Kinds
<1>3. \A p \in {"delete", "delete_again"} : Goes(p, Request(1, "delete", ev[1].etag)) => Said
  BY <1>2, GoesSays DEF SettleWrites
<1>4. Finds("removed", 0) \/ Finds("unknown", 0) => Said
  BY FindsSays DEF Results
<1> QED
  BY <1>3, <1>4 DEF DeleteTail

-----------------------------------------------------------------------------
(* its looks, *)

(* A look of the machine's leaves all but its own place. *)
LEMMA LookKeeps ==
  ASSUME SettleInv, sphase # "over", Unmoved, UNCHANGED google
  PROVE  /\ GoogleTypeOK' /\ GoogleStands' /\ Stood
         /\ NoCut' <=> NoCut
         /\ CutKind' = CutKind
<1>1. UNCHANGED <<ev, flight, edits, deleted>>
  BY DEF google
<1>2. NoCut' <=> NoCut
  BY <1>1 DEF NoCut, Landed, Landable, Accepts
<1>3. GoogleTypeOK'
  BY <1>1 DEF SettleInv, SettleTypeOK, TypeOK, GoogleTypeOK
<1>4. GoogleStands'
  BY <1>1, <1>2 DEF SettleInv, GoogleStands, EtagsCount, OfThePlan, Dated, TailDelete
<1> QED
  BY <1>1, <1>2, <1>3, <1>4, MachineStands

(* Settle::on_tail_look keeps the invariant, *)
LEMMA TailLookKeeps ==
  ASSUME SettleInv, TailLook
  PROVE  Said
<1>1. /\ Unmoved /\ UNCHANGED google /\ sphase \in TailLooks /\ sphase # "over"
      /\ CutKind \in {"not_sent", "proved"} /\ NoCut
      /\ stage # "run" /\ action \in {"check", "remove"}
  BY DEF TailLook, TailLooks, SettleInv, PhaseSays, KindStands, SettleTypeOK
<1>2. GoogleTypeOK' /\ CutKind' = CutKind /\ NoCut'
  BY <1>1, LookKeeps
<1>3. ev[1].etag \in Nat
  BY SplitShape DEF SettleInv, SettleTypeOK, TypeOK, GoogleTypeOK, Event
<1>4. \A found \in Results \ {"cut_done"}, etag \in Nat : Finds(found, etag) => Said
  BY <1>1, <1>2, FindsSays
<1>5. \A p \in {"tail_look2", "tail_look3"} : LooksNext(p) => Said
  BY <1>1, <1>2, LooksSays DEF SettlePhases, SettleWrites, TailLooks, OriginalPhases, DeletePhases
<1>6. action = "remove" /\ DeleteTail(ev[1], FALSE) => Said
  BY <1>1, <1>2, DeleteTailSays
<1> QED
  BY <1>1, <1>3, <1>4, <1>5, <1>6 DEF TailLook, Results

(* as does Settle::on_original, *)
LEMMA OriginalLookKeeps ==
  ASSUME SettleInv, OriginalLook
  PROVE  Said
<1>1. /\ Unmoved /\ UNCHANGED google /\ sphase = "original_look"
      /\ CutKind = "sent" /\ KindStands
      /\ stage # "run" /\ action \in {"check", "remove"}
  BY DEF OriginalLook, OriginalPhases, SettleInv, PhaseSays, SettleTypeOK
<1>2. GoogleTypeOK' /\ CutKind' = CutKind /\ (NoCut' <=> NoCut) /\ ev' = ev
  BY <1>1, LookKeeps DEF google
<1>3. ev[2].etag \in Nat
  BY SplitShape DEF SettleInv, SettleTypeOK, TypeOK, GoogleTypeOK, Event
<1>4. \A found \in Results \ {"removed"}, etag \in Nat : Finds(found, etag) => Said
  BY <1>1, <1>2, FindsSays
<1>5. NoCut /\ action = "remove" /\ LooksNext("delete_look") => Said
  BY <1>1, <1>2, LooksSays DEF SettlePhases, SettleWrites, TailLooks, OriginalPhases, DeletePhases
<1> DEFINE r == Request(2, "fence", ev[2].etag)
<1>6. r \in RequestType /\ r.e = 2 /\ r.op = "fence" /\ r.tag <= ev'[2].etag
  BY <1>2, <1>3, RequestTypes, SplitShape DEF Request, Ops
<1> HIDE DEF r
<1>7. action = "remove" /\ Goes("fence", r) => Said
  BY <1>1, <1>2, <1>6, GoesSays DEF SettleWrites
<1>8. Verdict("cut", ev[2]) = "no" /\ ev[2].etag \notin SentOn => NoCut
  BY <1>1, NoCutSeen
<1> QED
  BY <1>1, <1>3, <1>4, <1>5, <1>7, <1>8 DEF OriginalLook, Results, r

(* Settle::on_relook, *)
LEMMA RelookKeeps ==
  ASSUME SettleInv, Relook
  PROVE  Said
<1>1. /\ Unmoved /\ UNCHANGED google /\ sphase = "relook"
      /\ CutKind = "sent" /\ KindStands /\ stage # "run" /\ action = "remove"
  BY DEF Relook, OriginalPhases, SettleInv, PhaseSays, RemoveWrites
<1>2. GoogleTypeOK' /\ CutKind' = CutKind /\ (NoCut' <=> NoCut)
  BY <1>1, LookKeeps
<1>3. ev[2].etag \in Nat
  BY SplitShape DEF SettleInv, SettleTypeOK, TypeOK, GoogleTypeOK, Event
<1>4. \A found \in Results \ {"removed"}, etag \in Nat : Finds(found, etag) => Said
  BY <1>1, <1>2, FindsSays
<1>5. NoCut /\ LooksNext("delete_look") => Said
  BY <1>1, <1>2, LooksSays DEF SettlePhases, SettleWrites, TailLooks, OriginalPhases, DeletePhases
<1>6. Verdict("cut", ev[2]) = "no" /\ ev[2].etag \notin SentOn => NoCut
  BY <1>1, NoCutSeen
<1> QED
  BY <1>1, <1>3, <1>4, <1>5, <1>6 DEF Relook, Results

(* Settle::on_delete_look, *)
LEMMA DeleteLookKeeps ==
  ASSUME SettleInv, DeleteLook
  PROVE  Said
<1>1. /\ Unmoved /\ UNCHANGED google /\ sphase \in {"delete_look", "delete_look_again"}
      /\ NoCut /\ action = "remove" /\ sphase # "over"
  BY DEF DeleteLook, DeletePhases, SettleInv, PhaseSays, RemoveWrites
<1>2. GoogleTypeOK' /\ CutKind' = CutKind /\ NoCut'
  BY <1>1, LookKeeps
<1>3. Finds("removed", 0) => Said
  BY <1>1, <1>2, FindsSays DEF Results
<1>4. \A again \in BOOLEAN : DeleteTail(ev[1], again) => Said
  BY <1>1, <1>2, DeleteTailSays
<1> QED
  BY <1>3, <1>4 DEF DeleteLook

(* and a GET that could not be read. *)
LEMMA UnreadKeeps ==
  ASSUME SettleInv, SettleUnread
  PROVE  Said
<1>1. Unmoved /\ UNCHANGED google /\ sphase # "over" /\ Finds("unknown", 0)
  BY DEF SettleUnread, TailLooks
<1>2. GoogleTypeOK' /\ CutKind' = CutKind
  BY <1>1, LookKeeps
<1> QED
  BY <1>1, <1>2, FindsSays DEF Results

-----------------------------------------------------------------------------
(* its writes. *)

(* A user who may remove the split may not finish it. *)
LEMMA RemovesOnly ==
  ASSUME SettleInv, OneWay, action = "remove"
  PROVE  "finish" \notin menu
<1>1. menu \in Menus /\ "remove" \in menu
  BY DEF SettleInv, RemoveWrites, SettleTypeOK
<1> QED
  BY <1>1 DEF OneWay

(* The settle's own writes leave Google as the invariant has it. *)
LEMMA WriteStands ==
  ASSUME SettleInv, OneWay, sphase \in SettleWrites, Unmoved, GoogleTypeOK',
         NEW a, Attempt(a) \/ TriesAgain
  PROVE  /\ GoogleStands' /\ Stood
         /\ CutKind' = CutKind
         /\ NoCut => NoCut'
         /\ action = "remove"
         /\ EtagsMove
         /\ flight' \subseteq flight \cup {CopyOf(out)}
<1>1. /\ GoogleTypeOK /\ out \in RequestType /\ GoogleStands /\ EtagsCount
      /\ action = "remove" /\ sphase # "over"
  BY DEF SettleInv, SettleTypeOK, TypeOK, GoogleStands, RemoveWrites, SettleWrites, DeletePhases
<1> DEFINE c == CopyOf(out)
<1>2. c \in Copy /\ c.e = out.e /\ c.op = out.op /\ c.tag = out.tag
  BY <1>1, RequestTypes DEF CopyOf
<1>3. \/ out.e = 2 /\ out.op = "fence" /\ out.tag <= ev[2].etag
      \/ TailDelete(out) /\ NoCut
  BY DEF SettleInv, PhaseSays, SettleWrites, DeletePhases
<1>4. /\ OfTheSplit(c) /\ ~(c.e = 2 /\ c.op = "cut") /\ Dated(c)
      /\ TailDelete(c) => NoCut
  BY <1>2, <1>3, SplitShape DEF OfTheSplit, OfThePlan, Dated, TailDelete
<1>5. /\ EtagsMove
      /\ deleted' = deleted
      /\ flight' \subseteq flight \cup {c}
      /\ Landed(2)' => Landed(2)
      /\ ev[1].st = "live" /\ ev'[1].st # "live" => TailDelete(out)
  BY <1>1, <1>2, <1>4, RequestSteady
<1>6. TailDelete(out) => NoCut
  BY <1>3 DEF TailDelete
<1> HIDE DEF c
<1>7. Steady
  BY <1>5 DEF Steady
<1>8. \A d \in flight' : d \in flight \/ (/\ OfTheSplit(d) /\ Dated(d)
                                          /\ ~(d.e = 2 /\ d.op = "cut")
                                          /\ (TailDelete(d) => NoCut))
  BY <1>4, <1>5
<1>9. GoogleStands' /\ (NoCut => NoCut')
  BY <1>1, <1>5, <1>6, <1>7, <1>8, GoogleStandsStep
<1>10. Stood /\ CutKind' = CutKind
  BY <1>1, <1>8, <1>9, RemovesOnly, MachineStands
<1> QED
  BY <1>1, <1>5, <1>9, <1>10 DEF c

(* Settle::on_fence and Settle::on_delete keep the invariant, *)
LEMMA AnsweredKeeps ==
  ASSUME SettleInv, OneWay, SettleAnswered
  PROVE  Said /\ GoogleStands' /\ Stood
<1>1. PICK a \in Answers : Attempt(a) /\ IF sphase = "fence" THEN OnFence(a) ELSE OnDelete(a)
  BY DEF SettleAnswered
<1>2. /\ Unmoved /\ sphase \in SettleWrites /\ sphase # "over"
      /\ GoogleTypeOK /\ out \in RequestType
  BY DEF SettleAnswered, SettleWrites, SettleInv, SettleTypeOK, TypeOK
<1>3. GoogleTypeOK'
  BY <1>1, <1>2, AttemptType
<1>4. /\ GoogleStands' /\ Stood /\ CutKind' = CutKind /\ (NoCut => NoCut')
      /\ action = "remove"
      /\ flight' \subseteq flight \cup {CopyOf(out)}
  BY <1>1, <1>2, <1>3, WriteStands
<1>5. \A found \in Results \ {"removed", "cut_done"} : Finds(found, 0) => Said
  BY <1>2, <1>3, <1>4, FindsSays
<1>6. CASE sphase = "fence"
  <2>1. /\ CutKind = "sent" /\ KindStands /\ stage # "run"
        /\ out.e = 2 /\ out.op = "fence"
    BY <1>6 DEF SettleInv, PhaseSays, OriginalPhases
  <2>2. \A c \in flight' : c.e = 2 /\ c.op = "cut" => c.tag \in SentOn
    BY <1>4, <2>1 DEF KindStands, SentOn, CopyOf
  <2>3. Verdict("cut", ev'[2]) = "no" /\ ev'[2].etag \notin SentOn => NoCut'
    BY <2>2, SplitShape DEF Verdict, Shown, NoCut, Landed, Landable, Accepts
  <2>4. ev'[2].etag \in Nat
    BY <1>3, SplitShape DEF GoogleTypeOK, Event
  <2>5. Finds("cut_done", ev'[2].etag) => Said
    BY <1>2, <1>3, <1>4, <2>1, <2>4, FindsSays DEF Results
  <2>6. LooksNext("relook") => Said
    BY <1>2, <1>3, <1>4, <2>1, LooksSays DEF SettlePhases, SettleWrites, TailLooks, DeletePhases
  <2>7. NoCut' /\ LooksNext("delete_look") => Said
    BY <1>2, <1>3, <1>4, LooksSays DEF SettlePhases, SettleWrites, TailLooks, OriginalPhases
  <2>8. Finds("unknown", 0) => Said
    BY <1>5 DEF Results
  <2>9. OnFence(a)
    BY <1>1, <1>6
  <2> QED
    BY <1>4, <2>3, <2>5, <2>6, <2>7, <2>8, <2>9 DEF OnFence
<1>7. CASE sphase # "fence"
  <2>1. NoCut'
    BY <1>2, <1>4, <1>7 DEF SettleInv, PhaseSays, SettleWrites, DeletePhases
  <2>2. Finds("removed", 0) => Said
    BY <1>2, <1>3, <1>4, <2>1, FindsSays DEF Results
  <2>3. LooksNext("delete_look_again") => Said
    BY <1>2, <1>3, <1>4, <2>1, LooksSays DEF SettlePhases, SettleWrites, TailLooks, OriginalPhases
  <2>4. Finds("unknown", 0) => Said
    BY <1>5 DEF Results
  <2>5. OnDelete(a)
    BY <1>1, <1>7
  <2> QED
    BY <1>4, <2>2, <2>3, <2>4, <2>5 DEF OnDelete
<1> QED
  BY <1>6, <1>7

(* as does a write tried again. *)
LEMMA TriedAgainKeeps ==
  ASSUME SettleInv, OneWay, SettleTriedAgain
  PROVE  Said /\ GoogleStands' /\ Stood
<1>1. /\ Unmoved /\ sphase \in SettleWrites /\ TriesAgain
      /\ UNCHANGED <<sphase, action, checked, result>>
      /\ GoogleTypeOK /\ out \in RequestType
  BY DEF SettleTriedAgain, SettleInv, SettleTypeOK, TypeOK
<1>2. /\ GoogleTypeOK'
      /\ out' \in RequestType /\ out'.e = out.e /\ out'.op = out.op /\ out'.tag = out.tag
  <2>1. GoogleTypeOK'
    BY <1>1, MayLandType DEF TriesAgain, google, GoogleTypeOK
  <2>2. out' = [out EXCEPT !.attempt = 2, !.maybe = TRUE] \/ out' = [out EXCEPT !.attempt = 2]
    BY <1>1 DEF TriesAgain
  <2> QED
    BY <1>1, <2>1, <2>2 DEF RequestType
<1>3. /\ GoogleStands' /\ Stood /\ CutKind' = CutKind /\ (NoCut => NoCut')
      /\ EtagsMove
  BY <1>1, <1>2, WriteStands
<1>4. stage' = stage /\ asked' = asked
  BY <1>1 DEF Unmoved
<1>5. SettleTypeOK'
  BY <1>1, <1>2, VerbType DEF SettleInv, SettleTypeOK
<1>6. PhaseSays'
  <2>1. ev'[2].etag >= ev[2].etag /\ ev[2].etag \in Nat /\ ev'[2].etag \in Nat /\ out.tag \in Nat
    BY <1>1, <1>2, <1>3, EtagsStillCount, SplitShape
       DEF SettleInv, GoogleStands, GoogleTypeOK, Event, RequestType
  <2>2. sphase = "fence" => out'.e = 2 /\ out'.op = "fence" /\ out'.tag <= ev'[2].etag
    BY <1>2, <2>1 DEF SettleInv, PhaseSays
  <2>3. sphase \in {"delete", "delete_again"} => TailDelete(out)'
    BY <1>2 DEF SettleInv, PhaseSays, TailDelete
  <2> QED
    BY <1>1, <1>3, <1>4, <2>2, <2>3 DEF SettleInv, PhaseSays
<1>7. RemoveWrites' /\ FinishOffered'
  <2>1. CutDone' = CutDone
    BY <1>1 DEF CutDone
  <2> QED
    BY <1>1, <1>3, <1>4, <2>1 DEF SettleInv, RemoveWrites, FinishOffered
<1> QED
  BY <1>3, <1>5, <1>6, <1>7 DEF Said

(* A step of the machine Settle keeps the invariant. *)
LEMMA SettleMachineKeeps ==
  ASSUME SettleInv, OneWay, SettleMachine
  PROVE  SettleInv'
<1>1. CASE TailLook \/ OriginalLook \/ Relook \/ DeleteLook \/ SettleUnread
  <2>1. Unmoved /\ UNCHANGED google /\ sphase # "over"
    BY <1>1 DEF TailLook, OriginalLook, Relook, DeleteLook, SettleUnread, TailLooks
  <2>2. GoogleStands' /\ Stood
    BY <2>1, LookKeeps
  <2>3. Said
    BY <1>1, TailLookKeeps, OriginalLookKeeps, RelookKeeps, DeleteLookKeeps, UnreadKeeps
  <2> QED
    BY <2>2, <2>3 DEF Said, Stood, SettleInv
<1>2. CASE SettleAnswered \/ SettleTriedAgain
  <2>1. Said /\ GoogleStands' /\ Stood
    BY <1>2, AnsweredKeeps, TriedAgainKeeps
  <2> QED
    BY <2>1 DEF Said, Stood, SettleInv
<1> QED
  BY <1>1, <1>2 DEF SettleMachine

-----------------------------------------------------------------------------
(* The commands. *)

(* What is said of Google alone stays while Google does. *)
LEMMA GoogleStill ==
  ASSUME UNCHANGED google
  PROVE  /\ NoCut' <=> NoCut
         /\ GoogleTypeOK => GoogleTypeOK'
         /\ EtagsCount => EtagsCount'
         /\ GoogleStands => GoogleStands'
         /\ PlannedAtFirst' <=> PlannedAtFirst
         /\ \A i \in Steps : Landed(i)' <=> Landed(i)
         /\ \A c : (Dated(c)' <=> Dated(c)) /\ (MeetsThePlan(c)' <=> MeetsThePlan(c))
<1>1. UNCHANGED <<ev, flight, edits, deleted>>
  BY DEF google
<1>2. NoCut' <=> NoCut
  BY <1>1 DEF NoCut, Landed, Landable, Accepts
<1>3. GoogleTypeOK => GoogleTypeOK'
  BY <1>1 DEF GoogleTypeOK
<1>4. EtagsCount => EtagsCount'
  BY <1>1 DEF EtagsCount
<1>5. GoogleStands => GoogleStands'
  BY <1>1, <1>2, <1>4 DEF GoogleStands, OfThePlan, Dated, TailDelete
<1>6. (PlannedAtFirst' <=> PlannedAtFirst) /\ \A i \in Steps : Landed(i)' <=> Landed(i)
  BY <1>1 DEF PlannedAtFirst, AsPlanned, Landed
<1>7. \A c : (Dated(c)' <=> Dated(c)) /\ (MeetsThePlan(c)' <=> MeetsThePlan(c))
  BY <1>1 DEF Dated, MeetsThePlan, Accepts, AsPlanned
<1> QED
  BY <1>2, <1>3, <1>4, <1>5, <1>6, <1>7

(* A command between its looks: what it rests on stays. *)
LEMMA BetweenStands ==
  ASSUME SettleInv, UNCHANGED <<vars, menu>>, stage \notin Closed \cup {"run"},
         stage' # "run",
         stage' \in {"removed", "not_done"} => NoCut,
         stage' = "listing" => ev[1].st = "live"
  PROVE  /\ TypeOK' /\ GoogleStands' /\ Stood
         /\ CutKind' = CutKind /\ CutKind # "none"
         /\ NoCut' <=> NoCut
<1>1. /\ UNCHANGED <<google, at, phase, ends, tag, copies, out, why, rollback, outcome, count>>
      /\ UNCHANGED <<ev, flight, deleted>> /\ menu' = menu
  BY DEF vars, machine, google
<1>2. TypeOK' /\ GoogleStands' /\ (NoCut' <=> NoCut) /\ CutKind' = CutKind
  BY <1>1, GoogleStill, KindStays DEF SettleInv, SettleTypeOK, TypeOK
<1>3. CutKind # "none"
  BY DEF SettleInv, KindStands
<1>4. RunStands' /\ KindStands'
  BY <1>1, <1>2, <1>3 DEF SettleInv, RunStands, KindStands
<1>5. FinishStands'
  <2>1. \A c : OfThePlan(c)' <=> OfThePlan(c)
    BY DEF OfThePlan
  <2>2. \A c : TailDelete(c)' <=> TailDelete(c)
    BY DEF TailDelete
  <2>3. \A c : MeetsThePlan(c)' <=> MeetsThePlan(c)
    BY <1>1, GoogleStill
  <2>4. (PlannedAtFirst' <=> PlannedAtFirst) /\ \A i \in Steps : Landed(i)' <=> Landed(i)
    BY <1>1, GoogleStill
  <2> QED
    BY <1>1, <1>2, <2>1, <2>2, <2>3, <2>4 DEF SettleInv, FinishStands
<1> QED
  BY <1>2, <1>3, <1>4, <1>5 DEF Stood

(* A command ends, its split held again or settled. *)
LEMMA LeavesKeeps ==
  ASSUME SettleInv, stage \notin Closed \cup {"run"}, sphase = "over",
         NEW where \in Closed \cup {"held"}, LeavesAt(where),
         where \in {"removed", "not_done"} => NoCut,
         held' \in [offers : SUBSET {"check", "finish", "remove"}, changed : BOOLEAN]
  PROVE  SettleInv'
<1>1. /\ stage' = where /\ asked' = "check" /\ action' = "check" /\ checked' = 0
      /\ result' = NoResult /\ UNCHANGED <<vars, menu>> /\ sphase' = "over"
      /\ where \in Stages /\ where \notin {"run", "listing", "removing", "checking"}
  BY DEF LeavesAt, Closed, Stages
<1>2. /\ TypeOK' /\ GoogleStands' /\ Stood
      /\ NoCut' <=> NoCut
  BY <1>1, BetweenStands
<1>3. result'.found = "none" /\ NoResult \in [found : Results, etag : Nat]
  BY <1>1 DEF NoResult, Results
<1>4. SettleTypeOK'
  BY <1>1, <1>2, <1>3 DEF SettleInv, SettleTypeOK, SettlePhases
<1>5. PhaseSays'
  BY <1>1, <1>3 DEF PhaseSays, TailLooks, OriginalPhases, DeletePhases
<1>6. RemoveWrites' /\ FinishOffered'
  BY <1>1, <1>3 DEF RemoveWrites, FinishOffered, DeletePhases
<1> QED
  BY <1>2, <1>4, <1>5, <1>6 DEF SettleInv, Stood

(* The machine Settle is started. *)
LEMMA BeginsKeeps ==
  ASSUME SettleInv, stage \notin Closed \cup {"run"}, UNCHANGED <<vars, menu, held, result>>,
         NEW act \in {"check", "remove"}, NEW etag \in Nat, Begins(act, etag),
         stage' \in {"looking", "removing"}, asked' \in menu \cup {"check"},
         act = "remove" <=> stage' = "removing",
         stage' = "removing" => asked' = "remove"
  PROVE  SettleInv'
<1>1. /\ TypeOK' /\ GoogleStands' /\ Stood
      /\ CutKind' = CutKind /\ CutKind # "none"
      /\ NoCut' <=> NoCut
  BY BetweenStands
<1>2. CutKind \in {"not_sent", "sent", "proved"}
  BY <1>1 DEF CutKind
<1>3. /\ action' = act /\ checked' = etag
      /\ sphase' = IF CutKind = "sent" THEN "original_look" ELSE "tail_look1"
      /\ UNCHANGED <<menu, held, result>>
  BY DEF Begins
<1>4. SettleTypeOK'
  BY <1>1, <1>3 DEF SettleInv, SettleTypeOK, SettlePhases, Stages
<1>5. PhaseSays'
  BY <1>1, <1>2, <1>3 DEF SettleInv, PhaseSays, TailLooks, OriginalPhases, DeletePhases
<1>6. RemoveWrites' /\ FinishOffered'
  BY <1>1, <1>3 DEF SettleInv, RemoveWrites, FinishOffered, DeletePhases
<1> QED
  BY <1>1, <1>4, <1>5, <1>6 DEF SettleInv, Stood

(* The user's command goes on past its look, or its check. *)
LEMMA GoesOnKeeps ==
  ASSUME SettleInv, stage \in {"looking", "checking"}, sphase = "over",
         stage' \in {"checking", "listing"},
         UNCHANGED <<vars, menu, asked, action, result, sphase>>,
         held' \in [offers : SUBSET {"check", "finish", "remove"}, changed : BOOLEAN],
         checked' \in Nat,
         asked = "finish" => CutDone \/ CutKind = "not_sent",
         stage' = "listing" => ev[1].st = "live" /\ asked = "finish"
  PROVE  SettleInv'
<1>1. /\ TypeOK' /\ GoogleStands' /\ Stood
      /\ CutKind' = CutKind
      /\ NoCut' <=> NoCut
  BY BetweenStands DEF Closed
<1>2. /\ UNCHANGED <<menu, asked, action, result>> /\ sphase' = "over"
      /\ CutDone' = CutDone
  BY DEF CutDone
<1>3. SettleTypeOK'
  BY <1>1, <1>2 DEF SettleInv, SettleTypeOK, Stages
<1>4. PhaseSays'
  BY <1>1, <1>2 DEF SettleInv, PhaseSays, TailLooks, OriginalPhases, DeletePhases
<1>5. RemoveWrites'
  BY <1>2 DEF SettleInv, RemoveWrites, DeletePhases
<1>6. FinishOffered'
  BY <1>1, <1>2 DEF SettleInv, FinishOffered
<1> QED
  BY <1>1, <1>3, <1>4, <1>5, <1>6 DEF SettleInv, Stood

(* Its two ends: closed, or held again. *)
LEMMA EndsKeep ==
  ASSUME SettleInv, stage \notin Closed \cup {"run"}, sphase = "over"
  PROVE  /\ \A where \in Closed : Closes(where) /\ (where \in {"removed", "not_done"} => NoCut)
                                    => SettleInv'
         /\ HoldsAgain => SettleInv'
         /\ \A offers \in SUBSET {"check", "finish", "remove"}, changed \in BOOLEAN :
              Holds(offers, changed) => SettleInv'
<1> DEFINE HeldType == [offers : SUBSET {"check", "finish", "remove"}, changed : BOOLEAN]
<1>1. held \in HeldType
  BY DEF SettleInv, SettleTypeOK
<1>2. "held" \notin {"removed", "not_done"}
  OBVIOUS
<1>3. ASSUME NEW where \in Closed, Closes(where), where \in {"removed", "not_done"} => NoCut
      PROVE  SettleInv'
  BY <1>1, <1>3, LeavesKeeps DEF Closes
<1>4. HoldsAgain => SettleInv'
  BY <1>1, <1>2, LeavesKeeps DEF HoldsAgain, Closes
<1>5. ASSUME NEW offers \in SUBSET {"check", "finish", "remove"}, NEW changed \in BOOLEAN,
             Holds(offers, changed)
      PROVE  SettleInv'
  BY <1>2, <1>5, LeavesKeeps DEF Holds
<1> QED
  BY <1>3, <1>4, <1>5

(* What may be offered at all. *)
LEMMA OffersTyped ==
  \A found, changed : OffersFor(found, changed) \subseteq {"check", "finish", "remove"}
BY DEF OffersFor, Offered

(* A Finish is offered only of a cut seen done, or never sent. *)
LEMMA FinishIsOffered ==
  ASSUME NEW changed, "finish" \in OffersFor(result.found, changed)
  PROVE  CutDone \/ CutKind = "not_sent"
BY DEF OffersFor, Offered, CutDone

(* look_and_hold keeps the invariant, *)
LEMMA LandsLookKeeps ==
  ASSUME SettleInv, LandsLook
  PROVE  SettleInv'
<1>1. stage \notin Closed \cup {"run"} /\ sphase = "over"
  BY DEF LandsLook, Closed
<1>2. result.found = "removed" => NoCut
  BY DEF SettleInv, PhaseSays
<1>3. {"removed", "not_done", "original_gone"} \subseteq Closed
  BY DEF Closed
<1> QED
  BY <1>1, <1>2, <1>3, EndsKeep, OffersTyped DEF LandsLook

(* what follows a look of the user's, *)
LEMMA OffersKeep ==
  ASSUME SettleInv, stage = "looking", sphase = "over", NEW changed \in BOOLEAN, Offers(changed)
  PROVE  SettleInv'
<1>1. stage \notin Closed \cup {"run"}
  BY DEF Closed
<1>2. result.found = "removed" => NoCut
  BY DEF SettleInv, PhaseSays
<1>3. {"removed", "original_gone"} \subseteq Closed
  BY DEF Closed
<1> DEFINE offers == OffersFor(result.found, changed)
<1>4. offers \in SUBSET {"check", "finish", "remove"}
  BY OffersTyped
<1>5. asked \in offers /\ asked = "finish" => CutDone \/ CutKind = "not_sent"
  BY FinishIsOffered
<1> DEFINE goes == /\ stage' = "checking"
                /\ held' = [offers |-> offers, changed |-> changed]
                /\ UNCHANGED <<vars, menu, asked, action, checked, result, sphase>>
<1>o. \/ result.found \in {"removed", "original_gone"} /\ Closes(result.found)
      \/ Holds(offers, changed)
      \/ asked \in offers /\ goes
  BY DEF Offers
<1> HIDE DEF offers
<1>6. CASE result.found \in {"removed", "original_gone"} /\ Closes(result.found)
  BY <1>1, <1>2, <1>3, <1>6, EndsKeep
<1>7. CASE Holds(offers, changed)
  BY <1>1, <1>4, <1>7, EndsKeep
<1>8. CASE asked \in offers /\ goes
  <2>1. held' \in [offers : SUBSET {"check", "finish", "remove"}, changed : BOOLEAN]
    BY <1>4, <1>8
  <2>2. checked' \in Nat
    BY <1>8 DEF SettleInv, SettleTypeOK
  <2> QED
    BY <1>5, <1>8, <2>1, <2>2, GoesOnKeeps
<1> QED
  BY <1>o, <1>6, <1>7, <1>8

(* the new series read again, *)
LEMMA OffersAfterLookKeeps ==
  ASSUME SettleInv, OffersAfterLook
  PROVE  SettleInv'
BY OffersKeep DEF OffersAfterLook

(* the user asking, *)
LEMMA AskKeeps ==
  ASSUME SettleInv, Ask
  PROVE  SettleInv'
<1>1. /\ stage \notin Closed \cup {"run"} /\ stage' = "looking" /\ asked' \in menu
      /\ UNCHANGED <<vars, menu, held, result>> /\ Begins("check", 0)
  BY DEF Ask, Closed
<1> QED
  BY <1>1, BeginsKeeps

(* remove_split, *)
LEMMA RemoveKeeps ==
  ASSUME SettleInv, RemoveChecks \/ RemoveEnds
  PROVE  SettleInv'
<1>1. /\ stage \notin Closed \cup {"run"} /\ sphase = "over"
      /\ held.changed \in BOOLEAN
  BY DEF RemoveChecks, RemoveEnds, Closed, SettleInv, PhaseSays, SettleTypeOK
<1>2. CASE RemoveChecks
  <2>1. PICK t \in TailChecks :
          \/ t = "changed" /\ Holds({"check"}, TRUE)
          \/ t = "unread" /\ HoldsAgain
          \/ /\ t \in {"unchanged", "gone"}
             /\ stage' = "removing"
             /\ Begins("remove", IF t = "unchanged" THEN ev[1].etag ELSE 0)
             /\ UNCHANGED <<vars, menu, asked, held, result>>
    BY <1>2 DEF RemoveChecks
  <2>2. ev[1].etag \in Nat
    BY SplitShape DEF SettleInv, SettleTypeOK, TypeOK, GoogleTypeOK, Event
  <2>3. asked = "remove" /\ asked \in menu \cup {"check"}
    BY <1>2 DEF RemoveChecks, SettleInv, SettleTypeOK
  <2>4. CASE Holds({"check"}, TRUE) \/ HoldsAgain
    BY <1>1, <2>4, EndsKeep
  <2>5. ASSUME NEW etag \in Nat, stage' = "removing", Begins("remove", etag),
               UNCHANGED <<vars, menu, asked, held, result>>
        PROVE  SettleInv'
    BY <1>1, <2>3, <2>5, BeginsKeeps
  <2> QED
    BY <2>1, <2>2, <2>4, <2>5
<1>3. CASE RemoveEnds
  <2>1. result.found = "removed" => NoCut
    BY DEF SettleInv, PhaseSays
  <2>2. "removed" \in Closed
    BY DEF Closed
  <2> QED
    BY <1>1, <1>3, <2>1, <2>2, EndsKeep, OffersTyped DEF RemoveEnds
<1> QED
  BY <1>2, <1>3

(* and finish_split, up to its listing. *)
LEMMA FinishChecksKeeps ==
  ASSUME SettleInv, FinishChecks
  PROVE  SettleInv'
<1>1. /\ stage = "checking" /\ stage \notin Closed \cup {"run"} /\ sphase = "over"
      /\ asked = "finish" /\ held.changed \in BOOLEAN
      /\ CutDone \/ CutKind = "not_sent"
  BY DEF FinishChecks, Closed, SettleInv, PhaseSays, SettleTypeOK, FinishOffered
<1>2. PICK t \in TailChecks :
        \/ t = "unread" /\ HoldsAgain
        \/ t = "gone" /\ CutDone /\ Closes("tail_gone")
        \/ t = "gone" /\ ~CutDone /\ Holds({"check"}, held.changed)
        \/ t = "changed" /\ ~CutDone /\ Holds({"check"}, TRUE)
        \/ /\ t = "unchanged" \/ (t = "changed" /\ CutDone)
           /\ stage' = "listing"
           /\ checked' = IF t = "changed" THEN 0 ELSE ev[1].etag
           /\ UNCHANGED <<vars, menu, asked, held, action, result, sphase>>
  BY DEF FinishChecks
<1>3. HoldsAgain \/ Closes("tail_gone") \/ Holds({"check"}, held.changed) \/ Holds({"check"}, TRUE)
        => SettleInv'
  BY <1>1, EndsKeep DEF Closed
<1>4. CASE /\ t = "unchanged" \/ t = "changed"
           /\ stage' = "listing"
           /\ checked' = IF t = "changed" THEN 0 ELSE ev[1].etag
           /\ UNCHANGED <<vars, menu, asked, held, action, result, sphase>>
  <2>1. ev[1].st = "live"
    BY <1>4 DEF TailChecks, TailNow
  <2>2. checked' \in Nat
    BY <1>4, SplitShape DEF SettleInv, SettleTypeOK, TypeOK, GoogleTypeOK, Event
  <2>3. held' \in [offers : SUBSET {"check", "finish", "remove"}, changed : BOOLEAN]
    BY <1>4 DEF SettleInv, SettleTypeOK
  <2> QED
    BY <1>1, <1>4, <2>1, <2>2, <2>3, GoesOnKeeps
<1> QED
  BY <1>2, <1>3, <1>4

(* land_split: the end of the run is what the split is held on. *)
LEMMA LandsRunKeeps ==
  ASSUME SettleInv, LandsRun
  PROVE  SettleInv'
<1>1. /\ stage = "run" /\ phase = "over" /\ sphase = "over" /\ UNCHANGED google
      /\ UNCHANGED <<at, phase, ends, tag, out, why, rollback, outcome, menu, held>>
  BY DEF LandsRun, SettleInv, PhaseSays, Closes, LeavesAt, vars, machine
<1>2. IInv /\ SeriesBehind /\ EndSays
  BY <1>1 DEF SettleInv, RunStands
<1>3. /\ CutKind \in {"none", "not_sent", "sent", "proved"}
      /\ CutKind = "none" => outcome = "done" \/ NoCut
      /\ CutKind \in {"not_sent", "proved"} => NoCut
      /\ CutKind = "not_sent" => at = 1 /\ outcome = "unknown"
      /\ CutKind = "sent" => at = 2 /\ outcome = "unknown" /\ ends[1] = "done" /\ ev[1].st # "none"
  BY <1>1, <1>2, KindOfTheEnd
<1>4. /\ CutKind' = CutKind /\ (NoCut' <=> NoCut) /\ GoogleStands' /\ GoogleTypeOK'
      /\ UNCHANGED <<ev, flight, deleted>>
  BY <1>1, KindStays, GoogleStill DEF SettleInv, SettleTypeOK, TypeOK, google
<1>5. CASE CutKind = "none" /\ Closes(IF outcome = "done" THEN "saved" ELSE "not_done")
  <2> DEFINE where == IF outcome = "done" THEN "saved" ELSE "not_done"
  <2>1. where \in Closed /\ where \in Stages /\ (where \in {"removed", "not_done"} => NoCut)
        /\ where \notin {"listing", "removing", "checking", "run"}
    BY <1>3, <1>5 DEF Closed, Stages
  <2>2. /\ stage' = where /\ asked' = "check" /\ action' = "check" /\ checked' = 0
        /\ result' = NoResult /\ UNCHANGED <<copies, count, menu, held>> /\ sphase' = "over"
    BY <1>1, <1>5 DEF Closes, LeavesAt, vars, machine
  <2> HIDE DEF where
  <2>3. result'.found = "none" /\ NoResult \in [found : Results, etag : Nat]
    BY <2>2 DEF NoResult, Results
  <2>4. SettleTypeOK'
    BY <1>1, <1>4, <2>1, <2>2, <2>3 DEF SettleInv, SettleTypeOK, TypeOK, SettlePhases
  <2>5. RunStands' /\ FinishStands'
    BY <2>1, <2>2 DEF RunStands, FinishStands
  <2>6. KindStands'
    BY <1>1, <1>4, <1>5, <2>1, <2>2 DEF KindStands
  <2>7. PhaseSays'
    BY <2>1, <2>2, <2>3 DEF PhaseSays, TailLooks, OriginalPhases, DeletePhases
  <2>8. RemoveWrites' /\ FinishOffered'
    BY <2>1, <2>2, <2>3 DEF RemoveWrites, FinishOffered, DeletePhases
  <2> QED
    BY <1>4, <2>4, <2>5, <2>6, <2>7, <2>8 DEF SettleInv
<1>6. CASE CutKind # "none" /\ stage' = "landing"
  <2>1. /\ Begins("check", 0)
        /\ copies' = [NoCopies EXCEPT !.sentOn = SentOn]
        /\ count' = [requests |-> 0, copies |-> 0]
        /\ UNCHANGED <<asked, result>>
    BY <1>6 DEF LandsRun, Closes, LeavesAt, Closed
  <2>2. /\ action' = "check" /\ checked' = 0
        /\ sphase' = IF CutKind = "sent" THEN "original_look" ELSE "tail_look1"
    BY <2>1 DEF Begins
  <2>3. SentOn \subseteq Nat
    BY <1>2 DEF SentOn, IInv, TypeOK, CopiesType
  <2>4. copies' \in CopiesType /\ copies'.sentOn = SentOn
    BY <2>1, <2>3 DEF NoCopies, CopiesType
  <2>5. count' \in [requests : 0..CountCap, copies : 0..CountCap]
    BY <2>1, RetryAssumption
  <2>6. SettleTypeOK'
    BY <1>1, <1>4, <1>6, <2>1, <2>2, <2>4, <2>5 DEF SettleInv, SettleTypeOK, TypeOK, SettlePhases, Stages
  <2>7. RunStands'
    BY <1>6 DEF RunStands
  <2>8. KindStands'
    <3>1. ASSUME CutKind = "sent", NEW c \in flight, c.e = 2, c.op = "cut" PROVE c.tag \in SentOn
      BY <1>2, <1>3, <3>1, SplitShape DEF IInv, CopiesBehind, SentOn
    <3> QED
      BY <1>1, <1>3, <1>4, <1>6, <2>4, <3>1 DEF KindStands, Closed
  <2>9. FinishStands'
    <3>1. ASSUME CutKind \in {"not_sent", "sent"}
          PROVE  \A c \in flight : OfThePlan(c) /\ ~TailDelete(c) /\ c.e <= at /\ MeetsThePlan(c)
      <4>1. ~TakenForNotDone
        BY <1>1, <1>3, <3>1 DEF TakenForNotDone, UndoPhases
      <4>2. \A c \in flight : OfThePlan(c) /\ c.e <= at /\ ~TailDelete(c)
        BY <1>2, <4>1, SplitShape DEF IInv, CopiesBehind, TailDelete
      <4>3. \A c \in flight : MeetsThePlan(c)
        BY <1>2 DEF IInv, CopiesMeetThePlan, Pending
      <4> QED
        BY <4>2, <4>3
    <3>2. PlannedAtFirst /\ \A i \in Steps : i > at => ~Landed(i)
      BY <1>2 DEF IInv, CopiesMeetThePlan, LaterUntouched
    <3>3. /\ PlannedAtFirst' <=> PlannedAtFirst
          /\ \A i \in Steps : Landed(i)' <=> Landed(i)
          /\ \A c : MeetsThePlan(c)' <=> MeetsThePlan(c)
      BY <1>1, GoogleStill
    <3>4. \A c : (OfThePlan(c)' <=> OfThePlan(c)) /\ (TailDelete(c)' <=> TailDelete(c))
      BY DEF OfThePlan, TailDelete
    <3> QED
      BY <1>1, <1>3, <1>4, <1>6, <3>1, <3>2, <3>3, <3>4 DEF FinishStands
  <2>10. PhaseSays'
    BY <1>3, <1>4, <1>6, <2>1, <2>2 DEF SettleInv, PhaseSays, TailLooks, OriginalPhases, DeletePhases
  <2>11. RemoveWrites' /\ FinishOffered'
    BY <1>4, <1>6, <2>1, <2>2 DEF SettleInv, RemoveWrites, FinishOffered, DeletePhases
  <2> QED
    BY <1>4, <2>6, <2>7, <2>8, <2>9, <2>10, <2>11 DEF SettleInv
<1> QED
  BY <1>5, <1>6 DEF LandsRun

(* Run::finish: the run goes on as one that did the steps before itself. *)
LEMMA RunsOnStands ==
  ASSUME SettleInv, stage = "listing", RunsOn
  PROVE  TypeOK' /\ RunStands' /\ GoogleStands'
<1>1. /\ asked = "finish" /\ "finish" \in menu
      /\ CutKind # "none" /\ phase = "over"
      /\ TypeOK /\ GoogleStands
      /\ result.etag \in Nat
  BY DEF SettleInv, SettleTypeOK, RemoveWrites, KindStands, Closed
<1> DEFINE step == IF CutDone THEN 2 ELSE 1
<1>2. /\ CutKind \in {"sent", "not_sent"}
      /\ CutKind = "sent" <=> CutDone
  BY <1>1 DEF SettleInv, FinishOffered, CutDone
<1>3. /\ outcome = "unknown" /\ at = step
      /\ step = 2 => ends[1] = "done"
  BY <1>1, <1>2 DEF CutKind
<1>4. step \in Steps /\ step \in {1, 2} /\ step + 1 \in 1..(Len(Plan) + 1)
  BY SplitShape
<1>5. /\ ends' = [ends EXCEPT ![step] = "done"] /\ at' = step + 1
      /\ tag' = (IF CutDone THEN tag ELSE result.etag)
      /\ phase' = "start" /\ outcome' = "running" /\ copies' = NoCopies
      /\ stage' = "run" /\ result' = NoResult
      /\ UNCHANGED <<google, out, why, rollback, count>>
      /\ UNCHANGED <<ev, flight, deleted>>
  BY DEF RunsOn, google
<1>6. /\ \A c \in flight : OfThePlan(c) /\ ~TailDelete(c) /\ c.e <= step /\ MeetsThePlan(c)
      /\ \A i \in Steps : i > step => ~Landed(i)
      /\ PlannedAtFirst
      /\ ev[1].st # "none" /\ (ev[1].st = "live" \/ 1 \in deleted)
  BY <1>1, <1>2, <1>3 DEF SettleInv, FinishStands, Closed
<1> HIDE DEF step
<1>7. ends' \in [Steps -> Ends] /\ ends'[step] = "done" /\ (step = 2 => ends'[1] = "done")
  BY <1>1, <1>3, <1>4, <1>5, SplitShape DEF TypeOK, Ends
<1>8. NoCopies \in CopiesType /\ ~NoCopies.answeredOk
  BY DEF NoCopies, CopiesType
<1>g. /\ GoogleTypeOK' /\ EtagsCount' /\ GoogleStands'
      /\ PlannedAtFirst'
      /\ \A i \in Steps : Landed(i)' <=> Landed(i)
      /\ \A c : (Dated(c)' <=> Dated(c)) /\ (MeetsThePlan(c)' <=> MeetsThePlan(c))
  BY <1>1, <1>5, <1>6, GoogleStill DEF TypeOK, GoogleStands
<1>9. TypeOK'
  <2>1. tag' \in Nat
    BY <1>1, <1>5 DEF TypeOK
  <2>2. at' \in 1..(Len(Plan) + 1)
    BY <1>4, <1>5
  <2> QED
    BY <1>1, <1>5, <1>7, <1>8, <1>g, <2>1, <2>2 DEF TypeOK
<1>10. CopiesBehind'
  <2> SUFFICES ASSUME NEW c \in flight
               PROVE  /\ OfThePlan(c)'
                      /\ Dated(c)'
                      /\ c.e <= step + 1 /\ c.e # step + 1
                      /\ ~(c.op = "delete" /\ Plan[c.e] = "insert")
    BY <1>5 DEF CopiesBehind
  <2>1. OfThePlan(c) /\ Dated(c) /\ ~TailDelete(c) /\ c.e <= step /\ c.e \in Steps
    BY <1>1, <1>6 DEF GoogleStands, TypeOK, GoogleTypeOK, Copy
  <2>2. Plan[c.e] = "insert" => c.e = 1
    BY <2>1, SplitShape
  <2>3. c.e <= step + 1 /\ c.e # step + 1
    BY <1>4, <2>1
  <2> QED
    BY <1>g, <2>1, <2>2, <2>3 DEF OfThePlan, TailDelete
<1>11. OutIsTheStep' /\ LooksAreCarries'
  BY <1>5 DEF OutIsTheStep, LooksAreCarries
<1>12. LaterUntouched'
  <2>1. \A i \in Steps : i > step + 1 \/ i = step + 1 => i > step
    BY <1>4
  <2> QED
    BY <1>5, <1>6, <1>g, <2>1 DEF LaterUntouched
<1>13. ~Active' /\ DoubtIsKept'
  BY <1>5 DEF DoubtIsKept, Active
<1>14. InsertAnswered'
  BY <1>5, <1>8 DEF InsertAnswered
<1>15. Undoing' /\ ~TakenForNotDone' /\ TakenIsProved'
  BY <1>5 DEF Undoing, UndoPhases, TakenForNotDone, TakenIsProved
<1>16. TailStands'
  BY <1>5, <1>6 DEF TailStands
<1>17. CopiesMeetThePlan'
  BY <1>5, <1>6, <1>13, <1>g DEF CopiesMeetThePlan, Pending
<1>18. IInv'
  BY <1>9, <1>g, <1>10, <1>11, <1>12, <1>13, <1>14, <1>15, <1>16, <1>17 DEF IInv
<1>19. SeriesBehind' /\ EndSays'
  BY <1>4, <1>5, <1>6, <1>7 DEF SeriesBehind, EndSays
<1> QED
  BY <1>5, <1>9, <1>g, <1>18, <1>19 DEF RunStands

(* The listing before it keeps the invariant too. *)
LEMMA FinishListsKeeps ==
  ASSUME SettleInv, FinishLists
  PROVE  SettleInv'
<1>1. /\ stage = "listing" /\ stage \notin Closed \cup {"run"} /\ sphase = "over"
      /\ held.changed \in BOOLEAN
  BY DEF FinishLists, Closed, SettleInv, PhaseSays, SettleTypeOK
<1>2. HoldsAgain \/ Closes("original_gone") \/ Closes("saved") \/ Holds({"remove"}, held.changed)
        => SettleInv'
  BY <1>1, EndsKeep DEF Closed
<1>3. CASE RunsOn
  <2>1. TypeOK' /\ RunStands' /\ GoogleStands'
    BY <1>1, <1>3, RunsOnStands
  <2>2. /\ stage' = "run" /\ asked' = "check" /\ action' = "check" /\ checked' = 0
        /\ result' = NoResult /\ UNCHANGED <<menu, held>> /\ sphase' = "over"
    BY <1>1, <1>3 DEF RunsOn
  <2>3. result'.found = "none" /\ NoResult \in [found : Results, etag : Nat]
    BY <2>2 DEF NoResult, Results
  <2>4. SettleTypeOK'
    BY <2>1, <2>2, <2>3 DEF SettleInv, SettleTypeOK, SettlePhases, Stages
  <2>5. KindStands' /\ FinishStands'
    BY <2>2 DEF KindStands, FinishStands, Closed
  <2>6. PhaseSays'
    BY <2>2, <2>3 DEF PhaseSays, TailLooks, OriginalPhases, DeletePhases
  <2>7. RemoveWrites' /\ FinishOffered'
    BY <2>2, <2>3 DEF RemoveWrites, FinishOffered, DeletePhases
  <2> QED
    BY <2>1, <2>4, <2>5, <2>6, <2>7 DEF SettleInv
<1> QED
  BY <1>2, <1>3 DEF FinishLists

(* Every command keeps the invariant. *)
LEMMA CommandsKeep ==
  ASSUME SettleInv, Commands \/ Ask
  PROVE  SettleInv'
BY LandsRunKeeps, LandsLookKeeps, OffersAfterLookKeeps, RemoveKeeps, FinishChecksKeeps,
   FinishListsKeeps, AskKeeps DEF Commands

-----------------------------------------------------------------------------
(* Every step, over restarts. *)

(* A run that goes on keeps its own invariant, and with it Google's part. *)
LEMMA RunsKeep ==
  ASSUME SettleInv, Runs
  PROVE  SettleInv'
<1>1. /\ stage = "run" /\ Machine /\ UNCHANGED settling /\ [Next]_vars
      /\ IInv /\ SeriesBehind /\ EndSays /\ result = NoResult /\ sphase = "over"
  BY DEF Runs, Next, SettleInv, RunStands, PhaseSays
<1>2. UNCHANGED <<stage, menu, asked, held, sphase, action, checked, result>>
  BY <1>1 DEF settling
<1>3. IInv' /\ SeriesBehind' /\ EndSays'
  BY <1>1, IInvStep, SeriesBehindStep, EndSaysStep
<1>4. GoogleStands'
  <2>1. IInv' => GoogleStands'
    BY RunGoogleStands, PTL
  <2> QED
    BY <1>3, <2>1
<1>5. RunStands' /\ KindStands' /\ FinishStands'
  BY <1>1, <1>2, <1>3 DEF RunStands, KindStands, FinishStands
<1>6. SettleTypeOK'
  BY <1>2, <1>3 DEF SettleInv, SettleTypeOK, IInv
<1>7. PhaseSays'
  BY <1>1, <1>2 DEF PhaseSays, TailLooks, OriginalPhases, DeletePhases, NoResult
<1>8. RemoveWrites' /\ FinishOffered'
  BY <1>1, <1>2 DEF SettleInv, RemoveWrites, FinishOffered, NoResult
<1> QED
  BY <1>4, <1>5, <1>6, <1>7, <1>8 DEF SettleInv

(* Late copies and other clients keep Google's part, whatever PM does, *)
LEMMA WorldStands ==
  ASSUME GoogleTypeOK, GoogleStands, World
  PROVE  /\ GoogleTypeOK' /\ GoogleStands' /\ (NoCut => NoCut')
         /\ EtagsMove /\ flight' \subseteq flight /\ TailGoes
<1>1. GoogleTypeOK'
  BY WorldType
<1>2. Steady /\ flight' \subseteq flight /\ TailGoes
  BY WorldSteady
<1>3. ev[1].st = "live" /\ ev'[1].st # "live" => 1 \in deleted' \/ NoCut
  BY <1>2 DEF TailGoes, GoogleStands
<1>4. GoogleStands' /\ (NoCut => NoCut')
  BY <1>1, <1>2, <1>3, GoogleStandsStep
<1> QED
  BY <1>1, <1>2, <1>4 DEF Steady

(* and the ground a Finish stands on, *)
LEMMA WorldKeepsFinish ==
  ASSUME SettleInv, SettleOthers
  PROVE  FinishStands'
<1> SUFFICES ASSUME "finish" \in menu', stage' \notin Closed \cup {"run"}, CutKind' \in {"not_sent", "sent"}
             PROVE  /\ \A c \in flight' : OfThePlan(c)' /\ ~TailDelete(c) /\ c.e <= at' /\ MeetsThePlan(c)'
                    /\ \A i \in Steps : i > at' => ~Landed(i)'
                    /\ PlannedAtFirst'
                    /\ CutKind' = "sent" => ev'[1].st # "none"
                    /\ stage' = "listing" => ev'[1].st # "none" /\ (ev'[1].st = "live" \/ 1 \in deleted')
  BY DEF FinishStands, TailDelete
<1>1. /\ World /\ UNCHANGED <<stage, menu, at, phase, ends, rollback, outcome>>
      /\ GoogleTypeOK /\ EtagsCount /\ GoogleStands
  BY DEF SettleOthers, machine, settling, SettleInv, SettleTypeOK, TypeOK, GoogleStands
<1>2. CutKind' = CutKind
  BY <1>1, KindStays
<1>3. /\ \A c \in flight : OfThePlan(c) /\ ~TailDelete(c) /\ c.e <= at /\ MeetsThePlan(c)
      /\ \A i \in Steps : i > at => ~Landed(i)
      /\ PlannedAtFirst
      /\ CutKind = "sent" => ev[1].st # "none"
      /\ stage = "listing" => ev[1].st # "none" /\ (ev[1].st = "live" \/ 1 \in deleted)
  BY <1>1, <1>2 DEF SettleInv, FinishStands
<1>4. /\ GoogleTypeOK' /\ EtagsMove /\ flight' \subseteq flight /\ TailGoes /\ deleted \subseteq deleted'
  BY <1>1, WorldStands, WorldSteady DEF Steady
<1>5. \A c \in flight' : OfThePlan(c)' /\ ~TailDelete(c) /\ c.e <= at' /\ MeetsThePlan(c)'
  <2> SUFFICES ASSUME NEW c \in flight'
               PROVE  OfThePlan(c)' /\ ~TailDelete(c) /\ c.e <= at' /\ MeetsThePlan(c)'
    OBVIOUS
  <2>1. c \in flight /\ c \in Copy /\ OfThePlan(c) /\ Dated(c) /\ MeetsThePlan(c)
    BY <1>1, <1>3, <1>4 DEF GoogleTypeOK, GoogleStands
  <2>2. MeetsThePlan(c)'
    BY <1>1, <1>4, <2>1, GoogleKeeps
  <2> QED
    BY <1>1, <1>3, <2>1, <2>2 DEF OfThePlan
<1>6. \A i \in Steps : i > at' => ~Landed(i)'
  <2> SUFFICES ASSUME NEW i \in Steps, i > at PROVE ~Landed(i)'
    BY <1>1
  <2>1. \A c \in flight : c.e # i
    BY <1>1, <1>3 DEF SettleInv, SettleTypeOK, TypeOK, GoogleTypeOK, Copy
  <2>2. Landed(i)' => Landed(i) \/ Landable(i)
    BY <1>1, <1>3, WorldMoves
  <2> QED
    BY <1>3, <2>1, <2>2 DEF Landable
<1>7. PlannedAtFirst'
  BY <1>1, <1>3, <1>4, GoogleKeeps
<1>8. ev[1].st # "none" => ev'[1].st # "none"
  BY <1>4, SplitShape DEF EtagsMove
<1>9. ev[1].st # "live" => ev'[1].st # "live" \/ ev[1].st = "none"
  BY <1>4, SplitShape DEF EtagsMove
<1> QED
  BY <1>1, <1>2, <1>3, <1>4, <1>5, <1>6, <1>7, <1>8 DEF TailGoes

(* all of it while PM is there. *)
LEMMA OthersKeep ==
  ASSUME SettleInv, SettleOthers
  PROVE  SettleInv'
<1>1. /\ World /\ GoogleTypeOK /\ GoogleStands
      /\ UNCHANGED <<at, phase, ends, tag, copies, out, why, rollback, outcome, count>>
      /\ UNCHANGED <<stage, menu, asked, held, sphase, action, checked, result>>
  BY DEF SettleOthers, machine, settling, SettleInv, SettleTypeOK, TypeOK
<1>2. /\ GoogleTypeOK' /\ GoogleStands' /\ (NoCut => NoCut')
      /\ EtagsMove /\ flight' \subseteq flight /\ CutKind' = CutKind
  BY <1>1, WorldStands, KindStays
<1>3. SettleTypeOK'
  BY <1>1, <1>2 DEF SettleInv, SettleTypeOK, TypeOK
<1>4. RunStands'
  <2>1. [Next]_vars
    BY DEF SettleOthers, Next, Others
  <2> QED
    BY <1>1, <2>1, IInvStep, SeriesBehindStep, EndSaysStep DEF SettleInv, RunStands
<1>5. KindStands'
  BY <1>1, <1>2 DEF SettleInv, KindStands
<1>6. PhaseSays'
  <2>1. ev'[2].etag >= ev[2].etag /\ ev[2].etag \in Nat /\ ev'[2].etag \in Nat /\ out.tag \in Nat
    BY <1>1, <1>2, EtagsStillCount, SplitShape
       DEF SettleInv, SettleTypeOK, TypeOK, GoogleStands, GoogleTypeOK, Event, RequestType
  <2>2. sphase = "fence" => out.tag <= ev'[2].etag
    BY <2>1 DEF SettleInv, PhaseSays
  <2> QED
    BY <1>1, <1>2, <2>2 DEF SettleInv, PhaseSays, TailDelete
<1>7. RemoveWrites' /\ FinishOffered'
  <2>1. CutDone' = CutDone
    BY <1>1 DEF CutDone
  <2> QED
    BY <1>1, <1>2, <2>1 DEF SettleInv, RemoveWrites, FinishOffered
<1>8. FinishStands'
  BY WorldKeepsFinish
<1> QED
  BY <1>2, <1>3, <1>4, <1>5, <1>6, <1>7, <1>8 DEF SettleInv

(* A split's run starts like any other. *)
LEMMA SettleInitSafe == SettleInit => SettleInv
<1> SUFFICES ASSUME SettleInit PROVE SettleInv
  OBVIOUS
<1>1. Init /\ IInv /\ SeriesBehind /\ EndSays /\ TypeOK
  BY InitSafe, RunInit, InitType DEF SettleInit
<1>2. GoogleStands
  BY <1>1, RunGoogleStands
<1>3. NoResult.found = "none" /\ NoResult \in [found : Results, etag : Nat]
  BY DEF NoResult, Results
<1>4. SettleTypeOK
  BY <1>1, <1>3 DEF SettleInit, SettleTypeOK, Stages, SettlePhases
<1>5. RunStands /\ KindStands /\ FinishStands
  BY <1>1 DEF SettleInit, RunStands, KindStands, FinishStands
<1>6. PhaseSays /\ RemoveWrites /\ FinishOffered
  BY <1>3 DEF SettleInit, PhaseSays, RemoveWrites, FinishOffered, TailLooks, OriginalPhases, DeletePhases
<1> QED
  BY <1>2, <1>4, <1>5, <1>6 DEF SettleInv

-----------------------------------------------------------------------------
(* Over restarts. *)
LEMMA JournalInitSafe == JournalInit => JournalInv
BY SettleInitSafe DEF JournalInit, JournalInv, SettleInv

(* A step of PM's keeps the invariant. *)
LEMMA SettlesKeeps ==
  ASSUME JournalInv, OneWay, Settles
  PROVE  JournalInv'
<1>1. SettleInv /\ ~stopped /\ ~stopped'
  BY DEF Settles, JournalInv
<1>2. SettleInv'
  BY <1>1, RunsKeep, SettleMachineKeeps, CommandsKeep DEF Settles
<1> QED
  BY <1>1, <1>2 DEF JournalInv, SettleInv

(* So does one of Google's, before and after PM has stopped, *)
LEMMA GoesOnKeepsIt ==
  ASSUME JournalInv, GoogleGoesOn
  PROVE  JournalInv'
<1>1. SettleOthers /\ stopped' = stopped
  BY DEF GoogleGoesOn
<1>2. ~stopped => JournalInv'
  BY <1>1, OthersKeep DEF JournalInv, SettleInv
<1>3. CASE stopped
  <2>1. /\ World /\ GoogleTypeOK /\ GoogleStands
        /\ UNCHANGED <<at, phase, ends, tag, copies, out, why, rollback, outcome, count>>
        /\ UNCHANGED <<stage, menu, asked, held, sphase, action, checked, result>>
    BY <1>1 DEF SettleOthers, machine, settling, JournalInv, SettleTypeOK, TypeOK
  <2>2. GoogleTypeOK' /\ GoogleStands'
    BY <2>1, WorldStands
  <2>3. SettleTypeOK'
    BY <2>1, <2>2 DEF JournalInv, SettleTypeOK, TypeOK
  <2> QED
    BY <1>1, <1>3, <2>1, <2>2, <2>3 DEF JournalInv
<1> QED
  BY <1>2, <1>3

(* and PM stopping. *)
LEMMA StopsKeeps ==
  ASSUME JournalInv, Stops
  PROVE  JournalInv'
<1>1. /\ stopped' /\ UNCHANGED google
      /\ at' = 1 /\ phase' = "over" /\ ends' = [i \in Steps |-> "not_run"]
      /\ tag' = 0 /\ copies' = NoCopies /\ out' = Idle
      /\ why' = "none" /\ rollback' = "none" /\ outcome' = "running"
      /\ count' = [requests |-> 0, copies |-> 0]
  BY DEF Stops
<1>2. /\ stage' = "held" /\ menu' = (CHOOSE m \in Menus : TRUE) /\ asked' = "check"
      /\ held' = [offers |-> {}, changed |-> FALSE]
      /\ sphase' = "over" /\ action' = "check" /\ checked' = 0
      /\ result' = [found |-> "none", etag |-> 0]
  BY DEF Stops
<1>3. GoogleTypeOK' /\ GoogleStands'
  BY <1>1, GoogleStill DEF JournalInv, SettleTypeOK, TypeOK
<1>4. TypeOK'
  <2>1. at' \in 1..(Len(Plan) + 1) /\ at' \in Steps
    BY <1>1, SplitShape
  <2>2. ends' \in [Steps -> Ends] /\ copies' \in CopiesType
    BY <1>1 DEF Ends, NoCopies, CopiesType
  <2>3. out' \in RequestType
    BY <1>1, RequestTypes
  <2>4. count' \in [requests : 0..CountCap, copies : 0..CountCap]
    BY <1>1, RetryAssumption
  <2> QED
    BY <1>1, <1>3, <2>1, <2>2, <2>3, <2>4 DEF TypeOK, Whys
<1>5. menu' \in Menus
  BY <1>2 DEF JournalInv, SettleTypeOK
<1>6. result' \in [found : Results, etag : Nat]
      /\ held' \in [offers : SUBSET {"check", "finish", "remove"}, changed : BOOLEAN]
  BY <1>2 DEF Results
<1>7. SettleTypeOK'
  BY <1>2, <1>4, <1>5, <1>6 DEF SettleTypeOK, Stages, SettlePhases
<1> QED
  BY <1>1, <1>2, <1>3, <1>7 DEF JournalInv

(* Reading the record, and standing still, change nothing of it. *)
LEMMA JournalStill ==
  ASSUME JournalInv, UNCHANGED <<allVars, stopped>>
  PROVE  JournalInv'
<1>1. /\ UNCHANGED <<google, at, phase, ends, tag, copies, out, why, rollback, outcome, count>>
      /\ UNCHANGED <<stage, menu, asked, held, sphase, action, checked, result>>
      /\ UNCHANGED <<ev, flight, edits, deleted>> /\ UNCHANGED vars
  BY DEF allVars, vars, google, machine, settling
<1>2. GoogleStands' /\ (TypeOK => TypeOK') /\ (NoCut' <=> NoCut) /\ CutKind' = CutKind
  BY <1>1, GoogleStill, KindStays DEF JournalInv, TypeOK
<1>3. SettleTypeOK'
  BY <1>1, <1>2 DEF JournalInv, SettleTypeOK
<1>4. ~stopped => SettleInv'
  <2> SUFFICES ASSUME SettleInv PROVE SettleInv'
    BY DEF JournalInv
  <2>1. RunStands'
    BY <1>1, IInvStep, SeriesBehindStep, EndSaysStep DEF SettleInv, RunStands
  <2>2. KindStands' /\ PhaseSays' /\ RemoveWrites' /\ FinishOffered'
    BY <1>1, <1>2 DEF SettleInv, KindStands, PhaseSays, RemoveWrites, FinishOffered, CutDone, TailDelete
  <2>3. FinishStands'
    <3>1. \A c : (OfThePlan(c)' <=> OfThePlan(c)) /\ (TailDelete(c)' <=> TailDelete(c))
      BY DEF OfThePlan, TailDelete
    <3>2. /\ PlannedAtFirst' <=> PlannedAtFirst
          /\ \A i \in Steps : Landed(i)' <=> Landed(i)
          /\ \A c : MeetsThePlan(c)' <=> MeetsThePlan(c)
      BY <1>1, GoogleStill
    <3> QED
      BY <1>1, <1>2, <3>1, <3>2 DEF SettleInv, FinishStands
  <2> QED
    BY <1>2, <1>3, <2>1, <2>2, <2>3 DEF SettleInv
<1> QED
  BY <1>1, <1>2, <1>3, <1>4 DEF JournalInv

(* JournalInv is inductive, for users who may finish or remove, not both. *)
LEMMA JournalStep == OneWay /\ JournalInv /\ [JournalNext]_journalVars => JournalInv'
<1> SUFFICES ASSUME OneWay, JournalInv, [JournalNext]_journalVars PROVE JournalInv'
  OBVIOUS
<1>1. FirstRead \/ SecondRead \/ UNCHANGED journalVars => UNCHANGED <<allVars, stopped>>
  BY DEF FirstRead, SecondRead, journalVars, journal
<1> QED
  BY <1>1, SettlesKeeps, GoesOnKeepsIt, StopsKeeps, JournalStill DEF JournalNext

(* JournalInv holds over every run, look, command, crash and restart.        *)
THEOREM JournalSafe == OneWay => (JournalSpec => []JournalInv)
<1> SUFFICES ASSUME OneWay PROVE JournalSpec => []JournalInv
  OBVIOUS
<1>1. JournalInv /\ [JournalNext]_journalVars => JournalInv'
  BY JournalStep
<1> QED
  BY <1>1, JournalInitSafe, PTL DEF JournalSpec

(* It is what a removal needs. *)
LEMMA RemovalProved == JournalInv => RemovedOnProof
<1> SUFFICES ASSUME JournalInv, RemovalPending \/ stage \in {"removed", "not_done"} PROVE NoCut
  BY DEF RemovedOnProof, NoCut
<1>1. ASSUME NEW c \in flight, c.e = 1, c.op = "delete" PROVE NoCut
  BY <1>1 DEF JournalInv, GoogleStands, TailDelete
<1>2. CASE phase \in {"undo", "undo_again"}
  <2>1. stage = "run" /\ IInv
    BY <1>2 DEF JournalInv, SettleInv, KindStands, RunStands
  <2> QED
    BY <1>2, <2>1, NotDoneNoCut DEF TakenForNotDone, UndoPhases
<1>3. CASE sphase \in {"delete", "delete_again"}
  BY <1>3 DEF JournalInv, SettleInv, PhaseSays, DeletePhases
<1>4. CASE stage \in {"removed", "not_done"}
  BY <1>4 DEF JournalInv, SettleInv, KindStands
<1> QED
  BY <1>1, <1>2, <1>3, <1>4 DEF RemovalPending

(* No delete of the new series is out, and PM says no split removed or not  *)
(* done, while a cut is at Google or on its way (Settled::Removed,          *)
(* SplitRemoved, not_done_outcome).                                         *)
THEOREM RemovedOnProofSafe == OneWay => (JournalSpec => []RemovedOnProof)
<1> SUFFICES ASSUME OneWay PROVE JournalSpec => []RemovedOnProof
  OBVIOUS
<1> QED
  BY RemovalProved, JournalSafe, PTL

(* Insert first, so a failure never leaves occurrences missing (plan.rs):   *)
(* over the settle, and a stop of PM at any moment of it, too.              *)
THEOREM NeverMissingOverRestarts == OneWay => (JournalSpec => []NeverMissing)
<1> SUFFICES ASSUME OneWay PROVE JournalSpec => []NeverMissing
  OBVIOUS
<1>1. JournalInv => NeverMissing
  BY DEF JournalInv, GoogleStands, NoCut, NeverMissing
<1> QED
  BY <1>1, JournalSafe, PTL

-----------------------------------------------------------------------------
(* The new series' etags, as the run keeps them, *)

(* The run undoes its new series. *)
Undoes == phase \in {"undo", "undo_again"}

(* The run's own etags of the new series are no newer than Google's. *)
TagBounded == tag <= ev[1].etag /\ (Undoes => out.tag <= ev[1].etag)

(* What each verb of the run makes of them. *)
LEMMA VerbsBound ==
  ASSUME tag \in Nat, ev[1].etag \in Nat, ev'[1].etag \in Nat, tag <= ev'[1].etag, NEW c
  PROVE  /\ \A t : Sends(c, t) => TagBounded'
         /\ \A p : p \notin {"undo", "undo_again"} /\ Looks(p, c) => TagBounded'
         /\ \A w : NotDone(c, w) => TagBounded'
         /\ Unknown(c) => TagBounded'
         /\ \A end, t : (Inserting(Plan[at]) => t \in {0, ev'[1].etag}) /\ StepEnds(c, end, t)
                          => TagBounded'
         /\ Undone \/ RollbackUnknown => TagBounded'
<1>1. ASSUME NEW end, NEW t, Inserting(Plan[at]) => t \in {0, ev'[1].etag}, StepEnds(c, end, t)
      PROVE  TagBounded'
  <2>1. tag' \in {0, tag, ev'[1].etag} /\ phase' = "start"
    BY <1>1 DEF StepEnds
  <2> QED
    BY <2>1 DEF TagBounded, Undoes
<1>2. ASSUME NEW o, NEW w, NEW r, Over(o, w, r) PROVE TagBounded'
  BY <1>2 DEF Over, TagBounded, Undoes
<1>3. ASSUME NEW t, Sends(c, t) PROVE TagBounded'
  BY <1>3 DEF Sends, TagBounded, Undoes
<1>4. ASSUME NEW p, p \notin {"undo", "undo_again"}, Looks(p, c) PROVE TagBounded'
  BY <1>4 DEF Looks, TagBounded, Undoes
<1>5. ASSUME NEW w, NotDone(c, w) PROVE TagBounded'
  <2>1. ASSUME tag' = tag, phase' = "undo", out' = Request(1, "delete", tag) PROVE TagBounded'
    BY <2>1 DEF Request, TagBounded
  <2>2. ASSUME tag' = tag, phase' = "undo_look_again" PROVE TagBounded'
    BY <2>2 DEF TagBounded, Undoes
  <2> QED
    BY <1>1, <1>2, <1>5, <2>1, <2>2 DEF NotDone
<1>6. Unknown(c) => TagBounded'
  BY <1>1, <1>2 DEF Unknown
<1>7. Undone \/ RollbackUnknown => TagBounded'
  BY <1>2 DEF Undone, RollbackUnknown
<1> QED
  BY <1>1, <1>3, <1>4, <1>5, <1>6, <1>7

(* Of the new series the run keeps the etag Google last answered with. *)
LEMMA TagBoundedStep ==
  ASSUME IInv, TagBounded, [Next]_vars
  PROVE  TagBounded'
<1>1. /\ tag \in Nat /\ ev[1].etag \in Nat /\ ev'[1].etag \in Nat /\ ev'[1].etag >= ev[1].etag
      /\ tag <= ev'[1].etag /\ out \in RequestType
      /\ phase \notin {"start", "over"} => at \in Steps
  <2>1. TypeOK /\ EtagsCount /\ GoogleTypeOK'
    BY TypeStep DEF IInv, TypeOK
  <2>2. EtagsMove
    BY GoogleMoves
  <2>3. ev'[1].etag >= ev[1].etag /\ ev[1].etag \in Nat /\ ev'[1].etag \in Nat
    BY <2>1, <2>2, EtagsStillCount, SplitShape DEF TypeOK, GoogleTypeOK, Event
  <2> QED
    BY <2>1, <2>3 DEF TagBounded, TypeOK
<1>2. \A c : /\ \A t : Sends(c, t) => TagBounded'
             /\ \A p : p \notin {"undo", "undo_again"} /\ Looks(p, c) => TagBounded'
             /\ \A w : NotDone(c, w) => TagBounded'
             /\ Unknown(c) => TagBounded'
             /\ \A end : StepEnds(c, end, 0) => TagBounded'
             /\ Undone \/ RollbackUnknown => TagBounded'
  BY <1>1, VerbsBound
<1>3. ASSUME NEW c, at \in Steps, NEW t \in ProofTags(ev'[at]), StepEnds(c, "done", t) PROVE TagBounded'
  <2>1. Inserting(Plan[at]) => at = 1
    BY <1>3, SplitShape DEF Inserting
  <2>2. Inserting(Plan[at]) => t \in {0, ev'[1].etag}
    BY <1>3, <2>1 DEF ProofTags
  <2> QED
    BY <1>1, <1>3, <2>2, VerbsBound
<1>4. ASSUME UNCHANGED <<tag, phase>>, Undoes => out'.tag = out.tag PROVE TagBounded'
  <2>1. Undoes' = Undoes
    BY <1>4 DEF Undoes
  <2>2. out.tag \in Nat
    BY <1>1 DEF RequestType
  <2> QED
    BY <1>1, <1>4, <2>1, <2>2 DEF TagBounded
<1>5. ASSUME NEW t \in Nat, t <= ev'[1].etag, tag' = tag, out' = Request(1, "delete", t) PROVE TagBounded'
  BY <1>1, <1>5 DEF TagBounded, Request
<1>6. ASSUME NEW c, NEW e, NotLanded(c, e) PROVE TagBounded'
  <2>1. MovesOn(c, e) => TagBounded'
    BY <1>2 DEF MovesOn
  <2> QED
    BY <1>2, <1>6, <2>1 DEF NotLanded
<1>7. CASE Start
  <2>1. \/ StepEnds(copies, "skipped", 0)
        \/ \E c : Looks("look1", c) \/ \E t : Sends(c, t)
    BY <1>7 DEF Start
  <2> QED
    BY <1>2, <2>1
<1>8. CASE Finish
  <2>1. tag' = tag /\ phase' = "over"
    BY <1>8 DEF Finish, Over
  <2> QED
    BY <1>1, <2>1 DEF TagBounded, Undoes
<1>9. CASE WriteAnswered
  <2>1. PICK a \in Answers : Attempt(a) /\ Hears(a)
    BY <1>9 DEF WriteAnswered
  <2>2. at \in Steps
    BY <1>1, <1>9 DEF WriteAnswered, Sending
  <2>3. CASE phase = "sent" /\ OnWrite(a)
    <3> DEFINE c == Marked(copies, a)
    <3>1. ReadPlainAnswer(c, a.v) => TagBounded'
      BY <1>2 DEF ReadPlainAnswer
    <3>2. ReadOwnReply(c, a.body, ev'[at]) => TagBounded'
      BY <1>2, <1>3, <2>2 DEF ReadOwnReply
    <3> HIDE DEF c
    <3> QED
      BY <1>2, <2>3, <3>1, <3>2 DEF OnWrite, c
  <2>4. CASE phase = "restore" /\ OnRestore(a)
    BY <1>2, <2>4 DEF OnRestore
  <2>5. CASE phase \in {"undo", "undo_again"} /\ OnUndoSend(a)
    BY <1>2, <2>5 DEF OnUndoSend
  <2> QED
    BY <2>1, <2>3, <2>4, <2>5 DEF Hears
<1>10. CASE WriteTriedAgain
  <2>1. out'.tag = out.tag /\ UNCHANGED <<tag, phase>>
    BY <1>1, <1>10 DEF WriteTriedAgain, TriesAgain, RequestType
  <2> QED
    BY <1>4, <2>1
<1>11. CASE Look \/ LookUnanswered
  <2>1. NextLook => TagBounded'
    BY <1>2 DEF NextLook
  <2> QED
    BY <1>2, <1>11, <2>1 DEF Look, LookUnanswered
<1>12. CASE Check
  <2>1. ev' = ev /\ at \in Steps
    BY <1>1, <1>12 DEF Check, google
  <2>2. \A t \in ProofTags(ev[at]) : StepEnds(copies, "done", t) => TagBounded'
    BY <1>3, <2>1
  <2>3. phase' = "restore" /\ UNCHANGED tag => TagBounded'
    BY <1>1 DEF TagBounded, Undoes
  <2> QED
    BY <1>2, <1>6, <1>12, <2>2, <2>3 DEF Check
<1>13. CASE InsertLook
  <2>1. ev' = ev /\ at \in Steps
    BY <1>1, <1>13 DEF InsertLook, google
  <2>2. \A t \in ProofTags(ev[at]) : StepEnds(copies, "done", t) => TagBounded'
    BY <1>3, <2>1
  <2> QED
    BY <1>2, <1>6, <1>13, <2>2 DEF InsertLook
<1>14. CASE UndoLook
  BY <1>1, <1>2, <1>5, <1>14 DEF UndoLook
<1>15. CASE CheckUnanswered
  BY <1>2, <1>15 DEF CheckUnanswered
<1>16. CASE Others \/ UNCHANGED vars
  BY <1>4, <1>16 DEF Others, vars, machine
<1> QED
  BY <1>7, <1>8, <1>9, <1>10, <1>11, <1>12, <1>13, <1>14, <1>15, <1>16 DEF Next, Machine

-----------------------------------------------------------------------------
(* as Google moves them, *)

(* The settle deletes it. *)
TailDeleting == sphase \in {"delete", "delete_again"}

(* Whoever steps, a new delete of the new series is the one that is out. *)
GoogleSteps ==
  /\ EtagsMove
  /\ \A c \in flight' : TailDelete(c) => c \in flight \/ (c.tag = out.tag /\ (Undoes \/ TailDeleting))

(* So it is in the run, *)
LEMMA RunsSteps ==
  ASSUME SettleInv, Runs
  PROVE  GoogleSteps
<1>1. IInv /\ [Next]_vars
  BY DEF Runs, Next, SettleInv, RunStands
<1>2. EtagsMove
  BY <1>1, GoogleMoves
<1>3. ASSUME NEW c \in flight', TailDelete(c), c \notin flight PROVE c.tag = out.tag /\ Undoes
  <2>1. phase \in WritePhases /\ c = CopyOf(out)
    BY <1>1, <1>3, FlightMoves
  <2>2. out.e = 1 /\ out.op = "delete" /\ c.tag = out.tag
    BY <1>3, <2>1 DEF CopyOf, TailDelete
  <2> QED
    BY <1>1, <2>1, <2>2, SplitShape DEF IInv, OutIsTheStep, Undoes
<1> QED
  BY <1>2, <1>3 DEF GoogleSteps

(* in the machine Settle, *)
LEMMA MachineSteps ==
  ASSUME SettleInv, OneWay, SettleMachine
  PROVE  GoogleSteps
<1>1. CASE TailLook \/ OriginalLook \/ Relook \/ DeleteLook \/ SettleUnread
  BY <1>1 DEF TailLook, OriginalLook, Relook, DeleteLook, SettleUnread, google, GoogleSteps, EtagsMove
<1>2. CASE SettleAnswered \/ SettleTriedAgain
  <2>1. /\ sphase \in SettleWrites /\ Unmoved
        /\ \E a : Attempt(a) \/ TriesAgain
    BY <1>2 DEF SettleAnswered, SettleTriedAgain
  <2>2. PICK a : Attempt(a) \/ TriesAgain
    BY <2>1
  <2>3. GoogleTypeOK'
    BY <1>2, AnsweredKeeps, TriedAgainKeeps DEF Said, SettleTypeOK, TypeOK
  <2>4. EtagsMove /\ flight' \subseteq flight \cup {CopyOf(out)}
    BY <2>1, <2>2, <2>3, WriteStands
  <2>5. sphase = "fence" => out.e = 2
    BY DEF SettleInv, PhaseSays
  <2>6. TailDelete(CopyOf(out)) => TailDeleting
    BY <2>1, <2>5 DEF TailDelete, CopyOf, SettleWrites, TailDeleting
  <2>7. CopyOf(out).tag = out.tag
    BY DEF CopyOf
  <2> QED
    BY <2>4, <2>6, <2>7 DEF GoogleSteps
<1> QED
  BY <1>1, <1>2 DEF SettleMachine

(* the commands write nothing, *)
LEMMA CommandsStill ==
  ASSUME Commands \/ Ask
  PROVE  UNCHANGED google
<1>1. \A where : LeavesAt(where) => UNCHANGED google
  BY DEF LeavesAt, vars
<1>2. /\ \A where : Closes(where) => UNCHANGED google
      /\ \A offers, changed : Holds(offers, changed) => UNCHANGED google
      /\ HoldsAgain => UNCHANGED google
  BY <1>1 DEF Closes, Holds, HoldsAgain
<1>3. UNCHANGED vars => UNCHANGED google
  BY DEF vars
<1>4. \A changed : Offers(changed) => UNCHANGED google
  BY <1>2, <1>3 DEF Offers
<1>5. LandsRun \/ LandsLook \/ Ask => UNCHANGED google
  BY <1>2, <1>3 DEF LandsRun, LandsLook, Ask
<1>6. OffersAfterLook => UNCHANGED google
  BY <1>4 DEF OffersAfterLook
<1>7. RemoveChecks \/ RemoveEnds \/ FinishChecks => UNCHANGED google
  BY <1>2, <1>3 DEF RemoveChecks, RemoveEnds, FinishChecks
<1>8. FinishLists => UNCHANGED google
  BY <1>2 DEF FinishLists, RunsOn
<1> QED
  BY <1>5, <1>6, <1>7, <1>8 DEF Commands

(* and so at every step. *)
LEMMA EveryStepMoves ==
  ASSUME OneWay, JournalInv, [JournalNext]_journalVars
  PROVE  GoogleSteps
<1>1. UNCHANGED google => GoogleSteps
  BY DEF google, GoogleSteps, EtagsMove
<1>2. CASE Settles
  <2>1. SettleInv
    BY <1>2 DEF Settles, JournalInv
  <2> QED
    BY <1>1, <1>2, <2>1, RunsSteps, MachineSteps, CommandsStill DEF Settles
<1>3. CASE GoogleGoesOn
  <2>1. World /\ GoogleTypeOK /\ GoogleStands
    BY <1>3 DEF GoogleGoesOn, SettleOthers, JournalInv, SettleTypeOK, TypeOK
  <2> QED
    BY <2>1, WorldStands DEF GoogleSteps
<1>4. CASE Stops \/ FirstRead \/ SecondRead \/ UNCHANGED journalVars
  BY <1>1, <1>4 DEF Stops, FirstRead, SecondRead, journalVars, allVars, vars
<1> QED
  BY <1>2, <1>3, <1>4 DEF JournalNext

(* What the machine Settle makes of the new series' etags. *)
LEMMA MachineReads ==
  ASSUME SettleInv, SettleMachine
  PROVE  /\ UNCHANGED <<at, phase, tag, outcome, action, checked, stage>>
         /\ result' = result \/ CutDone' \/ result'.etag \in {0, ev[1].etag}
         /\ TailDeleting' =>
              \/ /\ UNCHANGED google
                 /\ out'.tag = ev[1].etag /\ Shown(ev[1]) /\ ev[1].val = "new" /\ checked \in {0, ev[1].etag}
              \/ TailDeleting /\ out'.tag = out.tag
<1>1. Unmoved => UNCHANGED <<at, phase, tag, outcome, stage>>
  BY DEF Unmoved
<1> DEFINE reads == /\ UNCHANGED <<action, checked>>
                    /\ result' = result \/ CutDone' \/ result'.etag \in {0, ev[1].etag}
           quiet == reads /\ ~TailDeleting'
<1>2. \A found, etag : Finds(found, etag) /\ (found = "cut_done" \/ etag \in {0, ev[1].etag}) => quiet
  BY DEF Finds, TailDeleting, CutDone
<1>3. \A p : p \notin {"delete", "delete_again"} /\ LooksNext(p) => quiet
  BY DEF LooksNext, TailDeleting
<1>4. \A p, r : p \notin {"delete", "delete_again"} /\ Goes(p, r) => quiet
  BY DEF Goes, TailDeleting
<1>5. ASSUME NEW again, DeleteTail(ev[1], again), Shown(ev[1])
      PROVE  /\ reads
             /\ TailDeleting' => /\ out'.tag = ev[1].etag /\ Shown(ev[1])
                                 /\ ev[1].val = "new" /\ checked \in {0, ev[1].etag}
  <2>1. \A p : Goes(p, Request(1, "delete", ev[1].etag)) => reads /\ out'.tag = ev[1].etag
    BY DEF Goes, Request
  <2> QED
    BY <1>2, <1>5, <2>1 DEF DeleteTail
<1> HIDE DEF reads, quiet
<1>q. quiet => reads /\ ~TailDeleting'
  BY DEF quiet
<1>6. CASE TailLook
  BY <1>1, <1>q, <1>2, <1>3, <1>5, <1>6 DEF TailLook, TailLooks, Shown, reads
<1>7. CASE OriginalLook
  BY <1>1, <1>q, <1>2, <1>3, <1>4, <1>7 DEF OriginalLook, reads
<1>8. CASE SettleAnswered
  <2>1. PICK a \in Answers : IF sphase = "fence" THEN OnFence(a) ELSE OnDelete(a)
    BY <1>8 DEF SettleAnswered
  <2>2. OnFence(a) => quiet
    BY <1>2, <1>3 DEF OnFence
  <2>3. OnDelete(a) => quiet
    BY <1>2, <1>3 DEF OnDelete
  <2> QED
    BY <1>1, <1>8, <1>q, <2>1, <2>2, <2>3 DEF SettleAnswered, reads
<1>9. CASE SettleTriedAgain
  <2>1. out'.tag = out.tag
    BY <1>9 DEF SettleTriedAgain, TriesAgain, SettleInv, SettleTypeOK, TypeOK, RequestType
  <2>2. UNCHANGED <<sphase, action, checked, result>> /\ Unmoved
    BY <1>9 DEF SettleTriedAgain
  <2> QED
    BY <1>1, <2>1, <2>2 DEF TailDeleting
<1>10. CASE Relook
  BY <1>1, <1>q, <1>2, <1>3, <1>10 DEF Relook, reads
<1>11. CASE DeleteLook
  BY <1>1, <1>q, <1>2, <1>5, <1>11 DEF DeleteLook, reads
<1>12. CASE SettleUnread
  BY <1>1, <1>q, <1>2, <1>12 DEF SettleUnread, reads
<1> QED
  BY <1>6, <1>7, <1>8, <1>9, <1>10, <1>11, <1>12 DEF SettleMachine

-----------------------------------------------------------------------------
(* as the commands read them. *)

(* The commands write nothing, and keep of a look no more than it read. *)
LEMMA CommandsRead ==
  ASSUME SettleInv, Commands \/ Ask
  PROVE  /\ ~TailDeleting' /\ ~Undoes'
         /\ result' = result \/ result' = NoResult
         /\ tag' = tag \/ (~CutDone /\ tag' = result.etag)
         /\ \/ action' = "check"
            \/ /\ action' = "remove" /\ UNCHANGED <<ev, tag>>
               /\ checked' # 0 => checked' = ev[1].etag /\ TailNow = "unchanged"
<1> DEFINE ReadsOnly == /\ ~TailDeleting' /\ ~Undoes'
                        /\ result' = result \/ result' = NoResult
           Kept == ReadsOnly /\ UNCHANGED <<ev, tag>>
           Checks == Kept /\ action' = "check"
<1>1. phase # "over" => stage = "run" /\ sphase = "over"
  BY DEF SettleInv, KindStands, PhaseSays
<1>2. stage \notin {"run"} => ~Undoes
  BY DEF SettleInv, KindStands, Undoes
<1>3. UNCHANGED vars => UNCHANGED <<ev, tag, phase>>
  BY DEF vars, machine, google
<1>4. ~TailDeleting \/ sphase # "over"
  BY DEF TailDeleting
<1>5. \A where : sphase = "over" /\ phase = "over" /\ LeavesAt(where) => Checks
  BY <1>3 DEF LeavesAt, TailDeleting, Undoes
<1>6. sphase = "over" /\ phase = "over" =>
        /\ \A where : Closes(where) => Checks
        /\ \A offers, changed : Holds(offers, changed) => Checks
        /\ HoldsAgain => Checks
  BY <1>5 DEF Closes, Holds, HoldsAgain
<1>7. \A act, etag : phase = "over" /\ UNCHANGED <<ev, tag, phase, result>> /\ Begins(act, etag) =>
        Kept /\ action' = act /\ checked' = etag
  BY DEF Begins, TailDeleting, Undoes
<1>8. stage # "run" => phase = "over"
  BY DEF SettleInv, KindStands
<1>9. stage \in {"held", "checking", "listing"} => sphase = "over"
  BY DEF SettleInv, PhaseSays
<1>10. action = "remove" => stage = "removing"
  BY DEF SettleInv, RemoveWrites
<1>11. action \in {"check", "remove"}
  BY DEF SettleInv, SettleTypeOK
<1> HIDE DEF ReadsOnly, Kept, Checks
<1>12. CASE LandsRun
  <2>1. sphase = "over" /\ phase = "over"
    BY <1>12 DEF LandsRun, SettleInv, PhaseSays
  <2>2. CASE \E where : Closes(where)
    BY <1>6, <2>1, <2>2 DEF Checks, Kept, ReadsOnly
  <2>3. CASE Begins("check", 0) /\ UNCHANGED <<google, phase, tag, result>>
    BY <1>7, <2>1, <2>3 DEF Kept, ReadsOnly, google
  <2> QED
    BY <1>12, <2>2, <2>3 DEF LandsRun
<1>13. CASE LandsLook
  <2>1. sphase = "over" /\ phase = "over"
    BY <1>8, <1>13 DEF LandsLook
  <2>2. Checks
    BY <1>6, <1>13, <2>1 DEF LandsLook
  <2> QED
    BY <2>2 DEF Checks, Kept, ReadsOnly
<1>14. CASE Ask
  <2>1. phase = "over" /\ UNCHANGED <<ev, tag, phase, result>> /\ Begins("check", 0)
    BY <1>3, <1>8, <1>14 DEF Ask
  <2> QED
    BY <1>7, <2>1 DEF Kept, ReadsOnly
<1>15. CASE OffersAfterLook
  <2>1. sphase = "over" /\ phase = "over" /\ stage = "looking"
    BY <1>8, <1>15 DEF OffersAfterLook
  <2>2. PICK changed : Offers(changed)
    BY <1>15 DEF OffersAfterLook
  <2>3. UNCHANGED <<vars, menu, asked, action, checked, result, sphase>> => Checks
    BY <1>3, <1>10, <1>11, <2>1 DEF Checks, Kept, ReadsOnly, TailDeleting, Undoes
  <2>4. Checks
    BY <1>6, <2>1, <2>2, <2>3 DEF Offers
  <2> QED
    BY <2>4 DEF Checks, Kept, ReadsOnly
<1>16. CASE RemoveChecks
  <2>1. sphase = "over" /\ phase = "over"
    BY <1>8, <1>9, <1>16 DEF RemoveChecks
  <2>2. PICK t \in TailChecks :
          \/ t = "changed" /\ Holds({"check"}, TRUE)
          \/ t = "unread" /\ HoldsAgain
          \/ /\ t \in {"unchanged", "gone"}
             /\ Begins("remove", IF t = "unchanged" THEN ev[1].etag ELSE 0)
             /\ UNCHANGED <<vars, menu, asked, held, result>>
    BY <1>16 DEF RemoveChecks
  <2>3. CASE Holds({"check"}, TRUE) \/ HoldsAgain
    BY <1>6, <2>1, <2>3 DEF Checks, Kept, ReadsOnly
  <2>4. CASE /\ t \in {"unchanged", "gone"}
             /\ Begins("remove", IF t = "unchanged" THEN ev[1].etag ELSE 0)
             /\ UNCHANGED <<vars, menu, asked, held, result>>
    <3>1. Kept /\ action' = "remove" /\ checked' = IF t = "unchanged" THEN ev[1].etag ELSE 0
      BY <1>3, <1>7, <2>1, <2>4
    <3>2. t = "unchanged" => TailNow = "unchanged"
      BY DEF TailChecks
    <3> QED
      BY <3>1, <3>2 DEF Kept, ReadsOnly
  <2> QED
    BY <2>2, <2>3, <2>4
<1>17. CASE RemoveEnds
  <2>1. sphase = "over" /\ phase = "over"
    BY <1>8, <1>17 DEF RemoveEnds
  <2>2. Checks
    BY <1>6, <1>17, <2>1 DEF RemoveEnds
  <2> QED
    BY <2>2 DEF Checks, Kept, ReadsOnly
<1>18. CASE FinishChecks
  <2>1. sphase = "over" /\ phase = "over" /\ stage = "checking"
    BY <1>8, <1>9, <1>18 DEF FinishChecks
  <2>2. UNCHANGED <<vars, menu, asked, held, action, result, sphase>> => Checks
    BY <1>3, <1>10, <1>11, <2>1 DEF Checks, Kept, ReadsOnly, TailDeleting, Undoes
  <2>3. Checks
    BY <1>6, <1>18, <2>1, <2>2 DEF FinishChecks
  <2> QED
    BY <2>3 DEF Checks, Kept, ReadsOnly
<1>19. CASE FinishLists
  <2>1. sphase = "over" /\ phase = "over"
    BY <1>8, <1>9, <1>19 DEF FinishLists
  <2>2. CASE RunsOn
    BY <2>1, <2>2 DEF RunsOn, TailDeleting, Undoes
  <2>3. ~RunsOn => Checks
    BY <1>6, <1>19, <2>1 DEF FinishLists
  <2> QED
    BY <2>2, <2>3 DEF Checks, Kept, ReadsOnly
<1> QED
  BY <1>12, <1>13, <1>14, <1>15, <1>16, <1>17, <1>18, <1>19 DEF Commands

-----------------------------------------------------------------------------
(* No newer than Google has it, and no delete past the one checked. *)

(* What PM knows of the new series' etag, whoever steps. *)
LEMMA DatedFrom ==
  ASSUME OneWay, JournalInv, TailDated, [JournalNext]_journalVars,
         tag' <= ev'[1].etag,
         ~CutDone' => result'.etag <= ev'[1].etag,
         TailDeleting' => ev[1].st # "none",
         Undoes' \/ TailDeleting' => out'.tag <= ev'[1].etag
  PROVE  TailDated'
<1>1. GoogleSteps /\ EtagsCount /\ GoogleTypeOK /\ GoogleTypeOK' /\ out \in RequestType
  BY EveryStepMoves, JournalStep DEF JournalInv, GoogleStands, SettleTypeOK, TypeOK
<1>2. ev'[1].etag >= ev[1].etag /\ ev[1].etag \in Nat /\ ev'[1].etag \in Nat
  BY <1>1, EtagsStillCount, SplitShape DEF GoogleSteps, GoogleTypeOK, Event
<1>3. ev[1].st # "none" => ev'[1].st # "none"
  BY <1>1, SplitShape DEF GoogleSteps, EtagsMove
<1>4. \A c \in flight' : c.tag \in Nat
  BY <1>1 DEF GoogleTypeOK, Copy
<1>5. out.tag \in Nat
  BY <1>1 DEF RequestType
<1>6. \A c \in flight : TailDelete(c) => c.tag <= ev[1].etag
  BY DEF TailDated
<1>7. Undoes \/ TailDeleting => out.tag <= ev[1].etag
  BY DEF TailDated, Undoes, TailDeleting
<1>8. ASSUME NEW c \in flight', TailDelete(c) PROVE c.tag <= ev'[1].etag
  <2>1. c \in flight \/ (c.tag = out.tag /\ (Undoes \/ TailDeleting))
    BY <1>1, <1>8 DEF GoogleSteps
  <2>2. c.tag <= ev[1].etag
    BY <1>6, <1>7, <1>8, <2>1
  <2> QED
    BY <1>2, <1>4, <2>2
<1> QED
  BY <1>3, <1>8 DEF TailDated, TailDelete, Undoes, TailDeleting

(* The etags PM knows of it stay no newer than Google's. *)
LEMMA TailDatedStep ==
  ASSUME OneWay, JournalInv, TailDated, [JournalNext]_journalVars
  PROVE  TailDated'
<1>1. /\ GoogleTypeOK /\ GoogleTypeOK' /\ EtagsCount /\ EtagsMove
      /\ tag \in Nat /\ out \in RequestType /\ result.etag \in Nat
  BY EveryStepMoves, JournalStep DEF GoogleSteps, JournalInv, GoogleStands, SettleTypeOK, TypeOK
<1>2. /\ ev'[1].etag >= ev[1].etag /\ ev[1].etag \in Nat /\ ev'[1].etag \in Nat
      /\ out.tag \in Nat
  BY <1>1, EtagsStillCount, SplitShape DEF GoogleTypeOK, Event, RequestType
<1>3. /\ tag <= ev'[1].etag
      /\ ~CutDone => result.etag <= ev'[1].etag
      /\ TailDeleting => ev[1].st # "none"
      /\ Undoes \/ TailDeleting => out.tag <= ev'[1].etag
  BY <1>1, <1>2 DEF TailDated, Undoes, TailDeleting
<1>4. CASE UNCHANGED <<tag, phase, out, sphase, result>>
  <2>1. (CutDone' <=> CutDone) /\ (TailDeleting' <=> TailDeleting) /\ (Undoes' <=> Undoes)
    BY <1>4 DEF CutDone, TailDeleting, Undoes
  <2> QED
    BY <1>3, <1>4, <2>1, DatedFrom
<1>5. CASE GoogleGoesOn \/ FirstRead \/ SecondRead \/ UNCHANGED journalVars
  <2>1. UNCHANGED <<tag, phase, out, sphase, result>>
    BY <1>5 DEF GoogleGoesOn, SettleOthers, FirstRead, SecondRead, journalVars, allVars, vars, machine, settling
  <2> QED
    BY <1>4, <2>1
<1>6. CASE Stops
  <2>1. tag' = 0 /\ result'.etag = 0 /\ ~TailDeleting' /\ ~Undoes'
    BY <1>6 DEF Stops, TailDeleting, Undoes
  <2> QED
    BY <1>2, <2>1, DatedFrom
<1>7. ASSUME SettleInv, Runs PROVE TailDated'
  <2>1. IInv /\ [Next]_vars /\ result = NoResult /\ UNCHANGED <<sphase, result>> /\ sphase = "over"
    BY <1>7 DEF Runs, Next, SettleInv, RunStands, PhaseSays, settling
  <2>2. TagBounded
    BY DEF TailDated, TagBounded, Undoes
  <2>3. TagBounded'
    BY <2>1, <2>2, TagBoundedStep
  <2>4. ~TailDeleting' /\ result'.etag = 0
    BY <2>1 DEF TailDeleting, NoResult
  <2> QED
    BY <1>2, <2>3, <2>4, DatedFrom DEF TagBounded
<1>8. ASSUME SettleInv, SettleMachine PROVE TailDated'
  <2>1. /\ UNCHANGED <<phase, tag, stage>>
        /\ result' = result \/ CutDone' \/ result'.etag \in {0, ev[1].etag}
        /\ TailDeleting' => \/ out'.tag = ev[1].etag /\ Shown(ev[1])
                            \/ TailDeleting /\ out'.tag = out.tag
    BY <1>8, MachineReads
  <2>2. ~Undoes'
    <3>1. sphase # "over"
      BY <1>8 DEF SettleMachine, TailLook, TailLooks, OriginalLook, SettleAnswered, SettleTriedAgain,
                  SettleWrites,
                  Relook, DeleteLook, SettleUnread
    <3>2. phase = "over"
      BY <1>8, <3>1 DEF SettleInv, PhaseSays, KindStands
    <3> QED
      BY <2>1, <3>2 DEF Undoes
  <2>3. ~CutDone' => result'.etag <= ev'[1].etag
    BY <1>2, <1>3, <2>1 DEF CutDone
  <2>4. TailDeleting' => ev[1].st # "none" /\ out'.tag <= ev'[1].etag
    BY <1>2, <1>3, <2>1 DEF Shown
  <2> QED
    BY <1>3, <2>1, <2>2, <2>3, <2>4, DatedFrom
<1>9. ASSUME SettleInv, Commands \/ Ask PROVE TailDated'
  <2>1. /\ ~TailDeleting' /\ ~Undoes'
        /\ result' = result \/ result' = NoResult
        /\ tag' = tag \/ (~CutDone /\ tag' = result.etag)
    BY <1>9, CommandsRead
  <2>2. ~CutDone' => result'.etag <= ev'[1].etag
    BY <1>2, <1>3, <2>1 DEF CutDone, NoResult
  <2>3. tag' <= ev'[1].etag
    BY <1>3, <2>1
  <2> QED
    BY <2>1, <2>2, <2>3, DatedFrom
<1>10. CASE Settles
  BY <1>7, <1>8, <1>9, <1>10 DEF Settles, JournalInv
<1> QED
  BY <1>5, <1>6, <1>10 DEF JournalNext

(* Of a new series at the etag Remove checked, all is as it was then. *)
CheckedStill == ev[1].st = "live" /\ ev[1].etag = checked => ev[1].rest = "same" \/ ev[1].etag = tag

(* No delete goes past it. *)
LEMMA TailCheckedStep ==
  ASSUME OneWay, JournalInv, TailDated, TailChecked, [JournalNext]_journalVars
  PROVE  TailChecked'
<1>1. /\ GoogleTypeOK /\ GoogleTypeOK' /\ EtagsCount /\ GoogleSteps /\ EtagsMove
      /\ checked \in Nat /\ TailDated'
  BY EveryStepMoves, JournalStep, TailDatedStep DEF GoogleSteps, JournalInv, GoogleStands, SettleTypeOK, TypeOK
<1>2. /\ ev'[1].etag >= ev[1].etag /\ ev[1].etag \in Nat /\ ev'[1].etag \in Nat
  BY <1>1, EtagsStillCount, SplitShape DEF GoogleTypeOK, Event
<1>3. ASSUME UNCHANGED <<tag, action, checked>>, action = "remove" => ~Undoes,
             TailDeleting' => out'.tag = checked \/ checked = 0 \/ (TailDeleting /\ out'.tag = out.tag)
      PROVE  TailChecked'
  <2> SUFFICES ASSUME action = "remove", checked # 0
               PROVE  /\ checked <= ev'[1].etag
                      /\ ev'[1].st = "live" /\ ev'[1].etag = checked => ev'[1].rest = "same" \/ ev'[1].etag = tag
                      /\ TailDeleting' => out'.tag = checked
                      /\ \A c \in flight' : TailDelete(c) => c.tag <= checked
    BY <1>3 DEF TailChecked, TailDeleting, TailDelete
  <2>1. /\ checked <= ev[1].etag
        /\ ev[1].st = "live" /\ ev[1].etag = checked => ev[1].rest = "same" \/ ev[1].etag = tag
        /\ TailDeleting => out.tag = checked
        /\ \A c \in flight : TailDelete(c) => c.tag <= checked
    BY DEF TailChecked, TailDeleting
  <2>2. ev'[1].st = "live" /\ ev'[1].etag = ev[1].etag => ev'[1] = ev[1]
    BY <1>1, <1>2, SplitShape DEF EtagsMove
  <2>3. \A c \in flight' : TailDelete(c) => c.tag <= checked
    BY <1>1, <1>3, <2>1 DEF GoogleSteps
  <2>4. checked <= ev'[1].etag /\ (ev'[1].etag = checked => ev[1].etag = checked)
    BY <1>1, <1>2, <2>1
  <2> QED
    BY <1>3, <2>1, <2>2, <2>3, <2>4
<1>4. CASE UNCHANGED <<tag, action, checked, out, sphase, phase>>
  <2>1. (action = "remove" => ~Undoes) /\ (TailDeleting' => TailDeleting)
    BY <1>4 DEF JournalInv, SettleInv, RemoveWrites, KindStands, Undoes, TailDeleting
  <2> QED
    BY <1>3, <1>4, <2>1
<1>5. CASE GoogleGoesOn \/ FirstRead \/ SecondRead \/ UNCHANGED journalVars
  <2>1. UNCHANGED <<tag, action, checked, out, sphase, phase>>
    BY <1>5 DEF GoogleGoesOn, SettleOthers, FirstRead, SecondRead, journalVars, allVars, vars, machine, settling
  <2> QED
    BY <1>4, <2>1
<1>6. CASE Stops
  BY <1>6 DEF Stops, TailChecked
<1>7. ASSUME SettleInv, Runs PROVE TailChecked'
  <2>1. action' = action /\ stage = "run"
    BY <1>7 DEF Runs, settling
  <2>2. action # "remove"
    BY <1>7, <2>1 DEF SettleInv, RemoveWrites
  <2> QED
    BY <2>1, <2>2 DEF TailChecked
<1>8. ASSUME SettleInv, SettleMachine PROVE TailChecked'
  <2>1. /\ UNCHANGED <<phase, tag, action, checked>>
        /\ TailDeleting' => \/ out'.tag = ev[1].etag /\ checked \in {0, ev[1].etag}
                            \/ TailDeleting /\ out'.tag = out.tag
    BY <1>8, MachineReads
  <2>2. action = "remove" => ~Undoes
    BY <1>8 DEF SettleInv, RemoveWrites, KindStands, Undoes
  <2> QED
    BY <1>3, <2>1, <2>2
<1>9. ASSUME SettleInv, Commands \/ Ask PROVE TailChecked'
  <2> SUFFICES ASSUME action' = "remove", checked' # 0 PROVE TailChecked'
    BY DEF TailChecked
  <2>1. /\ ~TailDeleting' /\ UNCHANGED <<ev, tag>>
        /\ checked' = ev[1].etag /\ TailNow = "unchanged"
    BY <1>9, CommandsRead
  <2>2. \A c \in flight' : TailDelete(c) => c.tag <= checked'
    BY <1>1, <2>1 DEF TailDated, TailDelete
  <2>3. ev[1].etag = tag \/ ev[1].rest = "same"
    BY <2>1 DEF TailNow
  <2>4. checked' <= ev'[1].etag
    BY <1>2, <2>1
  <2> QED
    BY <2>1, <2>2, <2>3, <2>4 DEF TailChecked, TailDeleting, TailDelete
<1>10. CASE Settles
  BY <1>7, <1>8, <1>9, <1>10 DEF Settles, JournalInv
<1> QED
  BY <1>5, <1>6, <1>10 DEF JournalNext

(* Whoever deletes the new series at Remove's hand deletes what it checked. *)
LEMMA RemovesTheChecked ==
  ASSUME JournalInv, TailDated, TailChecked, [JournalNext]_journalVars, Removes, checked # 0
  PROVE  ev[1].rest = "same" \/ ev[1].etag = tag
<1>1. /\ ev[1].st = "live" /\ ev'[1].st = "cancelled" /\ edits' = edits /\ ev' # ev
      /\ TailDeleting
  BY DEF Removes, TailDeleting
<1>2. /\ SettleInv /\ stage \in {"landing", "looking", "removing"} /\ action = "remove" /\ TailDelete(out)
      /\ GoogleTypeOK /\ GoogleStands /\ EtagsCount
  BY <1>1 DEF JournalInv, TailDeleting, SettleInv, PhaseSays, RemoveWrites, DeletePhases,
              SettleTypeOK, TypeOK, GoogleStands
<1>3. /\ checked <= ev[1].etag
      /\ ev[1].etag = checked => ev[1].rest = "same" \/ ev[1].etag = tag
      /\ out.tag = checked
      /\ \A c \in flight : TailDelete(c) => c.tag <= checked
  BY <1>1, <1>2 DEF TailChecked, TailDeleting
<1>4. checked \in Nat /\ ev[1].etag \in Nat
  BY <1>2, SplitShape DEF SettleInv, SettleTypeOK, GoogleTypeOK, Event
<1>5. CASE Settles
  <2>1. SettleMachine
    BY <1>1, <1>2, <1>5, CommandsStill DEF Settles, Runs, google
  <2>2. CASE SettleAnswered
    <3>1. PICK a : Attempt(a)
      BY <2>2 DEF SettleAnswered
    <3>2. Taken(a)
      BY <1>1, <3>1 DEF Attempt, NeverSent, LostAnswer, ServerError, Refused, Unreadable, NoCalendar, Rejected,
                        MayLand, google
    <3>3. ev[1].etag = out.tag
      BY <1>2, <3>2 DEF Taken, Accepts, TailDelete
    <3> QED
      BY <1>3, <3>3
  <2>3. CASE SettleTriedAgain
    BY <1>1, <2>3 DEF SettleTriedAgain, TriesAgain, MayLand, google
  <2>4. CASE TailLook \/ OriginalLook \/ Relook \/ DeleteLook \/ SettleUnread
    BY <1>1, <2>4 DEF TailLook, OriginalLook, Relook, DeleteLook, SettleUnread, google
  <2> QED
    BY <2>1, <2>2, <2>3, <2>4 DEF SettleMachine
<1>6. CASE GoogleGoesOn
  <2>1. World
    BY <1>6 DEF GoogleGoesOn, SettleOthers
  <2>2. ASSUME NEW c \in flight, Land(c) PROVE ev[1].etag = checked
    <3>1. /\ Accepts(c) /\ UNCHANGED deleted /\ c \in Copy /\ OfTheSplit(c)
          /\ \E f \in Effects(c.op, ev[c.e]) : ev' = [ev EXCEPT ![c.e] = f]
      BY <1>2, <2>2 DEF Land, GoogleTypeOK, GoogleStands, OfTheSplit
    <3>2. TailDelete(c)
      BY <1>1, <1>2, <3>1, SplitWriteMoves
    <3>3. ev[1].etag = c.tag
      BY <3>1, <3>2 DEF Accepts, TailDelete
    <3>4. c.tag <= checked
      BY <1>3, <3>2
    <3> QED
      BY <1>3, <1>4, <3>3, <3>4
  <2>3. ASSUME NEW i \in Steps, OtherEdits(i) \/ OtherDeletes(i) PROVE FALSE
    <3>1. edits' = edits + 1
      BY <2>3 DEF OtherEdits, OtherDeletes
    <3>2. edits \in Nat
      BY <1>2, BoundsAssumption DEF GoogleTypeOK
    <3> QED
      BY <1>1, <3>1, <3>2
  <2>4. ASSUME NEW i \in Steps, Purge(i) \/ Appear(i) PROVE FALSE
    BY <1>1, <1>2, <2>4, SplitShape DEF Purge, Appear, GoogleTypeOK
  <2> QED
    BY <1>3, <2>1, <2>2, <2>3, <2>4 DEF World
<1>7. CASE Stops \/ FirstRead \/ SecondRead \/ UNCHANGED journalVars
  BY <1>1, <1>7 DEF Stops, FirstRead, SecondRead, journalVars, allVars, vars, google
<1> QED
  BY <1>5, <1>6, <1>7 DEF JournalNext

(* Nothing is known of it at first. *)
LEMMA RecordInit == JournalInit => TailDated /\ TailChecked
<1> SUFFICES ASSUME JournalInit PROVE TailDated /\ TailChecked
  OBVIOUS
<1>1. /\ tag = 0 /\ phase = "start" /\ sphase = "over" /\ action = "check" /\ result = NoResult /\ flight = {}
  BY SplitShape DEF JournalInit, SettleInit, Init
<1>2. ev[1].etag = 0
  BY SplitShape DEF JournalInit, SettleInit, Init, GoogleInit, Fresh
<1> QED
  BY <1>1, <1>2 DEF TailDated, TailChecked, NoResult

-----------------------------------------------------------------------------
(* What PM has found, and seen. *)

(* What a look, or a removal, has found is so. *)
FoundSo ==
  /\ CutDone' => ev'[2].val = "new"
  /\ result'.found = "removed" => ev'[1].st # "live"
  /\ result'.found = "original_gone" => ev'[2].st # "live"

(* The machine Settle moves on, or ends on what is so. *)
LEMMA MachineFinds ==
  ASSUME SettleInv, SettleMachine
  PROVE  /\ sphase # "over"
         /\ result' = result \/ (sphase' = "over" /\ FoundSo)
<1>1. \A p : LooksNext(p) => result' = result
  BY DEF LooksNext
<1>2. \A p, r : Goes(p, r) => result' = result
  BY DEF Goes
<1>3. \A found, etag : Finds(found, etag) => sphase' = "over" /\ result'.found = found
  BY DEF Finds
<1> DEFINE Moves == result' = result \/ (sphase' = "over" /\ FoundSo)
<1>4. \A found, etag :
        /\ Finds(found, etag)
        /\ found = "cut_done" => ev'[2].val = "new"
        /\ found = "removed" => ev'[1].st # "live"
        /\ found = "original_gone" => ev'[2].st # "live"
        => Moves
  BY <1>3 DEF FoundSo, CutDone
<1>5. \A again : ev' = ev /\ DeleteTail(ev[1], again) => Moves
  BY <1>2, <1>4 DEF DeleteTail
<1>6. \A e : Verdict("cut", e) = "yes" => e.val = "new"
  BY VerdictSeen
<1>7. UNCHANGED google => ev' = ev
  BY DEF google
<1> HIDE DEF Moves
<1>8. CASE TailLook
  <2>1. ev' = ev
    BY <1>7, <1>8 DEF TailLook
  <2> QED
    BY <1>1, <1>4, <1>5, <1>8, <2>1 DEF TailLook, TailLooks, Shown, Moves
<1>9. CASE OriginalLook
  <2>1. ev' = ev
    BY <1>7, <1>9 DEF OriginalLook
  <2>2. \/ \E etag : ev[2].st # "live" /\ (Finds("original_gone", etag) \/ Finds("unknown", etag))
        \/ \E etag : Verdict("cut", ev[2]) = "yes" /\ Finds("cut_done", etag)
        \/ \E found \in {"unknown", "cut_unproved", "cut_not_done"} : \E etag : Finds(found, etag)
        \/ \E p : LooksNext(p)
        \/ \E p, r : Goes(p, r)
    BY <1>9 DEF OriginalLook
  <2> QED
    BY <1>1, <1>2, <1>4, <1>6, <1>9, <2>1, <2>2 DEF OriginalLook, Moves
<1>10. CASE SettleAnswered
  <2>1. PICK a \in Answers : Attempt(a) /\ IF sphase = "fence" THEN OnFence(a) ELSE OnDelete(a)
    BY <1>10 DEF SettleAnswered
  <2>2. OnFence(a) => Moves
    <3>1. OnFence(a) => \/ \E etag : Verdict("cut", ev'[2]) = "yes" /\ Finds("cut_done", etag)
                        \/ Finds("unknown", 0)
                        \/ \E p : LooksNext(p)
      BY DEF OnFence
    <3> QED
      BY <1>1, <1>4, <1>6, <3>1 DEF Moves
  <2>3. sphase # "fence" /\ a.v \in {"ok", "gone"} => ev'[1].st # "live"
    <3> SUFFICES ASSUME sphase # "fence", a.v \in {"ok", "gone"} PROVE ev'[1].st # "live"
      OBVIOUS
    <3>1. out.e = 1 /\ out.op = "delete" /\ GoogleTypeOK /\ EtagsCount /\ out \in RequestType
      BY <1>10 DEF SettleAnswered, SettleWrites, SettleInv, PhaseSays, TailDelete, SettleTypeOK, TypeOK,
                   GoogleStands
    <3>2. OfThePlan(CopyOf(out))
      BY <3>1, SplitShape DEF CopyOf, OfThePlan
    <3> QED
      BY <2>1, <3>1, <3>2, DeleteAnswered
  <2>4. sphase # "fence" /\ OnDelete(a) => Moves
    <3>1. OnDelete(a) => \/ a.v \in {"ok", "gone"} /\ Finds("removed", 0)
                         \/ Finds("unknown", 0)
                         \/ \E p : LooksNext(p)
      BY DEF OnDelete
    <3> QED
      BY <1>1, <1>4, <2>3, <3>1 DEF Moves
  <2> QED
    BY <1>10, <2>1, <2>2, <2>4 DEF SettleAnswered, SettleWrites, Moves
<1>11. CASE SettleTriedAgain
  BY <1>11 DEF SettleTriedAgain, SettleWrites
<1>12. CASE Relook
  <2>1. ev' = ev
    BY <1>7, <1>12 DEF Relook
  <2> QED
    BY <1>1, <1>4, <1>6, <1>12, <2>1 DEF Relook, Moves
<1>13. CASE DeleteLook
  <2>1. ev' = ev
    BY <1>7, <1>13 DEF DeleteLook
  <2> QED
    BY <1>4, <1>5, <1>13, <2>1 DEF DeleteLook, Shown, Moves
<1>14. CASE SettleUnread
  BY <1>4, <1>14 DEF SettleUnread, TailLooks, Moves
<1> QED
  BY <1>8, <1>9, <1>10, <1>11, <1>12, <1>13, <1>14 DEF SettleMachine

(* Of a look, or a removal, that found the split gone nothing is left once  *)
(* its command has ended; only Run::finish moves the run.                   *)
LEMMA CommandsLeave ==
  ASSUME SettleInv, Recorded, Commands \/ Ask
  PROVE  /\ result'.found \notin {"removed", "original_gone"}
         /\ \/ at' = at /\ outcome' = outcome
            \/ /\ stage' = "run" /\ outcome' = "running"
               /\ at' = 3 => CutDone
               /\ at' \in {2, 3}
<1> DEFINE Left == result'.found \notin {"removed", "original_gone"}
           Rests == at' = at /\ outcome' = outcome
<1>1. \A where : LeavesAt(where) => Left /\ Rests
  BY DEF LeavesAt, NoResult, vars, machine
<1>2. /\ \A where : Closes(where) => Left /\ Rests
      /\ \A offers, changed : Holds(offers, changed) => Left /\ Rests
      /\ HoldsAgain => Left /\ Rests
  BY <1>1 DEF Closes, Holds, HoldsAgain
<1>3. stage \in {"run", "held", "checking", "listing"} => result.found \notin {"removed", "original_gone"}
  BY DEF Recorded
<1>4. UNCHANGED vars => Rests
  BY DEF vars, machine
<1> HIDE DEF Left, Rests
<1>5. CASE LandsRun
  <2>1. CASE \E where : Closes(where)
    BY <1>2, <2>1 DEF Left, Rests
  <2>2. CASE UNCHANGED <<at, outcome, result>>
    BY <1>3, <1>5, <2>2 DEF LandsRun
  <2> QED
    BY <1>5, <2>1, <2>2 DEF LandsRun
<1>6. CASE LandsLook
  BY <1>2, <1>6 DEF LandsLook, Left, Rests
<1>7. CASE Ask
  BY <1>3, <1>4, <1>7 DEF Ask, Rests
<1>8. CASE OffersAfterLook
  <2>1. PICK changed : Offers(changed)
    BY <1>8 DEF OffersAfterLook
  <2>2. CASE result.found \in {"removed", "original_gone"}
    BY <1>2, <2>1, <2>2 DEF Offers, Left, Rests
  <2>3. UNCHANGED <<vars, result>> /\ result.found \notin {"removed", "original_gone"} => Left /\ Rests
    BY <1>4 DEF Left
  <2>4. CASE result.found \notin {"removed", "original_gone"}
    BY <1>2, <2>1, <2>3, <2>4 DEF Offers, Left, Rests
  <2> QED
    BY <2>2, <2>4
<1>9. CASE RemoveChecks
  BY <1>2, <1>3, <1>4, <1>9 DEF RemoveChecks, Left, Rests
<1>10. CASE RemoveEnds
  BY <1>2, <1>10 DEF RemoveEnds, Left, Rests
<1>11. CASE FinishChecks
  BY <1>2, <1>3, <1>4, <1>11 DEF FinishChecks, Left, Rests
<1>12. CASE FinishLists
  <2>1. CASE RunsOn
    BY <2>1 DEF RunsOn, NoResult
  <2> QED
    BY <1>2, <1>12, <2>1 DEF FinishLists, Left, Rests
<1> QED
  BY <1>5, <1>6, <1>7, <1>8, <1>9, <1>10, <1>11, <1>12 DEF Commands

(* A run passes its cut where Google has shown it, and only then is done.   *)
LEMMA RunsPass ==
  ASSUME SettleInv, Recorded, Runs
  PROVE  /\ at' > 2 => at > 2 \/ ev'[2].val = "new"
         /\ outcome' = "done" => at' > 2
         /\ at' >= 2 => ev'[1].st # "none"
         /\ result' = NoResult /\ result = NoResult
<1>1. /\ stage = "run" /\ UNCHANGED <<stage, result>> /\ [Next]_vars
      /\ IInv /\ result = NoResult
  BY DEF Runs, Next, settling, SettleInv, RunStands
<1>2. SettleInv'
  BY RunsKeep
<1>3. SeriesBehind'
  BY <1>1, <1>2 DEF SettleInv, RunStands
<1>4. at' >= 2 => ev'[1].st # "none"
  BY <1>3, SplitShape DEF SeriesBehind, Splits
<1>5. /\ at \in 1..(Len(Plan) + 1) /\ Len(Plan) \in Nat /\ Len(Plan) >= 2
      /\ phase # "over" => outcome = "running"
      /\ outcome = "done" => at > 2
  <2>1. Len(Plan) \in Nat /\ Len(Plan) >= 2
    BY PlanFacts, SettlesASplit
  <2> QED
    BY <1>1, <2>1 DEF IInv, TypeOK, Undoing, Recorded
<1>6. CASE UNCHANGED <<at, outcome>>
  BY <1>1, <1>4, <1>5, <1>6
<1>7. CASE at \in Steps /\ phase # "over" /\ StepMoves
  <2>1. CASE Stays
    BY <1>1, <1>4, <1>5, <2>1 DEF Stays
  <2>2. CASE \E end : Ended(end)
    <3>1. at' = at + 1 /\ outcome' = "running"
      BY <1>5, <1>7, <2>2 DEF Ended
    <3>2. at = 2 => Ended("done") /\ ShowsItsChange
      BY <1>7, <3>1, SplitShape DEF StepMoves, Stays
    <3>3. at = 2 => ev'[2].val = "new"
      BY <3>2, SplitShape DEF ShowsItsChange
    <3>4. at' > 2 => at > 2 \/ at = 2
      BY <1>5, <3>1
    <3> QED
      BY <1>1, <1>4, <3>1, <3>3, <3>4
  <2> QED
    BY <1>7, <2>1, <2>2 DEF StepMoves
<1>8. CASE phase \in UndoPhases /\ UndoMoves
  <2>1. at' = at /\ outcome' # "done"
    BY <1>8 DEF UndoMoves, SeriesUndone
  <2> QED
    BY <1>1, <1>4, <2>1
<1>9. CASE at \notin Steps /\ at' = at
  <2>1. at > 2
    BY <1>5, <1>9
  <2> QED
    BY <1>1, <1>4, <1>9, <2>1
<1> QED
  BY <1>1, <1>6, <1>7, <1>8, <1>9, EveryMove

(* The new series PM reads of is one Google has had. *)
LEMMA SeesWhatIsThere ==
  ASSUME OneWay, JournalInv, TailDated, [JournalNext]_journalVars, ~stopped',
         SeesTail, at' >= 2 => ev'[1].st # "none"
  PROVE  ev'[1].st # "none"
<1>1. /\ SettleInv' /\ TailDated'
  BY JournalStep, TailDatedStep DEF JournalInv
<1>2. /\ ev'[1].st = "none" => ev'[1].etag = 0
      /\ tag' \in Nat /\ result'.etag \in Nat
  BY <1>1, SplitShape DEF SettleInv, GoogleStands, EtagsCount, SettleTypeOK, TypeOK
<1>3. CutDone' => at' = 2
  <2>1. CutDone' => CutKind' = "sent"
    BY <1>1 DEF SettleInv, FinishOffered, CutDone
  <2>2. CutKind' = "sent" => at' = 2
    BY DEF CutKind
  <2> QED
    BY <2>1, <2>2
<1>4. CASE tag' # 0
  BY <1>1, <1>2, <1>4 DEF TailDated
<1>5. CASE result'.etag # 0
  BY <1>1, <1>2, <1>3, <1>5 DEF TailDated
<1>6. CASE sphase' \in {"delete", "delete_again"}
  BY <1>1, <1>6 DEF TailDated
<1> QED
  BY <1>4, <1>5, <1>6 DEF SeesTail

(* What is recorded stays so over PM's steps, *)
LEMMA RecordedSettles ==
  ASSUME OneWay, JournalInv, TailDated, Recorded, Settles
  PROVE  Recorded'
<1>1. /\ SettleInv /\ ~stopped' /\ altered' = (altered \/ ev'[2].val # "old")
      /\ seen' = (seen \/ SeesTail)
      /\ [JournalNext]_journalVars
  BY DEF Settles, JournalInv, JournalNext
<1>2. /\ EtagsMove /\ EtagsCount
      /\ ev[2].st # "none"
  <2>1. EtagsMove /\ EtagsCount
    BY <1>1, EveryStepMoves DEF GoogleSteps, JournalInv, GoogleStands
  <2> QED
    BY <2>1, SplitShape DEF EtagsCount
<1>3. /\ ev[1].st # "none" => ev'[1].st # "none"
      /\ ev[1].st \notin {"none", "live"} => ev'[1].st # "live"
      /\ ev[2].st # "live" => ev'[2].st # "live"
  BY <1>2, SplitShape DEF EtagsMove
<1>4. at \in Nat
  BY <1>1 DEF SettleInv, SettleTypeOK, TypeOK
<1> DEFINE Found == {"removed", "original_gone"}
<1>5. ASSUME at' >= 2 => ev'[1].st # "none",
             at' > 2 \/ CutDone' => altered',
             outcome' = "done" => at' > 2,
             result'.found = "removed" => ev'[1].st # "live",
             result'.found = "original_gone" => ev'[2].st # "live",
             result'.found \in Found => sphase' = "over" /\ stage' \in {"landing", "looking", "removing"}
      PROVE  Recorded'
  <2>1. ev'[2].val # "old" => altered'
    BY <1>1
  <2>2. seen => ev'[1].st # "none"
    BY <1>3 DEF Recorded
  <2>3. SeesTail => ev'[1].st # "none"
    BY <1>1, <1>5, SeesWhatIsThere
  <2> QED
    BY <1>1, <1>5, <2>1, <2>2, <2>3 DEF Recorded, CutDone
<1>6. /\ at >= 2 => ev[1].st # "none"
      /\ at > 2 \/ CutDone => altered'
      /\ outcome = "done" => at > 2
  BY <1>1 DEF Recorded
<1>7. CASE Runs
  <2>1. /\ at' > 2 => at > 2 \/ ev'[2].val = "new"
        /\ outcome' = "done" => at' > 2
        /\ at' >= 2 => ev'[1].st # "none"
        /\ result'.found = "none"
    BY <1>1, <1>7, RunsPass DEF NoResult
  <2>2. at' > 2 \/ CutDone' => altered'
    BY <1>1, <1>6, <2>1 DEF CutDone
  <2> QED
    BY <1>5, <2>1, <2>2
<1>8. CASE SettleMachine
  <2>1. /\ UNCHANGED <<at, outcome, stage>>
        /\ sphase # "over"
        /\ result' = result \/ (sphase' = "over" /\ FoundSo)
    BY <1>1, <1>8, MachineReads, MachineFinds
  <2>2. result.found \notin Found /\ stage \in {"landing", "looking", "removing"}
    BY <1>1, <2>1 DEF Recorded, SettleInv, PhaseSays
  <2>3. /\ result'.found = "removed" => ev'[1].st # "live"
        /\ result'.found = "original_gone" => ev'[2].st # "live"
        /\ result'.found \in Found => sphase' = "over" /\ stage' \in {"landing", "looking", "removing"}
    BY <2>1, <2>2 DEF FoundSo
  <2>4. CutDone' => CutDone \/ ev'[2].val = "new"
    BY <2>1 DEF FoundSo, CutDone
  <2>5. at' > 2 \/ CutDone' => altered'
    BY <1>1, <1>6, <2>1, <2>4
  <2>6. (at' >= 2 => ev'[1].st # "none") /\ (outcome' = "done" => at' > 2)
    BY <1>3, <1>6, <2>1
  <2> QED
    BY <1>5, <2>3, <2>5, <2>6
<1>9. CASE Commands \/ Ask
  <2>1. /\ result'.found \notin Found
        /\ \/ at' = at /\ outcome' = outcome
           \/ stage' = "run" /\ outcome' = "running" /\ (at' = 3 => CutDone) /\ at' \in {2, 3}
    BY <1>1, <1>9, CommandsLeave
  <2>2. CutDone' => CutDone
    <3>1. result' = result \/ result' = NoResult
      BY <1>1, <1>9, CommandsRead
    <3> QED
      BY <3>1 DEF CutDone, NoResult
  <2>3. stage' = "run" => (at' >= 2 => ev'[1].st # "none")
    <3>1. SettleInv'
      BY <1>1, <1>9, CommandsKeep
    <3>2. stage' = "run" => SeriesBehind'
      BY <3>1 DEF SettleInv, RunStands
    <3> QED
      BY <3>2, SplitShape DEF SeriesBehind, Splits
  <2>4. at' >= 2 => ev'[1].st # "none"
    BY <1>3, <1>6, <2>1, <2>3
  <2>5. at' > 2 \/ CutDone' => altered'
    BY <1>6, <2>1, <2>2
  <2>6. outcome' = "done" => at' > 2
    BY <1>6, <2>1
  <2> QED
    BY <1>5, <2>1, <2>4, <2>5, <2>6
<1> QED
  BY <1>7, <1>8, <1>9 DEF Settles

(* and over every other. *)
LEMMA RecordedStep ==
  ASSUME OneWay, JournalInv, TailDated, Recorded, Glimpsed, [JournalNext]_journalVars
  PROVE  Recorded'
<1>1. /\ EtagsMove /\ EtagsCount /\ ev[2].st # "none"
  <2>1. EtagsMove /\ EtagsCount
    BY EveryStepMoves DEF GoogleSteps, JournalInv, GoogleStands
  <2> QED
    BY <2>1, SplitShape DEF EtagsCount
<1>2. /\ ev[1].st # "none" => ev'[1].st # "none"
      /\ ev[1].st \notin {"none", "live"} => ev'[1].st # "live"
      /\ ev[2].st # "live" => ev'[2].st # "live"
  BY <1>1, SplitShape DEF EtagsMove
<1>3. CASE GoogleGoesOn
  <2>1. /\ altered' = (altered \/ ev'[2].val # "old") /\ seen' = seen
        /\ UNCHANGED <<at, outcome, result, sphase, stage>>
    BY <1>3 DEF GoogleGoesOn, SettleOthers, machine, settling
  <2>2. CutDone' = CutDone
    BY <2>1 DEF CutDone
  <2> QED
    BY <1>2, <2>1, <2>2 DEF Recorded
<1>4. CASE Stops
  <2>1. /\ at' = 1 /\ outcome' = "running" /\ result'.found = "none" /\ UNCHANGED <<ev, seen, altered>>
    BY <1>4 DEF Stops, google
  <2> QED
    BY <2>1 DEF Recorded, CutDone
<1>5. ASSUME UNCHANGED <<ev, altered, at, outcome, result, sphase, stage>>,
             seen' => seen \/ (stopped /\ ev[1].st # "none")
      PROVE  Recorded'
  <2>1. stopped => result.found # "removed"
    BY DEF Recorded, JournalInv
  <2>2. CutDone' = CutDone
    BY <1>5 DEF CutDone
  <2> QED
    BY <1>5, <2>1, <2>2 DEF Recorded
<1>6. FirstRead \/ SecondRead \/ UNCHANGED journalVars
        => UNCHANGED <<ev, altered, at, outcome, result, sphase, stage>>
  BY DEF FirstRead, SecondRead, journalVars, journal, allVars, vars, google, machine, settling
<1>7. CASE FirstRead
  <2>1. PICK i \in {1, 2} : ev[i].st = "live" /\ glimpse' = [e |-> i, copy |-> ev[i]]
    BY <1>7 DEF FirstRead
  <2>2. stopped /\ (seen' => seen \/ ev[1].st # "none")
    BY <1>7, <2>1 DEF FirstRead
  <2> QED
    BY <1>5, <1>6, <1>7, <2>2
<1>8. CASE SecondRead
  <2>1. stopped /\ (glimpse.e = 1 => ev[1].st # "none") /\ glimpse.e \in {1, 2}
    BY <1>8 DEF SecondRead, Glimpsed
  <2>2. seen' => seen \/ ev[1].st # "none"
    <3>1. PICK other \in {Unread, IF ev[3 - glimpse.e].st \in {"live", "cancelled"}
                                    THEN ev[3 - glimpse.e] ELSE Gone} :
            seen' = (seen \/ (IF glimpse.e = 1 THEN glimpse.copy ELSE other).st = "live")
      BY <1>8 DEF SecondRead
    <3>2. glimpse.e = 2 /\ other.st = "live" => ev[1].st # "none"
      BY <3>1 DEF Unread, Gone
    <3> QED
      BY <2>1, <3>1, <3>2
  <2> QED
    BY <1>5, <1>6, <1>8, <2>1, <2>2
<1>9. CASE UNCHANGED journalVars
  BY <1>5, <1>6, <1>9 DEF journalVars, journal
<1> QED
  BY <1>3, <1>4, <1>7, <1>8, <1>9, RecordedSettles DEF JournalNext

-----------------------------------------------------------------------------
(* What the record is kept for. *)

(* A new series that is another never comes to be the plan's again. *)
LEMMA WorldKeepsTheSeries ==
  ASSUME GoogleTypeOK, GoogleStands, World, ev[1].st # "none"
  PROVE  ev'[1].val \in {ev[1].val, "other"}
<1>1. EtagsCount /\ ev[1] \in Event
  BY SplitShape DEF GoogleStands, GoogleTypeOK
<1>2. ASSUME NEW c \in flight, Land(c) PROVE ev'[1].val = ev[1].val
  <2>1. /\ Accepts(c) /\ c \in Copy /\ (OfThePlan(c) \/ c.e = 2)
    BY <1>2 DEF Land, GoogleTypeOK, GoogleStands
  <2>2. PICK f \in Effects(c.op, ev[c.e]) : ev' = [ev EXCEPT ![c.e] = f]
    BY <1>2 DEF Land
  <2>3. CASE c.e # 1
    BY <2>2, <2>3, SplitShape DEF GoogleTypeOK
  <2>4. CASE c.e = 1
    <3>1. OfThePlan(c) /\ c.op \in {"insert", "delete"}
      BY <2>1, <2>4, SplitShape DEF OfThePlan
    <3>2. c.op = "delete"
      BY <2>1, <2>4, <3>1 DEF Accepts
    <3>3. ev'[c.e] = f /\ f.val = ev[c.e].val
      BY <1>1, <2>1, <2>2, <3>1, <3>2, WriteMoves
    <3> QED
      BY <2>4, <3>3
  <2> QED
    BY <2>3, <2>4
<1>3. ASSUME NEW i \in Steps, OtherEdits(i) \/ OtherDeletes(i) \/ Purge(i) \/ Appear(i)
      PROVE  ev'[1].val \in {ev[1].val, "other"}
  <2>1. CASE i # 1
    BY <1>3, <2>1, SplitShape DEF OtherEdits, OtherDeletes, Purge, Appear, GoogleTypeOK
  <2>2. CASE i = 1
    <3>1. CASE OtherEdits(1)
      <4>1. PICK v \in {ev[1].val, "other"}, r \in {ev[1].rest, "changed"} :
              ev' = [ev EXCEPT ![1] = [Moved(ev[1]) EXCEPT !.val = v, !.rest = r]]
        BY <3>1, SplitShape DEF OtherEdits, MayBecome
      <4> QED
        BY <1>1, <4>1, SplitShape DEF Moved, Event, GoogleTypeOK
    <3>2. CASE OtherDeletes(1)
      <4>1. PICK v \in {ev[1].val, "other"} :
              ev' = [ev EXCEPT ![1] = [Moved(ev[1]) EXCEPT !.st = "cancelled", !.val = v]]
        BY <3>2 DEF OtherDeletes
      <4> QED
        BY <1>1, <4>1, SplitShape DEF Moved, Event, GoogleTypeOK
    <3>3. CASE Purge(1)
      BY <1>1, <3>3, SplitShape DEF Purge, Event, GoogleTypeOK
    <3>4. ~Appear(1)
      BY SplitShape DEF Appear
    <3> QED
      BY <1>3, <2>2, <3>1, <3>2, <3>3, <3>4
  <2> QED
    BY <2>1, <2>2
<1> QED
  BY <1>2, <1>3 DEF World

(* A copy read first goes on telling what it told. *)
LEMMA GlimpsedStep ==
  ASSUME OneWay, JournalInv, Recorded, Glimpsed, [JournalNext]_journalVars
  PROVE  Glimpsed'
<1>1. CASE Settles \/ UNCHANGED journalVars
  <2>1. CASE Settles
    BY <2>1 DEF Settles, Glimpsed
  <2>2. CASE UNCHANGED journalVars
    BY <2>2 DEF Glimpsed, journalVars, journal, allVars, vars, google
  <2> QED
    BY <1>1, <2>1, <2>2
<1>2. CASE GoogleGoesOn
  <2>1. /\ World /\ GoogleTypeOK /\ GoogleStands
        /\ glimpse' = glimpse /\ stopped' = stopped /\ (altered => altered')
    BY <1>2 DEF GoogleGoesOn, SettleOthers, JournalInv, SettleTypeOK, TypeOK
  <2>2. ev[1].st # "none" => ev'[1].st # "none" /\ ev'[1].val \in {ev[1].val, "other"}
    BY <2>1, WorldStands, WorldKeepsTheSeries, SplitShape DEF EtagsMove
  <2> QED
    BY <2>1, <2>2 DEF Glimpsed
<1>3. CASE Stops \/ SecondRead
  BY <1>3 DEF Stops, SecondRead, Glimpsed
<1>4. CASE FirstRead
  <2>1. PICK i \in {1, 2} : ev[i].st = "live" /\ glimpse' = [e |-> i, copy |-> ev[i]]
    BY <1>4 DEF FirstRead
  <2>2. stopped' /\ ev' = ev /\ altered' = altered
    BY <1>4 DEF FirstRead, allVars, vars, google
  <2>3. glimpse'.e = i /\ glimpse'.copy = ev[i]
    BY <2>1
  <2> QED
    BY <2>1, <2>2, <2>3 DEF Glimpsed, Recorded
<1> QED
  BY <1>1, <1>2, <1>3, <1>4 DEF JournalNext

(* A run that closes a split as done, or not, leaves it showing once. *)
LEMMA RunShowsOnce ==
  ASSUME SettleInv, Recorded, stage = "run", phase = "over", CutKind = "none"
  PROVE  ~ShowsTwice
<1>1. IInv /\ SeriesBehind /\ EndSays
  BY DEF SettleInv, RunStands
<1>2. outcome \in {"done", "not_done", "unknown"} /\ at \in Nat
  BY <1>1 DEF IInv, TypeOK, EndSays
<1>3. CASE outcome = "done"
  BY <1>3 DEF Recorded, ShowsTwice
<1>4. CASE outcome = "unknown"
  <2>1. at \in {1, 2}
    BY <1>1, <1>4, SplitShape DEF EndSays
  <2>2. at = 2 => ends[1] = "done"
    BY <1>1, <1>4, SplitShape DEF SeriesBehind, Splits
  <2> QED
    BY <1>4, <2>1, <2>2 DEF CutKind
<1>5. CASE outcome = "not_done"
  <2>1. /\ at \in {1, 2} /\ ~Landed(at) /\ rollback # "unknown"
    BY <1>1, <1>5, SplitShape DEF IInv, TakenIsProved, TakenForNotDone, CutKind
  <2>2. at = 1 => ev[1].st # "live"
    BY <2>1, SplitShape DEF Landed
  <2>3. at = 2 => ev[1].st # "live"
    BY <1>1, <1>5, <2>1, SplitShape DEF SeriesBehind, Splits
  <2> QED
    BY <2>1, <2>2, <2>3 DEF ShowsTwice
<1> QED
  BY <1>2, <1>3, <1>4, <1>5

(* So does a command that closes it. *)
LEMMA ClosedShowsOnce ==
  ASSUME SettleInv, Recorded, seen, Commands \/ Ask, stage' \in Closed, stage' # stage
  PROVE  ~ShowsTwice
<1>1. \A where : Closes(where) => stage' = where
  BY DEF Closes, LeavesAt
<1>2. /\ \A offers, changed : ~Holds(offers, changed)
      /\ ~HoldsAgain
  BY DEF Holds, HoldsAgain, Closes, LeavesAt, Closed
<1>3. result.found = "removed" => ~ShowsTwice
  BY DEF Recorded, ShowsTwice
<1>4. result.found = "original_gone" => ~ShowsTwice
  BY DEF Recorded, ShowsTwice
<1>5. stage' \notin {"run", "landing", "looking", "checking", "listing", "removing"}
  BY DEF Closed
<1>6. CASE LandsRun
  <2>1. CutKind = "none" /\ stage = "run" /\ phase = "over"
    BY <1>5, <1>6 DEF LandsRun
  <2> QED
    BY <2>1, RunShowsOnce
<1>7. CASE LandsLook
  BY <1>2, <1>3, <1>4, <1>7 DEF LandsLook
<1>8. CASE Ask
  BY <1>5, <1>8 DEF Ask
<1>9. CASE OffersAfterLook
  <2>1. PICK changed : Offers(changed)
    BY <1>9 DEF OffersAfterLook
  <2> QED
    BY <1>2, <1>3, <1>4, <1>5, <2>1 DEF Offers
<1>10. CASE RemoveChecks
  BY <1>2, <1>5, <1>10 DEF RemoveChecks
<1>11. CASE RemoveEnds
  BY <1>2, <1>3, <1>11 DEF RemoveEnds
<1>12. CASE FinishChecks
  <2>1. PICK t \in TailChecks : t = "gone"
    BY <1>2, <1>5, <1>12 DEF FinishChecks
  <2>2. TailNow = "gone"
    BY <2>1 DEF TailChecks
  <2>3. ev[1].st # "live" \/ ev[1].val # "new"
    BY <2>2 DEF TailNow
  <2> QED
    BY <2>3 DEF ShowsTwice
<1>13. CASE FinishLists
  <2>1. ~RunsOn
    BY <1>5 DEF RunsOn
  <2>2. ev[2].st # "live" \/ CutDone
    BY <1>2, <1>13, <2>1 DEF FinishLists
  <2> QED
    BY <2>2 DEF ShowsTwice, Recorded
<1> QED
  BY <1>6, <1>7, <1>8, <1>9, <1>10, <1>11, <1>12, <1>13 DEF Commands

(* A record is forgotten of a split that does not show twice. *)
LEMMA ForgottenShowsOnce ==
  ASSUME JournalInv, Recorded, Glimpsed, [JournalNext]_journalVars, kept, ~kept', seen
  PROVE  ~ShowsTwice
<1>1. CASE Settles
  <2>1. stage' # stage /\ stage' \in Closed /\ SettleInv
    BY <1>1 DEF Settles, EndsRecord, JournalInv
  <2>2. ~SettleMachine
    BY <2>1, MachineReads
  <2>3. ~Runs
    BY <2>1 DEF Runs, settling
  <2> QED
    BY <1>1, <2>1, <2>2, <2>3, ClosedShowsOnce DEF Settles
<1>2. CASE SecondRead
  <2> SUFFICES ASSUME ShowsTwice PROVE FALSE
    OBVIOUS
  <2>1. /\ ev[1].st = "live" /\ ev[1].val = "new" /\ ev[2].st = "live" /\ ev[2].val = "old" /\ ~altered
        /\ glimpse # Nothing /\ glimpse.e \in {1, 2} /\ glimpse.copy.st = "live"
        /\ glimpse.e = 1 => glimpse.copy.val = "new"
        /\ glimpse.e = 2 => glimpse.copy.val = "old"
    BY <1>2 DEF SecondRead, ShowsTwice, Glimpsed
  <2> DEFINE tail(other) == IF glimpse.e = 1 THEN glimpse.copy ELSE other
             original(other) == IF glimpse.e = 1 THEN other ELSE glimpse.copy
  <2>2. PICK other \in {Unread, IF ev[3 - glimpse.e].st \in {"live", "cancelled"}
                                  THEN ev[3 - glimpse.e] ELSE Gone} :
          kept' \in {kept, Orphan(tail(other), original(other)) \in {"twice", "unknown"}}
    BY <1>2 DEF SecondRead
  <2>3. other = Unread \/ other = ev[3 - glimpse.e]
    BY <2>1, <2>2
  <2>4. \A copy : copy.st = "live" /\ copy.val = "old" => RuleSays(copy) = "twice"
    BY DEF RuleSays, Verdict, Shown
  <2>5. IsTail(tail(other)) \/ (glimpse.e = 2 /\ tail(other).st = "unread")
    BY <2>1, <2>3 DEF IsTail, Unread
  <2>6. \/ original(other).st = "live" /\ original(other).val = "old"
        \/ glimpse.e = 1 /\ original(other).st = "unread"
    BY <2>1, <2>3 DEF Unread
  <2>7. glimpse.e = 1 => IsTail(tail(other))
    BY <2>5
  <2> HIDE DEF tail, original
  <2>8. Orphan(tail(other), original(other)) \in {"twice", "unknown"}
    BY <2>4, <2>5, <2>6, <2>7 DEF Orphan
  <2> QED
    BY <2>2, <2>8
<1>3. CASE GoogleGoesOn \/ Stops \/ FirstRead \/ UNCHANGED journalVars
  BY <1>3 DEF GoogleGoesOn, Stops, FirstRead, journalVars, journal
<1> QED
  BY <1>1, <1>2, <1>3 DEF JournalNext

(* RecordInv holds at first, *)
LEMMA RecordInitSafe == JournalInit => RecordInv
<1> SUFFICES ASSUME JournalInit PROVE RecordInv
  OBVIOUS
<1>1. /\ at = 1 /\ outcome = "running" /\ result = NoResult /\ glimpse = Nothing /\ ~seen
  BY DEF JournalInit, SettleInit, Init
<1>2. ev[2].val = "old"
  BY SplitShape DEF JournalInit, SettleInit, Init, GoogleInit, Fresh
<1> QED
  BY <1>1, <1>2, RecordInit DEF RecordInv, Recorded, Glimpsed, CutDone, NoResult

(* and with JournalInv ever after. *)
THEOREM RecordSafe == OneWay => (JournalSpec => [](JournalInv /\ RecordInv))
<1> SUFFICES ASSUME OneWay PROVE JournalSpec => [](JournalInv /\ RecordInv)
  OBVIOUS
<1>1. JournalInv /\ RecordInv /\ [JournalNext]_journalVars => (JournalInv /\ RecordInv)'
  BY JournalStep, TailDatedStep, TailCheckedStep, RecordedStep, GlimpsedStep DEF RecordInv
<1> QED
  BY <1>1, JournalInitSafe, RecordInitSafe, PTL DEF JournalSpec

(* Remove deletes only the version of the new series it checked: another    *)
(* client's change to it is never deleted with it (Settle::tail_etag).      *)
THEOREM CheckedTailKeptSafe == OneWay => (JournalSpec => CheckedTailKept)
<1> SUFFICES ASSUME OneWay PROVE JournalSpec => CheckedTailKept
  OBVIOUS
<1>1. JournalInv /\ RecordInv /\ [JournalNext]_journalVars =>
        [Removes /\ checked # 0 => ev[1].rest = "same" \/ ev[1].etag = tag]_allVars
  BY RemovesTheChecked DEF RecordInv
<1> QED
  BY <1>1, RecordSafe, PTL DEF JournalSpec, CheckedTailKept

(* The record of a split stays while it shows twice: PM never forgets one   *)
(* that stopped half way with the new series seen and standing, and the     *)
(* original's rule as it was (Orphan::Clear: "nothing can show twice").      *)
THEOREM TwiceIsOnRecordSafe == OneWay => (JournalSpec => TwiceIsOnRecord)
<1> SUFFICES ASSUME OneWay PROVE JournalSpec => TwiceIsOnRecord
  OBVIOUS
<1>1. JournalInv /\ RecordInv /\ [JournalNext]_journalVars
        => [kept /\ ~kept' => ~(seen /\ ShowsTwice)]_journalVars
  BY ForgottenShowsOnce DEF RecordInv
<1> QED
  BY <1>1, RecordSafe, PTL DEF JournalSpec, TwiceIsOnRecord
=============================================================================
