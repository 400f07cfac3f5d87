--------------------------- MODULE ConnectorSync ---------------------------
(***************************************************************************)
(* The detached syncs of a connector (connector_sync.rs): one slot, a      *)
(* queue for what is asked while a pass runs, a stop flag, and a marker in *)
(* the database for the next launch.                                       *)
(*                                                                         *)
(* A task is one call of run_detached_sync.  What a pass does to the index *)
(* is left out; here it begins, ends, panics or dies with PM.              *)
(***************************************************************************)
EXTENDS Naturals, Sequences, FiniteSets

CONSTANTS
  Tasks,   \* calls that can be under way at once
  Targets, \* the accounts or folders of the connector
  All      \* the request that names none

ASSUME SyncAssumption == All \notin Targets

VARIABLES
  running,  \* SyncSlot.running
  waiting,  \* SyncQueue.targets
  allOwed,  \* SyncQueue.all
  stopFlag, \* the connector's cancel flag
  pending,  \* the crash-resume marker: a set of at most one request
  at,       \* where each task is
  sweeping, \* what its pass is for
  stopped,  \* what it read of the stop flag
  resuming, \* PM has been launched, and has not looked at the marker yet
  owed,     \* ghost: what has been asked, or cut short, and no pass has begun on since
  robbed    \* ghost: the guard of a run that is over has let go of the slot of the next

syncVars == <<running, waiting, allOwed, stopFlag, pending, at, sweeping, stopped, resuming, owed, robbed>>
slot == <<running, waiting, allOwed>>

Requests == Targets \cup {All}
Covers(r) == IF r = All THEN Targets ELSE {r}
Places == {"out", "claimed", "marking", "passing", "handing", "clearing", "finishing"}
UnderWay == {"claimed", "marking", "passing", "handing"}

SyncTypeOK ==
  /\ {running, allOwed, stopFlag, resuming, robbed} \subseteq BOOLEAN
  /\ waiting \in Seq(Targets)
  /\ pending \subseteq Requests /\ Cardinality(pending) <= 1
  /\ at \in [Tasks -> Places] /\ sweeping \in [Tasks -> Requests]
  /\ stopped \in [Tasks -> BOOLEAN]
  /\ owed \subseteq Targets

SyncInit ==
  /\ running = FALSE /\ waiting = <<>> /\ allOwed = FALSE /\ stopFlag = FALSE
  /\ pending = {} /\ resuming = FALSE
  /\ at = [k \in Tasks |-> "out"] /\ sweeping = [k \in Tasks |-> All]
  /\ stopped = [k \in Tasks |-> FALSE]
  /\ owed = {} /\ robbed = FALSE

Moves(k, from, to) == at[k] = from /\ at' = [at EXCEPT ![k] = to]
NoSweep(k) == sweeping' = [sweeping EXCEPT ![k] = All] \* its local, out of scope
Others(k) == {j \in Tasks \ {k} : at[j] \in UnderWay}
Queued(t) == \E i \in DOMAIN waiting : waiting[i] = t

-----------------------------------------------------------------------------
(* SyncQueue: a repeat collapses, a request for all subsumes the others. *)
Push(r) ==
  /\ allOwed' = (allOwed \/ r = All)
  /\ waiting' = IF r = All THEN <<>>
                ELSE IF allOwed \/ Queued(r) THEN waiting ELSE Append(waiting, r)
  /\ UNCHANGED running

(* Mutant: whether the slot is free is not looked at. *)
ClaimAnyway(k, r) ==
  /\ Moves(k, "out", "claimed")
  /\ running' = TRUE /\ waiting' = <<>> /\ allOwed' = FALSE
  /\ sweeping' = [sweeping EXCEPT ![k] = r]
  /\ UNCHANGED <<stopFlag, pending, stopped>>

(* SyncRunGuard::claim: take the free slot, reset in the same step, or queue. *)
Claim(k, r) ==
  /\ at[k] = "out"
  /\ IF running
       THEN Push(r) /\ UNCHANGED <<at, sweeping>>
       ELSE /\ running' = TRUE /\ waiting' = <<>> /\ allOwed' = FALSE
            /\ Moves(k, "out", "claimed")
            /\ sweeping' = [sweeping EXCEPT ![k] = r]
  /\ UNCHANGED <<stopFlag, pending, stopped>>

(* Asked before the resume, it takes the place of what was cut short; queued *)
(* behind a slot that was let go of, the next claim may wipe it.             *)
Ask(k, r) ==
  /\ Claim(k, r)
  /\ owed' = (IF resuming /\ ~running THEN {} ELSE owed) \cup (IF robbed /\ running THEN {} ELSE Covers(r))
  /\ UNCHANGED <<resuming, robbed>>

(* resume_pending_sync, once, unless a sync is already running. *)
Resume(k) ==
  /\ resuming /\ resuming' = FALSE
  /\ IF running \/ pending = {}
       THEN UNCHANGED <<slot, at, sweeping, stopFlag, pending, stopped>>
       ELSE \E r \in pending : Claim(k, r)
  /\ UNCHANGED <<owed, robbed>>

ClearStop(k) ==
  /\ Moves(k, "claimed", "marking")
  /\ stopFlag' = FALSE
  /\ UNCHANGED <<slot, pending, sweeping, stopped, resuming, owed, robbed>>

(* The marker is written, best effort, and the pass begins. *)
BeginPass(k) ==
  /\ Moves(k, "marking", "passing")
  /\ pending' \in {{sweeping[k]}, pending}
  /\ owed' = owed \ Covers(sweeping[k])
  /\ UNCHANGED <<slot, stopFlag, sweeping, stopped, resuming, robbed>>

(* A pass ends, well or not; then the stop flag is read. *)
EndPass(k) ==
  /\ Moves(k, "passing", "handing")
  /\ stopped' = [stopped EXCEPT ![k] = stopFlag]
  /\ UNCHANGED <<slot, stopFlag, pending, sweeping, resuming, owed, robbed>>

(* SyncRunGuard::pass_complete, under one lock.  A stop drops the queue. *)
StopsHere(k) ==
  /\ stopped[k] /\ Moves(k, "handing", "clearing")
  /\ running' = FALSE /\ waiting' = <<>> /\ allOwed' = FALSE
  /\ owed' = {} /\ NoSweep(k)
SweepsNext(k) ==
  /\ ~stopped[k] /\ Moves(k, "handing", "marking")
  /\ \/ /\ waiting # <<>>
        /\ sweeping' = [sweeping EXCEPT ![k] = Head(waiting)]
        /\ waiting' = Tail(waiting) /\ UNCHANGED allOwed
     \/ /\ waiting = <<>> /\ allOwed
        /\ sweeping' = [sweeping EXCEPT ![k] = All]
        /\ allOwed' = FALSE /\ UNCHANGED waiting
  /\ UNCHANGED <<running, owed>>

(* Mutant: a run that was not stopped is over, whatever came in meanwhile. *)
IsDoneUnseen(k) ==
  /\ ~stopped[k] /\ Moves(k, "handing", "clearing")
  /\ running' = FALSE /\ NoSweep(k)
  /\ UNCHANGED <<waiting, allOwed, owed>>

IsDone(k) ==
  /\ ~stopped[k] /\ waiting = <<>> /\ ~allOwed /\ Moves(k, "handing", "clearing")
  /\ running' = FALSE /\ NoSweep(k)
  /\ UNCHANGED <<waiting, allOwed, owed>>
PassComplete(k) ==
  /\ StopsHere(k) \/ SweepsNext(k) \/ IsDone(k)
  /\ stopped' = [stopped EXCEPT ![k] = FALSE]
  /\ UNCHANGED <<stopFlag, pending, resuming, robbed>>

(* The marker goes, best effort, whoever wrote it; the terminal event; the  *)
(* guard is dropped.  It lowers the flag if it is up, also when the next    *)
(* run put it up meanwhile: what is queued behind that run is then lost.    *)
ClearMarker(k) ==
  /\ Moves(k, "clearing", "finishing")
  /\ pending' \in {pending, {}}
  /\ UNCHANGED <<slot, stopFlag, sweeping, stopped, resuming, owed, robbed>>
FreesSlot(k) ==
  /\ running' = FALSE
  /\ robbed' = (Others(k) # {})
DropGuard(k) ==
  /\ Moves(k, "finishing", "out") /\ FreesSlot(k)
  /\ owed' = IF Others(k) = {} THEN owed
             ELSE owed \cap UNION {Covers(sweeping[j]) : j \in {i \in Others(k) : at[i] \in {"claimed", "marking"}}}
  /\ UNCHANGED <<waiting, allOwed, stopFlag, pending, sweeping, stopped, resuming>>

(* A panic in a pass unwinds through the guard.  What was queued waits for  *)
(* nobody, and the next claim wipes it.                                     *)
Panic(k) ==
  /\ Moves(k, "passing", "out") /\ FreesSlot(k)
  /\ owed' = {} /\ NoSweep(k)
  /\ UNCHANGED <<waiting, allOwed, stopFlag, pending, stopped, resuming>>

PressStop ==
  /\ stopFlag' = TRUE
  /\ UNCHANGED <<slot, pending, at, sweeping, stopped, resuming, owed, robbed>>

(* PM stops.  Only the marker is left: what is owed is what was being swept *)
(* as far as the marker says so.                                            *)
Dies ==
  /\ running' = FALSE /\ waiting' = <<>> /\ allOwed' = FALSE /\ stopFlag' = FALSE
  /\ at' = [k \in Tasks |-> "out"] /\ stopped' = [k \in Tasks |-> FALSE]
  /\ sweeping' = [k \in Tasks |-> All]
  /\ resuming' = TRUE /\ robbed' = FALSE
  /\ owed' = UNION {Covers(r) : r \in pending}
             \cap UNION {Covers(sweeping[k]) : k \in {j \in Tasks : at[j] = "passing"}}
  /\ UNCHANGED pending

TaskSteps(k) ==
  \/ Resume(k) \/ ClearStop(k) \/ BeginPass(k) \/ EndPass(k)
  \/ PassComplete(k) \/ ClearMarker(k) \/ DropGuard(k)
SyncNext ==
  \/ \E k \in Tasks : TaskSteps(k) \/ Panic(k) \/ \E r \in Requests : Ask(k, r)
  \/ PressStop \/ Dies

(* Every pass ends: a page or a file that hangs times out.                  *)
SyncFairness == \A k \in Tasks : WF_syncVars(TaskSteps(k))
SyncSpec == SyncInit /\ [][SyncNext]_syncVars /\ SyncFairness
-----------------------------------------------------------------------------
(* A connector is never swept twice at once (connector_sync.rs: the caller  *)
(* returns "without starting a second, racing sync"), whenever requests     *)
(* come, unless the guard of a run that was over has let go of the slot the *)
(* next run had taken.                                                      *)
SingleFlight == ~robbed => Cardinality({k \in Tasks : at[k] = "passing"}) <= 1

(* What is asked of a connector is swept, unless it is stopped or panics or *)
(* its slot was let go of; after a crash, what the marker names is swept,   *)
(* unless another sync is asked for first.  And a stop pressed during a     *)
(* pass ends the run, whatever was queued.                                  *)
RequestsHeeded ==
  /\ \A t \in Targets : t \in owed ~> t \notin owed
  /\ \A k \in Tasks : (at[k] = "passing" /\ stopFlag) ~> (~running \/ robbed)
=============================================================================
