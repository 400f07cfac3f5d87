----------------------------- MODULE WorkProofs -----------------------------
(***************************************************************************)
(* Theorems about the long jobs of PM: a connector's detached syncs, for   *)
(* any number of tasks and targets; the calls to the local model, for any  *)
(* number of background calls; and the installs, repairs and uninstalls of *)
(* a mod, for any number of versions.                                      *)
(***************************************************************************)
EXTENDS ConnectorSync, LocalSlot, ModsLedger, FiniteSetTheorems, TLAPS

-----------------------------------------------------------------------------
(* ConnectorSync. *)

(* While no guard has let go of a slot that was not its own any more, one   *)
(* task at a time is under way, and the slot is taken.                      *)
OneTask == \A j, k \in Tasks : at[j] \in UnderWay /\ at[k] \in UnderWay => j = k
SlotTaken == \A k \in Tasks : at[k] \in UnderWay => running
SyncInv == at \in [Tasks -> Places] /\ (~robbed => OneTask /\ SlotTaken)

LEMMA SyncInvAtFirst == SyncInit => SyncInv
BY DEF SyncInit, SyncInv, OneTask, SlotTaken, Places, UnderWay

(* Who claims a free slot finds nobody under way. *)
LEMMA ClaimKeeps ==
  ASSUME SyncInv, NEW k \in Tasks, NEW r \in Requests, Claim(k, r), UNCHANGED robbed
  PROVE  SyncInv'
<1> USE DEF SyncInv, OneTask, SlotTaken, Places, UnderWay
<1>1. CASE running
  BY <1>1 DEF Claim, Push
<1>2. CASE ~running
  <2>1. ~robbed => \A j \in Tasks : at[j] \notin UnderWay
    BY <1>2
  <2>2. at' = [at EXCEPT ![k] = "claimed"] /\ running'
    BY <1>2 DEF Claim, Moves
  <2> QED
    BY <2>1, <2>2
<1> QED
  BY <1>1, <1>2

(* A guard that is dropped with another task under way is the one that lets *)
(* go of a slot not its own; without one it leaves nobody under way.        *)
LEMMA FreedKeeps ==
  ASSUME SyncInv, NEW k \in Tasks, at' = [at EXCEPT ![k] = "out"], FreesSlot(k)
  PROVE  SyncInv'
<1> USE DEF SyncInv, OneTask, SlotTaken, Places, UnderWay
<1>1. ASSUME ~robbed', NEW j \in Tasks PROVE at'[j] \notin UnderWay
  <2>1. j # k => at[j] \notin UnderWay
    BY <1>1 DEF FreesSlot, Others
  <2> QED
    BY <2>1
<1> QED
  BY <1>1

LEMMA SyncInvKept ==
  ASSUME SyncInv, [SyncNext]_syncVars
  PROVE  SyncInv'
<1> USE DEF SyncInv, OneTask, SlotTaken, Places, UnderWay
<1>1. ASSUME NEW k \in Tasks, NEW r \in Requests, Ask(k, r) PROVE SyncInv'
  BY <1>1, ClaimKeeps DEF Ask
<1>2. ASSUME NEW k \in Tasks, Resume(k) PROVE SyncInv'
  <2>1. CASE running \/ pending = {}
    BY <1>2, <2>1 DEF Resume, slot
  <2>2. CASE ~(running \/ pending = {})
    <3>1. PICK r \in pending : Claim(k, r)
      BY <1>2, <2>2 DEF Resume
    <3>2. at' = [at EXCEPT ![k] = "claimed"] /\ running' /\ robbed' = robbed
      BY <1>2, <2>2, <3>1 DEF Claim, Moves, Resume
    <3> QED
      BY <2>2, <3>2
  <2> QED
    BY <2>1, <2>2
<1>3. ASSUME NEW k \in Tasks, ClearStop(k) \/ BeginPass(k) \/ EndPass(k) \/ ClearMarker(k) PROVE SyncInv'
  BY <1>3 DEF ClearStop, BeginPass, EndPass, ClearMarker, Moves, slot
<1>4. ASSUME NEW k \in Tasks, PassComplete(k) PROVE SyncInv'
  BY <1>4 DEF PassComplete, StopsHere, SweepsNext, IsDone, Moves
<1>5. ASSUME NEW k \in Tasks, DropGuard(k) \/ Panic(k) PROVE SyncInv'
  BY <1>5, FreedKeeps DEF DropGuard, Panic, Moves
<1>6. ASSUME PressStop \/ Dies PROVE SyncInv'
  BY <1>6 DEF PressStop, Dies, slot
<1>7. CASE UNCHANGED syncVars
  BY <1>7 DEF syncVars
<1> QED
  BY <1>1, <1>2, <1>3, <1>4, <1>5, <1>6, <1>7 DEF SyncNext, TaskSteps

(* At most one task is out on a pass: no second pass of a connector races   *)
(* the first, whatever is asked, stopped, panics or dies, and whenever it   *)
(* comes, unless the guard of a run that was over has let go of the slot of *)
(* the next; for any number of tasks and targets.                           *)
THEOREM SingleFlightSafe == SyncSpec => []SingleFlight
<1>1. SyncInv => SingleFlight
  <2> SUFFICES ASSUME SyncInv, ~robbed PROVE Cardinality({k \in Tasks : at[k] = "passing"}) <= 1
    BY DEF SingleFlight
  <2> DEFINE Out == {k \in Tasks : at[k] = "passing"}
  <2>1. CASE Out = {}
    BY <2>1, FS_EmptySet
  <2>2. CASE Out # {}
    <3>1. PICK k \in Tasks : at[k] = "passing"
      BY <2>2
    <3>2. Out = {k}
      BY <3>1 DEF SyncInv, OneTask, UnderWay
    <3>3. Cardinality({k}) = 1
      BY FS_Singleton
    <3> QED
      BY <3>2, <3>3
  <2> QED
    BY <2>1, <2>2
<1>2. SyncInv /\ [SyncNext]_syncVars => SyncInv'
  BY SyncInvKept
<1> QED
  BY <1>1, <1>2, SyncInvAtFirst, PTL DEF SyncSpec

-----------------------------------------------------------------------------
(* LocalSlot. *)

(* Who has the lane stands first in it; the Notify installed is that of the *)
(* background call that has it; and the flag of a chat stands from before   *)
(* its notification until after its turn.                                   *)
HoldersFirst == \A k \in Callers : call[k] \in {"installed", "running"} => Holds(k)
NotifyIsHolders == \A j \in Jobs : call[j] \in {"installed", "running"} => preempt = j
FlagStands ==
  \A c \in Chats : call[c] \in {"flagged", "notified", "queued", "running", "ending"} => chatWaiting
RunningTold ==
  \A c \in Chats, j \in Jobs :
    call[c] \in {"notified", "queued"} /\ call[j] = "running" => j \in told
SlotInv ==
  /\ lane \in Seq(Callers) /\ call \in [Callers -> CallPlaces]
  /\ HoldersFirst /\ NotifyIsHolders /\ FlagStands /\ RunningTold

LEMMA SlotInvAtFirst == SlotInit => SlotInv
BY DEF SlotInit, SlotInv, HoldersFirst, NotifyIsHolders, FlagStands, RunningTold, CallPlaces, Callers

(* Who leaves the lane does not take the first place from another. *)
LEMMA LeavingKeepsFirst ==
  ASSUME lane \in Seq(Callers), NEW k \in Callers, Leaves(k)
  PROVE  /\ lane' \in Seq(Callers)
         /\ \A j \in Callers : Holds(j) /\ j # k => Holds(j)'
<1>0. DOMAIN lane = 1..Len(lane) /\ Len(lane) \in Nat
  OBVIOUS
<1>1. PICK i \in DOMAIN lane : lane[i] = k /\ lane' = RemoveAt(lane, i)
  BY DEF Leaves
<1> DEFINE before == SubSeq(lane, 1, i - 1)
           after == SubSeq(lane, i + 1, Len(lane))
<1>2. /\ before \in Seq(Callers) /\ after \in Seq(Callers)
      /\ Len(before) = i - 1 /\ \A n \in 1..(i - 1) : before[n] = lane[n]
  BY <1>0, <1>1
<1>3. lane' = before \o after
  BY <1>1 DEF RemoveAt
<1> HIDE DEF before, after
<1>4. lane' \in Seq(Callers)
  BY <1>2, <1>3
<1>5. ASSUME NEW j \in Callers, Holds(j), j # k PROVE Holds(j)'
  <2>1. lane # <<>> /\ lane[1] = j
    BY <1>5 DEF Holds
  <2>2. i - 1 \in Nat /\ i > 1
    BY <1>0, <1>1, <1>5, <2>1
  <2>3. Len(lane') >= 1 /\ lane'[1] = before[1]
    BY <1>2, <1>3, <2>2
  <2>4. lane' # <<>> /\ Head(lane') = j
    BY <1>2, <1>4, <2>1, <2>2, <2>3
  <2> QED
    BY <2>4 DEF Holds
<1> QED
  BY <1>4, <1>5

LEMMA QueueingKeepsFirst ==
  ASSUME lane \in Seq(Callers), NEW k \in Callers, Queues(k)
  PROVE  /\ lane' \in Seq(Callers)
         /\ \A j \in Callers : Holds(j) => Holds(j)'
<1>1. lane' \in Seq(Callers) /\ lane' # <<>> /\ (lane # <<>> => lane'[1] = lane[1])
  BY DEF Queues
<1> QED
  BY <1>1 DEF Holds

LEMMA SlotInvKept ==
  ASSUME \A c, d \in Chats : c = d, SlotInv, [SlotNext]_slotVars
  PROVE  SlotInv'
<1> USE SlotAssumption
    DEF SlotInv, HoldersFirst, NotifyIsHolders, FlagStands, RunningTold, CallPlaces, Callers, Goes, lock
<1>1. ASSUME NEW c \in Chats, ChatEnters(c) \/ ChatFlags(c) \/ ChatNotifies(c) \/ ChatRuns(c) \/ ChatUnflags(c)
      PROVE  SlotInv'
  BY <1>1 DEF ChatEnters, ChatFlags, ChatNotifies, ChatRuns, ChatUnflags, Holds
<1>2. ASSUME NEW c \in Chats, ChatQueues(c) PROVE SlotInv'
  BY <1>2, QueueingKeepsFirst DEF ChatQueues
<1>3. ASSUME NEW c \in Chats, ChatEnds(c) \/ ChatDropped(c) PROVE SlotInv'
  BY <1>3, LeavingKeepsFirst DEF ChatEnds, ChatDropped
<1>4. ASSUME NEW j \in Jobs, JobQueues(j) PROVE SlotInv'
  BY <1>4, QueueingKeepsFirst DEF JobQueues
<1>5. ASSUME NEW j \in Jobs, JobInstalls(j) PROVE SlotInv'
  BY <1>5 DEF JobInstalls, Holds
<1>6. ASSUME NEW j \in Jobs, JobChecks(j) PROVE SlotInv'
  <2>1. CASE chatWaiting
    BY <1>6, <2>1, LeavingKeepsFirst DEF JobChecks
  <2>2. CASE ~chatWaiting
    BY <1>6, <2>2 DEF JobChecks, Holds
  <2> QED
    BY <2>1, <2>2
<1>7. ASSUME NEW j \in Jobs, JobPreempted(j) \/ JobEnds(j) \/ JobDropped(j) PROVE SlotInv'
  BY <1>7, LeavingKeepsFirst DEF JobPreempted, JobEnds, JobDropped
<1>8. ASSUME NEW j \in Jobs, JobGivesUp(j) PROVE SlotInv'
  BY <1>8 DEF JobGivesUp, Holds
<1>9. CASE UnloadQueues
  BY <1>9, QueueingKeepsFirst DEF UnloadQueues
<1>10. CASE UnloadRuns \/ Switch
  BY <1>10 DEF UnloadRuns, Switch, Holds
<1>11. CASE UnloadEnds
  BY <1>11, LeavingKeepsFirst DEF UnloadEnds
<1>12. CASE UNCHANGED slotVars
  BY <1>12 DEF slotVars, Holds
<1> QED
  BY <1>1, <1>2, <1>3, <1>4, <1>5, <1>6, <1>7, <1>8, <1>9, <1>10, <1>11, <1>12
  DEF SlotNext, ChatSteps, JobSteps, UnloadSteps

(* A chat that waits for the model has told whichever background call runs  *)
(* before it to stop: one chat at a time, and any number of background      *)
(* calls, unloads and turns of the switch.  A second chat that ends first   *)
(* takes the flag with it, so one chat is a hypothesis.                     *)
THEOREM NotBehindAJobSafe ==
  ASSUME \A c, d \in Chats : c = d
  PROVE  SlotSpec => []NotBehindAJob
<1>1. SlotInv => NotBehindAJob
  BY DEF SlotInv, RunningTold, NotBehindAJob
<1>2. SlotInv /\ [SlotNext]_slotVars => SlotInv'
  BY SlotInvKept
<1> QED
  BY <1>1, <1>2, SlotInvAtFirst, PTL DEF SlotSpec

-----------------------------------------------------------------------------
(* ModsLedger: no step of an install, an update, a repair, an uninstall or *)
(* a start, and no stop between two of them, loses the files of the row;   *)
(* and a pause is kept.                                                    *)

(* Before the commit an install can still be taken back; after the folder   *)
(* was set aside it has something to put back.                              *)
Preparing == {"stage", "set_aside"}
Placing == {"rename", "commit"}

\* the store is the one this launch knows, or an older copy of it
RowIsTruth ==
  /\ IF rolled THEN row.version < truth.version ELSE row = truth
  /\ row.version = 0 => row.state = "active"

\* an exact copy of the files of truth is somewhere, and what else stands in
\* their place is what a removal has left
TruthStands ==
  ~damaged /\ truth.version # 0 =>
    Kept(truth.version) /\ folder[truth.version] # "changed"

\* what an install works on, and what its rolling back would put back
InstallUnderWay ==
  task \in Preparing \cup Placing =>
    /\ op.version \in Versions
    /\ op.kind = "repair" <=> op.version = row.version
    /\ task \in Preparing \/ op.kind # "repair" => op.replaced = "none"
    /\ task = "commit" => folder[op.version] = "whole"
PutsBack ==
  task \in Placing /\ ~damaged /\ truth.version # 0 =>
    IF op.version = truth.version
      THEN /\ truth.version \in quarantine /\ op.replaced # "changed"
           /\ op.replaced = "partial" => truth.version \in op.kept
      ELSE folder[truth.version] = "whole" \/ truth.version \in quarantine \cap op.kept

\* once the row is committed, or gone
Committed ==
  task \in {"register", "prune"} =>
    /\ ~rolled /\ failed = "none" /\ op.version # 0 /\ op.version = row.version
    /\ folder[op.version] = "whole"
Removing == task \in {"forget", "remove_folder"} => ~rolled /\ row.version = 0

\* what the startup load has found
Booting ==
  /\ task \in {"set_partial_aside", "take_back", "park_missing", "park"} => row.version # 0
  /\ task \in {"set_partial_aside", "take_back"} => row.version \in quarantine
  /\ task = "park_missing" => failed = "start"

\* the files of a row are in place, or an install holds them ready
Ready(v) ==
  /\ task \in {"idle", "delete_row", "park", "sweep"} \cup Preparing => folder[v] = "whole"
  /\ task \in Placing => IF op.version = v THEN op.replaced = "whole" ELSE folder[v] = "whole"
InPlace == ~damaged /\ failed = "none" /\ ~rolled /\ row.version # 0 => Ready(row.version)

\* and so are those of what is served, which is the row's; a start has served
\* nothing yet, whoever is gone nothing any more
Served ==
  /\ task \in {"remove_folder", "down", "set_partial_aside", "take_back", "park_missing", "park"} =>
       registry = 0
  /\ ~damaged /\ failed # "put_back" /\ ~rolled /\ registry # 0 =>
       /\ task \in {"idle", "delete_row", "sweep", "prune"} \cup Preparing \cup Placing =>
            registry = row.version
       /\ Ready(registry)

LedgerInv ==
  /\ LedgerTypeOK /\ RowIsTruth /\ TruthStands /\ InstallUnderWay /\ PutsBack
  /\ Committed /\ Removing /\ Booting /\ InPlace /\ Served

USE DEF Conditions, Missing, States, InstallTasks, RemoveTasks, BootTasks, NoRow, NoOp,
        Turns, Ends, Failures, folders, ghosts, Stands, Aside

-----------------------------------------------------------------------------
(* Types. *)

(* What a removal may leave behind: its own folders may go in part, the     *)
(* others stay.                                                             *)
LEMMA RemovedLeaves ==
  ASSUME folder \in [Versions -> Conditions], NEW vs \in SUBSET Versions, Removed(vs)
  PROVE  /\ folder' \in [Versions -> Conditions]
         /\ \A v \in Versions \ vs : folder'[v] = folder[v]
         /\ \A v \in vs : folder'[v] \in {"none", "partial", folder[v]}
<1>1. PICK f \in [vs -> Conditions] :
         /\ \A v \in vs : f[v] \in {"none", folder[v]} \cup (IF folder[v] = "none" THEN {} ELSE {"partial"})
         /\ folder' = [v \in Versions |-> IF v \in vs THEN f[v] ELSE folder[v]]
  BY DEF Removed
<1> QED
  BY <1>1

LEMMA FolderTyped ==
  ASSUME folder \in [Versions -> Conditions], NEW v, NEW c \in Conditions
  PROVE  [folder EXCEPT ![v] = c] \in [Versions -> Conditions]
OBVIOUS

LEMMA TypesAtFirst == LedgerInit => LedgerTypeOK
<1> SUFFICES ASSUME LedgerInit PROVE LedgerTypeOK
  OBVIOUS
<1>1. staging \in BOOLEAN /\ rolled \in BOOLEAN /\ damaged \in BOOLEAN /\ failed \in Failures
  BY Zenon DEF LedgerInit
<1>2. NoRow \in [version : Versions \cup {0}, state : States]
  OBVIOUS
<1>3. NoOp \in [kind : {"none", "fresh", "update", "repair"}, version : Versions \cup {0},
                replaced : Conditions, kept : SUBSET Versions]
  OBVIOUS
<1> QED
  BY <1>1, <1>2, <1>3 DEF LedgerInit, LedgerTypeOK

(* The folder an install sets aside is that of a version there is. *)
LEMMA TypesKept == LedgerTypeOK /\ InstallUnderWay /\ [LedgerNext]_ledgerVars => LedgerTypeOK'
<1> SUFFICES ASSUME LedgerTypeOK, InstallUnderWay, [LedgerNext]_ledgerVars PROVE LedgerTypeOK'
  OBVIOUS
<1> USE DEF LedgerTypeOK
<1> DEFINE Flags == staging \in BOOLEAN /\ rolled \in BOOLEAN /\ damaged \in BOOLEAN /\ failed \in Failures
<1>1. ASSUME NEW v \in Versions, Install(v) PROVE LedgerTypeOK'
  BY <1>1 DEF Install, Kind, Versions
<1>2. ASSUME NEW v \in Versions, Damage(v) PROVE LedgerTypeOK'
  BY <1>2 DEF Damage
<1>3. ASSUME Uninstall PROVE LedgerTypeOK'
  BY <1>3 DEF Uninstall
<1>4. ASSUME Stage PROVE LedgerTypeOK'
  BY <1>4 DEF Stage
<1>5. ASSUME SetAside PROVE LedgerTypeOK'
  <2>1. Flags'
    BY <1>5, Zenon DEF SetAside
  <2> QED
    BY <2>1, <1>5, FolderTyped DEF SetAside, InstallUnderWay, Preparing
<1>6. ASSUME Rename PROVE LedgerTypeOK'
  <2>1. Flags'
    BY <1>6, Zenon DEF Rename
  <2> QED
    BY <2>1, <1>6, FolderTyped DEF Rename
<1>7. ASSUME CommitRow PROVE LedgerTypeOK'
  BY <1>7 DEF CommitRow, StateAfterInstall
<1>8. ASSUME Register PROVE LedgerTypeOK'
  BY <1>8 DEF Register
<1>9. ASSUME Prune PROVE LedgerTypeOK'
  BY <1>9, RemovedLeaves DEF Prune
<1>10. ASSUME InstallFails PROVE LedgerTypeOK'
  <2>1. staging' \in BOOLEAN
    BY <1>10 DEF InstallFails, RollBack
  <2>2. folder' \in [Versions -> Conditions] /\ quarantine' \subseteq Versions /\ failed' \in Failures
    <3>1. CASE PutBack
      BY <3>1, FolderTyped DEF PutBack
    <3>2. CASE NotPutBack
      BY <1>10, <3>2, RemovedLeaves DEF NotPutBack, NewGoes, InstallFails, InstallUnderWay, Preparing, Placing
    <3> QED
      BY <1>10, <3>1, <3>2 DEF InstallFails, RollBack
  <2> QED
    BY <2>1, <2>2, <1>10 DEF InstallFails
<1>11. ASSUME DeleteRow PROVE LedgerTypeOK'
  BY <1>11 DEF DeleteRow
<1>12. ASSUME Forget PROVE LedgerTypeOK'
  BY <1>12 DEF Forget
<1>13. ASSUME RemoveFolder PROVE LedgerTypeOK'
  BY <1>13, RemovedLeaves DEF RemoveFolder
<1>14. ASSUME ReadRows PROVE LedgerTypeOK'
  <2>1. Flags'
    BY <1>14, Zenon DEF ReadRows
  <2> QED
    BY <2>1, <1>14 DEF ReadRows
<1>15. ASSUME RowsUnread PROVE LedgerTypeOK'
  BY <1>15 DEF RowsUnread
<1>16. ASSUME SetPartialAside PROVE LedgerTypeOK'
  <2>1. Flags'
    BY <1>16, Zenon DEF SetPartialAside
  <2> QED
    BY <2>1, <1>16, FolderTyped DEF SetPartialAside
<1>17. ASSUME TakeBack PROVE LedgerTypeOK'
  <2>1. Flags'
    BY <1>17, Zenon DEF TakeBack
  <2> QED
    BY <2>1, <1>17, FolderTyped DEF TakeBack
<1>18. ASSUME Park PROVE LedgerTypeOK'
  BY <1>18 DEF Park, StartupState
<1>19. ASSUME NEW v \in Versions, Sweep(v) PROVE LedgerTypeOK'
  BY <1>19 DEF Sweep
<1>20. ASSUME SweepEnds PROVE LedgerTypeOK'
  BY <1>20 DEF SweepEnds
<1>21. ASSUME Expire PROVE LedgerTypeOK'
  <2>1. Flags'
    BY <1>21, Zenon DEF Expire
  <2> QED
    BY <2>1, <1>21 DEF Expire
<1>22. ASSUME Killed PROVE LedgerTypeOK'
  BY <1>22 DEF Killed
<1>23. ASSUME Pause PROVE LedgerTypeOK'
  BY <1>23 DEF Pause
<1>24. ASSUME Unpause PROVE LedgerTypeOK'
  BY <1>24 DEF Unpause
<1>25. ASSUME NewerStore PROVE LedgerTypeOK'
  <2>1. Flags'
    BY <1>25, Zenon DEF NewerStore
  <2> QED
    BY <2>1, <1>25 DEF NewerStore
<1>26. ASSUME NEW v \in Versions \cup {0}, OlderStore([version |-> v, state |-> "active"])
       PROVE  LedgerTypeOK'
  BY <1>26 DEF OlderStore
<1>27. CASE UNCHANGED ledgerVars
  BY <1>27 DEF ledgerVars
<1>28. ASSUME TakeBackFails PROVE LedgerTypeOK'
  BY <1>28 DEF TakeBackFails
<1> QED
  BY <1>1, <1>2, <1>3, <1>4, <1>5, <1>6, <1>7, <1>8, <1>9, <1>10, <1>11, <1>12, <1>13, <1>14,
     <1>15, <1>16, <1>17, <1>18, <1>19, <1>20, <1>21, <1>22, <1>23, <1>24, <1>25, <1>26, <1>27, <1>28
  DEF LedgerNext, Installs, Removes, Boots

-----------------------------------------------------------------------------
(* The invariant. *)

LEMMA LedgerInvAtFirst == LedgerInit => LedgerInv
<1> SUFFICES ASSUME LedgerInit PROVE LedgerInv
  OBVIOUS
<1>1. LedgerTypeOK
  BY TypesAtFirst
<1>2. RowIsTruth /\ TruthStands /\ InPlace /\ Served
  BY DEF LedgerInit, RowIsTruth, TruthStands, InPlace, Served
<1>3. InstallUnderWay /\ PutsBack /\ Committed /\ Removing /\ Booting
  BY DEF LedgerInit, InstallUnderWay, PutsBack, Committed, Removing, Booting, Preparing, Placing
<1> QED
  BY <1>1, <1>2, <1>3 DEF LedgerInv

LEMMA LedgerInvKept == LedgerInv /\ [LedgerNext]_ledgerVars => LedgerInv'
<1> SUFFICES ASSUME LedgerInv, [LedgerNext]_ledgerVars PROVE LedgerInv'
  OBVIOUS
<1>0. LedgerTypeOK'
  BY TypesKept DEF LedgerInv
<1> USE LedgerAssumption, <1>0
    DEF Versions, LedgerTypeOK, LedgerInv, Preparing, Placing, RowIsTruth, TruthStands, Kept,
        InstallUnderWay, PutsBack, Committed, Removing, Booting, InPlace, Served, Ready
<1>1. ASSUME NEW v \in Versions, Install(v) PROVE LedgerInv'
  BY <1>1 DEF Install, Kind, Versions
<1>2. ASSUME NEW v \in Versions, Damage(v) PROVE LedgerInv'
  <2>1. ASSUME ~damaged' PROVE ~damaged /\ v # truth.version
    BY <1>2, <2>1, Zenon DEF Damage
  <2>2. task' \in {"idle", "down"} /\ TruthStands'
    BY <1>2, <2>1 DEF Damage
  <2>3. InPlace'
    BY <1>2, <2>1 DEF Damage
  <2>4. Served'
    BY <1>2, <2>1 DEF Damage
  <2> QED
    BY <1>2, <2>2, <2>3, <2>4 DEF Damage
<1>3. ASSUME Uninstall PROVE LedgerInv'
  BY <1>3 DEF Uninstall
<1>4. ASSUME Stage PROVE LedgerInv'
  BY <1>4 DEF Stage
<1>5. ASSUME SetAside PROVE LedgerInv'
  BY <1>5 DEF SetAside
<1>6. ASSUME Rename PROVE LedgerInv'
  BY <1>6 DEF Rename
<1>7. ASSUME CommitRow PROVE LedgerInv'
  BY <1>7 DEF CommitRow, StateAfterInstall
<1>8. ASSUME Register PROVE LedgerInv'
  BY <1>8 DEF Register
<1>9. ASSUME Prune PROVE LedgerInv'
  BY <1>9, RemovedLeaves DEF Prune
<1>10. ASSUME InstallFails PROVE LedgerInv'
  <2>1. CASE op.replaced # "none" /\ PutBack
    BY <1>10, <2>1 DEF InstallFails, PutBack
  <2>2. CASE NotPutBack
    <3>1. /\ \A v \in Versions \ {op.version} : folder'[v] = folder[v]
          /\ folder'[op.version] \in {"none", "partial", folder[op.version]}
          /\ task # "commit" => folder' = folder
      BY <1>10, <2>2, RemovedLeaves DEF NotPutBack, NewGoes, InstallFails
    <3> QED
      BY <1>10, <2>2, <3>1 DEF InstallFails, NotPutBack
  <2> QED
    BY <1>10, <2>1, <2>2 DEF InstallFails, RollBack
<1>11. ASSUME DeleteRow PROVE LedgerInv'
  BY <1>11 DEF DeleteRow
<1>12. ASSUME Forget PROVE LedgerInv'
  BY <1>12 DEF Forget
<1>13. ASSUME RemoveFolder PROVE LedgerInv'
  BY <1>13, RemovedLeaves DEF RemoveFolder
<1>14. ASSUME ReadRows PROVE LedgerInv'
  BY <1>14 DEF ReadRows
<1>15. ASSUME RowsUnread PROVE LedgerInv'
  BY <1>15 DEF RowsUnread
<1>16. ASSUME SetPartialAside PROVE LedgerInv'
  BY <1>16 DEF SetPartialAside
<1>17. ASSUME TakeBack PROVE LedgerInv'
  BY <1>17 DEF TakeBack
<1>18. ASSUME Park PROVE LedgerInv'
  BY <1>18 DEF Park, StartupState
<1>19. ASSUME NEW v \in Versions, Sweep(v) PROVE LedgerInv'
  BY <1>19 DEF Sweep
<1>20. ASSUME SweepEnds PROVE LedgerInv'
  BY <1>20 DEF SweepEnds
<1>21. ASSUME Expire PROVE LedgerInv'
  BY <1>21 DEF Expire
<1>22. ASSUME Killed PROVE LedgerInv'
  BY <1>22 DEF Killed
<1>23. ASSUME Pause PROVE LedgerInv'
  BY <1>23 DEF Pause
<1>24. ASSUME Unpause PROVE LedgerInv'
  BY <1>24 DEF Unpause
<1>25. ASSUME NewerStore PROVE LedgerInv'
  BY <1>25 DEF NewerStore
<1>26. ASSUME NEW v \in Versions \cup {0}, OlderStore([version |-> v, state |-> "active"])
       PROVE  LedgerInv'
  BY <1>26 DEF OlderStore
<1>27. CASE UNCHANGED ledgerVars
  BY <1>27 DEF ledgerVars
<1>28. ASSUME TakeBackFails PROVE LedgerInv'
  BY <1>28 DEF TakeBackFails
<1> QED
  BY <1>1, <1>2, <1>3, <1>4, <1>5, <1>6, <1>7, <1>8, <1>9, <1>10, <1>11, <1>12, <1>13, <1>14,
     <1>15, <1>16, <1>17, <1>18, <1>19, <1>20, <1>21, <1>22, <1>23, <1>24, <1>25, <1>26, <1>27, <1>28
  DEF LedgerNext, Installs, Removes, Boots

-----------------------------------------------------------------------------
(* At every step the invariant holds, with the types it includes. *)
THEOREM LedgerInvariant == LedgerSpec => []LedgerInv
BY LedgerInvAtFirst, LedgerInvKept, PTL DEF LedgerSpec

(* Whatever an operation does and wherever it stops or fails, an exact copy *)
(* of the row's files stands in their place or in quarantine; once PM is up *)
(* the row names files that are there, unless the start could not bring     *)
(* them back or a repair that failed could not; and what is served has its  *)
(* files unless such a repair was the last, for any number of versions.     *)
THEOREM NothingLostSafe == LedgerSpec => []NothingLost
<1>1. LedgerInv => NothingLost
  BY DEF LedgerInv, TruthStands, InPlace, Served, Ready, NothingLost, Up, Stand
<1> QED
  BY <1>1, LedgerInvariant, PTL

(* No install, repair, load or sweep undoes a pause: the commit decides on  *)
(* the row as it is then, and the load writes only over what it has read.   *)
THEOREM PauseKeptSafe == LedgerSpec => PauseKept
<1> DEFINE Keeps == row.state = "paused" /\ (Installs \/ Boots) => row'.state = "paused"
<1>1. LedgerInv => LedgerTypeOK /\ (row.version = 0 => row.state = "active")
  BY DEF LedgerInv, RowIsTruth
<1>2. ASSUME LedgerTypeOK, row.version = 0 => row.state = "active", row.state = "paused", Installs \/ Boots
      PROVE  row'.state = "paused"
  <2>1. CASE CommitRow
    BY <1>2, <2>1 DEF CommitRow, StateAfterInstall
  <2>2. CASE Park
    BY <1>2, <2>2 DEF Park, StartupState, LedgerTypeOK
  <2>3. CASE Stage \/ SetAside \/ Rename \/ Register \/ Prune \/ InstallFails
    BY <1>2, <2>3 DEF Stage, SetAside, Rename, Register, Prune, InstallFails
  <2>4. CASE ReadRows \/ RowsUnread \/ SetPartialAside \/ TakeBack \/ TakeBackFails \/ (\E v \in Versions : Sweep(v)) \/ SweepEnds
    BY <1>2, <2>4 DEF ReadRows, RowsUnread, SetPartialAside, TakeBack, TakeBackFails, Sweep, SweepEnds
  <2> QED
    BY <1>2, <2>1, <2>2, <2>3, <2>4 DEF Installs, Boots
<1>3. LedgerInv /\ [LedgerNext]_ledgerVars => [Keeps]_ledgerVars
  BY <1>1, <1>2
<1> QED
  BY <1>3, LedgerInvariant, PTL DEF LedgerSpec, PauseKept
=============================================================================
