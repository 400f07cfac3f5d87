----------------------------- MODULE VaultLock -----------------------------
(***************************************************************************)
(* The writer lock of a shared vault (vault/lock.rs, lock_session.rs).     *)
(*                                                                         *)
(* Instances of PM share a folder and nothing else.  A lockfile with a     *)
(* heartbeat says who writes; a request file asks the writer to hand over; *)
(* a lock whose heartbeat is old may be taken.  Every read and every write *)
(* of a file is a step of its own, so another instance can act between a   *)
(* check and the write it decides; an instance can fall asleep anywhere.   *)
(*                                                                         *)
(* Time is counted in units in which every instance that is awake ticks    *)
(* once (the watcher's 1.5 s, with room for slow files); an age stops      *)
(* being counted where it makes no difference any more.  The ack file,     *)
(* which nothing reads, is left out.                                       *)
(***************************************************************************)
EXTENDS Integers, FiniteSets

CONSTANTS
  Instances,  \* the running copies of PM that can reach the folder
  Gone,       \* the id of an instance that has crashed
  None,       \* no lockfile, no request
  Beat,       \* HEARTBEAT_INTERVAL_SECS
  Ttl,        \* REQUEST_TTL_SECS
  Stale,      \* STALE_AFTER_SECS
  MaxSleeps   \* bound: how often instances fall asleep

ASSUME LockAssumption ==
  /\ Gone \notin Instances /\ None \notin Instances \cup {Gone}
  /\ Beat \in Nat \ {0} /\ Ttl \in Nat /\ Stale \in Nat
  /\ Beat < Ttl /\ Ttl < Stale
  /\ MaxSleeps \in Nat

VARIABLES
  lockfile,   \* vault.lock: who, and the age of its heartbeat
  request,    \* vault.baton-request: who, and its age
  mode,       \* LockSession.mode
  open,       \* the store is open
  beaten,     \* the age of LockSession.last_heartbeat_ms
  doing,      \* what the instance is in the middle of
  awake, ticked, sleeps,
  seen,       \* the curtain shows the holder as stale
  together    \* ghost: for how long two awake instances have been writing

lockVars == <<lockfile, request, mode, open, beaten, doing, awake, ticked, sleeps, seen, together>>
files == <<lockfile, request>>
world == <<awake, sleeps, together>>

Ages == 0..(Stale + 1)
Older(n) == IF n > Stale THEN n ELSE n + 1
By(i) == [by |-> i, age |-> 0]
NoFile == [by |-> None, age |-> 0]
FileType == [by : Instances \cup {Gone, None}, age : Ages]
Modes == {"none", "active", "waiting", "requesting"}
Doings == {"nothing", "engaging", "acquiring", "clearing", "taking", "writing",
           "reopening", "asking", "releasing", "stepping_back", "beating"}

LockTypeOK ==
  /\ lockfile \in FileType /\ request \in FileType
  /\ mode \in [Instances -> Modes] /\ doing \in [Instances -> Doings]
  /\ open \in [Instances -> BOOLEAN] /\ awake \in [Instances -> BOOLEAN]
  /\ ticked \in [Instances -> BOOLEAN] /\ seen \in [Instances -> BOOLEAN]
  /\ beaten \in [Instances -> Ages]
  /\ sleeps \in 0..MaxSleeps /\ together \in Nat

LockInit ==
  /\ lockfile = NoFile /\ request = NoFile
  /\ mode = [i \in Instances |-> "none"]
  /\ open = [i \in Instances |-> FALSE]
  /\ beaten = [i \in Instances |-> 0]
  /\ doing = [i \in Instances |-> "nothing"]
  /\ awake = [i \in Instances |-> TRUE]
  /\ ticked = [i \in Instances |-> FALSE]
  /\ seen = [i \in Instances |-> FALSE]
  /\ sleeps = 0 /\ together = 0

(* What the lockfile says to instance i (evaluate). *)
IsStale == lockfile.by # None /\ lockfile.age > Stale
Free == lockfile.by = None
Owned(i) == lockfile.by = i
HeldByLive(i) == ~Free /\ ~Owned(i) /\ ~IsStale
HeldByStale(i) == ~Free /\ ~Owned(i) /\ IsStale

Does(i, d) == doing' = [doing EXCEPT ![i] = d]
At(i, d) == awake[i] /\ doing[i] = d
Becomes(i, m) == mode' = [mode EXCEPT ![i] = m]
SetActive(i) == Becomes(i, "active") /\ Does(i, "nothing")
TakesLock(i) == lockfile' = By(i) /\ beaten' = [beaten EXCEPT ![i] = 0]

-----------------------------------------------------------------------------
(* Opening the vault (engage, settle).  The store is open before the lock   *)
(* is looked at.                                                            *)
OpenStore(i) ==
  /\ At(i, "nothing") /\ mode[i] = "none" /\ ~open[i]
  /\ open' = [open EXCEPT ![i] = TRUE]
  /\ Does(i, "engaging")
  /\ UNCHANGED <<files, mode, beaten, ticked, seen, world>>

Settle(i) ==
  /\ At(i, "engaging")
  /\ \/ (Free \/ Owned(i)) /\ Does(i, "acquiring") /\ UNCHANGED <<open, mode>>
     \/ HeldByStale(i) /\ Does(i, "taking") /\ UNCHANGED <<open, mode>>
     \/ /\ HeldByLive(i)
        /\ open' = [open EXCEPT ![i] = FALSE]
        /\ Becomes(i, "waiting") /\ Does(i, "nothing")
  /\ UNCHANGED <<files, beaten, ticked, seen, world>>

Acquire(i) ==
  /\ At(i, "acquiring")
  /\ TakesLock(i) /\ together' = 0
  /\ Does(i, "clearing")
  /\ UNCHANGED <<request, mode, open, ticked, seen, awake, sleeps>>

ClearLeftovers(i) ==
  /\ At(i, "clearing")
  /\ request' = NoFile
  /\ SetActive(i)
  /\ UNCHANGED <<lockfile, open, beaten, ticked, seen, world>>

(* force_take: the baton files go, then the lock is written; take_over then *)
(* opens the store again, where it is closed.                               *)
ForceTake(i) ==
  /\ At(i, "taking")
  /\ request' = NoFile
  /\ Does(i, "writing")
  /\ UNCHANGED <<lockfile, mode, open, beaten, ticked, seen, world>>

WriteLock(i) ==
  /\ At(i, "writing")
  /\ TakesLock(i) /\ together' = 0
  /\ Does(i, "reopening")
  /\ UNCHANGED <<request, mode, open, ticked, seen, awake, sleeps>>

ReopenStore(i) ==
  /\ At(i, "reopening")
  /\ open' = [open EXCEPT ![i] = TRUE]
  /\ SetActive(i)
  /\ UNCHANGED <<files, beaten, ticked, seen, world>>

(* The store does not open: the lock stays with an instance that is no      *)
(* writer, until it tries again or the lock is stale.                       *)
ReopenFails(i) ==
  /\ At(i, "reopening") /\ ~open[i]
  /\ Does(i, "nothing")
  /\ UNCHANGED <<files, mode, open, beaten, ticked, seen, world>>

(* The folder cannot be reached, or the vault is closed: the store closes,  *)
(* then the lock goes (close_and_disengage, disengage).                     *)
Disengage(i) ==
  /\ At(i, "nothing") /\ mode[i] = "active"
  /\ open' = [open EXCEPT ![i] = FALSE]
  /\ Becomes(i, "none")
  /\ lockfile' = IF Owned(i) THEN NoFile ELSE lockfile
  /\ UNCHANGED <<request, beaten, doing, ticked, seen, world>>

-----------------------------------------------------------------------------
(* The curtain's buttons (continue_here, force_take).                       *)
ContinueHere(i) ==
  /\ At(i, "nothing") /\ mode[i] = "waiting"
  /\ Does(i, IF HeldByLive(i) THEN "asking" ELSE "taking")
  /\ UNCHANGED <<files, mode, open, beaten, ticked, seen, world>>

RequestBaton(i) ==
  /\ At(i, "asking")
  /\ request' = By(i)
  /\ Becomes(i, "requesting") /\ Does(i, "nothing")
  /\ UNCHANGED <<lockfile, open, beaten, ticked, seen, world>>

(* The curtain asks for the standing now and then (status). *)
Poll(i) ==
  /\ awake[i] /\ mode[i] \in {"waiting", "requesting"}
  /\ seen' = [seen EXCEPT ![i] = HeldByStale(i)]
  /\ UNCHANGED <<files, mode, open, beaten, doing, ticked, world>>

(* "Take over here", on what the curtain last showed. *)
TakeOverHere(i) ==
  /\ At(i, "nothing") /\ mode[i] \in {"waiting", "requesting"} /\ seen[i]
  /\ Does(i, "taking")
  /\ UNCHANGED <<files, mode, open, beaten, ticked, seen, world>>

-----------------------------------------------------------------------------
(* The watcher (tick, next_action). *)
ForeignRequest(i) == request.by \notin {None, i} /\ request.age <= Ttl
HeartbeatDue(i) == beaten[i] >= Beat

Ticks(i) == ticked' = [ticked EXCEPT ![i] = TRUE]

(* Mutant: the heartbeat is written without a look at the lock. *)
TickActiveBlind(i) ==
  /\ At(i, "nothing") /\ mode[i] = "active" /\ ~ticked[i]
  /\ Ticks(i)
  /\ \/ ForeignRequest(i) /\ Does(i, IF Owned(i) THEN "releasing" ELSE "stepping_back")
     \/ ~ForeignRequest(i) /\ HeartbeatDue(i) /\ Does(i, "beating")
     \/ ~ForeignRequest(i) /\ ~HeartbeatDue(i) /\ UNCHANGED doing
  /\ UNCHANGED <<files, mode, open, beaten, seen, world>>

(* HandOff, and a heartbeat that finds the lock is not ours, end alike: the *)
(* store closes behind the curtain.  release deletes only our own lock.     *)
TickActive(i) ==
  /\ At(i, "nothing") /\ mode[i] = "active" /\ ~ticked[i]
  /\ Ticks(i)
  /\ \/ ForeignRequest(i) /\ Does(i, IF Owned(i) THEN "releasing" ELSE "stepping_back")
     \/ /\ ~ForeignRequest(i) /\ HeartbeatDue(i)
        /\ Does(i, IF Free \/ Owned(i) THEN "beating" ELSE "stepping_back")
     \/ ~ForeignRequest(i) /\ ~HeartbeatDue(i) /\ UNCHANGED doing
  /\ UNCHANGED <<files, mode, open, beaten, seen, world>>

Release(i) ==
  /\ At(i, "releasing")
  /\ lockfile' = NoFile
  /\ Does(i, "stepping_back")
  /\ UNCHANGED <<request, mode, open, beaten, ticked, seen, world>>

(* Mutant: the curtain comes down before an open store. *)
StepBackOpen(i) ==
  /\ At(i, "stepping_back")
  /\ Becomes(i, "waiting") /\ Does(i, "nothing")
  /\ UNCHANGED <<files, open, beaten, ticked, seen, world>>

StepBack(i) ==
  /\ At(i, "stepping_back")
  /\ open' = [open EXCEPT ![i] = FALSE]
  /\ Becomes(i, "waiting") /\ Does(i, "nothing")
  /\ UNCHANGED <<files, beaten, ticked, seen, world>>

Heartbeat(i) ==
  /\ At(i, "beating")
  /\ TakesLock(i)
  /\ Does(i, "nothing")
  /\ UNCHANGED <<request, mode, open, ticked, seen, world>>

TickRequesting(i) ==
  /\ At(i, "nothing") /\ mode[i] = "requesting" /\ ~ticked[i]
  /\ Ticks(i)
  /\ IF HeldByLive(i) THEN UNCHANGED doing ELSE Does(i, "taking")
  /\ UNCHANGED <<files, mode, open, beaten, seen, world>>

Watches(i) == TickActive(i) \/ TickRequesting(i)
Finishes(i) ==
  \/ Settle(i) \/ Acquire(i) \/ ClearLeftovers(i) \/ ForceTake(i) \/ WriteLock(i)
  \/ ReopenStore(i) \/ ReopenFails(i) \/ RequestBaton(i) \/ Release(i) \/ StepBack(i) \/ Heartbeat(i)

-----------------------------------------------------------------------------
(* Crashes, sleep, time. *)
NotOf(i, f) == IF f.by = i THEN [f EXCEPT !.by = Gone] ELSE f
Dies(i) ==
  /\ mode[i] # "none" \/ doing[i] # "nothing"
  /\ lockfile' = NotOf(i, lockfile) /\ request' = NotOf(i, request)
  /\ Becomes(i, "none") /\ Does(i, "nothing")
  /\ open' = [open EXCEPT ![i] = FALSE]
  /\ beaten' = [beaten EXCEPT ![i] = 0]
  /\ seen' = [seen EXCEPT ![i] = FALSE]
  /\ UNCHANGED <<ticked, world>>

Sleep(i) ==
  /\ awake[i] /\ sleeps < MaxSleeps
  /\ awake' = [awake EXCEPT ![i] = FALSE]
  /\ sleeps' = sleeps + 1
  /\ UNCHANGED <<files, mode, open, beaten, doing, ticked, seen, together>>

Wake(i) ==
  /\ ~awake[i]
  /\ awake' = [awake EXCEPT ![i] = TRUE]
  /\ ticked' = [ticked EXCEPT ![i] = FALSE]
  /\ UNCHANGED <<files, mode, open, beaten, doing, sleeps, seen, together>>

Writes(i) == awake[i] /\ open[i] /\ mode[i] = "active"

(* A unit of time ends when all who are awake have ticked and are between   *)
(* two commands.                                                            *)
Pass ==
  /\ \A i \in Instances : awake[i] =>
       doing[i] = "nothing" /\ (mode[i] \in {"active", "requesting"} => ticked[i])
  /\ lockfile' = IF Free THEN lockfile ELSE [lockfile EXCEPT !.age = Older(@)]
  /\ request' = IF request.by = None THEN request ELSE [request EXCEPT !.age = Older(@)]
  /\ beaten' = [i \in Instances |-> 
                    IF mode[i] = "active" \/ doing[i] # "nothing" THEN Older(beaten[i]) ELSE 0]
  /\ ticked' = [i \in Instances |-> FALSE]
  /\ together' = IF Cardinality({i \in Instances : Writes(i)}) > 1 THEN together + 1 ELSE 0
  /\ UNCHANGED <<mode, open, doing, awake, sleeps, seen>>

LockNext ==
  \/ Pass
  \/ \E i \in Instances :
       \/ OpenStore(i) \/ Disengage(i) \/ ContinueHere(i) \/ Poll(i) \/ TakeOverHere(i)
       \/ Watches(i) \/ Finishes(i)
       \/ Dies(i) \/ Sleep(i) \/ Wake(i)

LockSpec == LockInit /\ [][LockNext]_lockVars
-----------------------------------------------------------------------------
(* Two writers are never left standing: whoever has lost the lock finds out *)
(* at its next heartbeat and steps back (lock.rs, refresh).                 *)
SplitLimit == Beat
SplitEnds == together <= SplitLimit

(* A store is open only for the writer, or on the way in or out.            *)
ClosedBehindCurtain ==
  \A i \in Instances : open[i] => mode[i] = "active" \/ doing[i] # "nothing"
=============================================================================
