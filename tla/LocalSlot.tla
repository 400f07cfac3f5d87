----------------------------- MODULE LocalSlot -----------------------------
(***************************************************************************)
(* The one place at the local model (local_slot.rs, and the gateway's two  *)
(* paths through it, llm_gateway.rs).  A chat call has the background call *)
(* that holds the lane put off; an unload waits its turn and cannot be put *)
(* off; switching Local AI off drops every call where it awaits.           *)
(*                                                                         *)
(* Every atomic the code touches is a step of its own: the flag chats set, *)
(* the Notify a background call leaves behind, the fair queue of the lane. *)
(* What the model answers, health and cooldown are left out.               *)
(***************************************************************************)
EXTENDS Sequences, SequencesExt

CONSTANTS
  Chats,   \* the chat turns that can stream at once
  Jobs,    \* the background calls
  Unload,  \* a pass of the release
  NoCall   \* nobody's Notify is installed

ASSUME SlotAssumption ==
  /\ Chats \cap Jobs = {} /\ Unload \notin Chats \cup Jobs
  /\ NoCall \notin Chats \cup Jobs \cup {Unload}

VARIABLES
  lane,        \* LocalSlot.lane: the holder, then those that wait, in order
  chatWaiting, \* LocalSlot.chat_waiting
  preempt,     \* LocalSlot.preempt: the call whose Notify is installed
  told,        \* the calls whose Notify holds a permit
  call,        \* where each call is
  aiOn         \* the Local AI switch

slotVars == <<lane, chatWaiting, preempt, told, call, aiOn>>

Callers == Chats \cup Jobs \cup {Unload}
CallPlaces == {"out", "entering", "flagged", "notified", "queued", "installed", "running", "ending", "paused"}

SlotTypeOK ==
  /\ lane \in Seq(Callers) /\ IsInjective(lane)
  /\ {chatWaiting, aiOn} \subseteq BOOLEAN
  /\ preempt \in Jobs \cup {NoCall} /\ told \subseteq Jobs
  /\ call \in [Callers -> CallPlaces]

SlotInit ==
  /\ lane = <<>> /\ chatWaiting = FALSE
  /\ preempt = NoCall /\ told = {}
  /\ call = [k \in Callers |-> "out"]
  /\ aiOn = TRUE

Holds(k) == lane # <<>> /\ Head(lane) = k
Goes(k, from, to) == call[k] = from /\ call' = [call EXCEPT ![k] = to]
Queues(k) == lane' = Append(lane, k)
Leaves(k) == \E i \in DOMAIN lane : lane[i] = k /\ lane' = RemoveAt(lane, i)
lock == <<chatWaiting, preempt, told>>

-----------------------------------------------------------------------------
(* run_foreground: the flag, the permit, the lane; on the way out the lane  *)
(* first, then the flag (the guards drop in that order).                    *)
ChatEnters(c) == Goes(c, "out", "entering") /\ UNCHANGED <<lane, lock, aiOn>>
ChatFlags(c) ==
  /\ Goes(c, "entering", "flagged") /\ chatWaiting' = TRUE
  /\ UNCHANGED <<lane, preempt, told, aiOn>>

(* Mutant: nobody is told. *)
ChatNotifiesNobody(c) == Goes(c, "flagged", "notified") /\ UNCHANGED <<lane, lock, aiOn>>

ChatNotifies(c) ==
  /\ Goes(c, "flagged", "notified") /\ told' = told \cup ({preempt} \ {NoCall})
  /\ UNCHANGED <<lane, chatWaiting, preempt, aiOn>>
ChatQueues(c) ==
  /\ Goes(c, "notified", "queued") /\ Queues(c)
  /\ UNCHANGED <<lock, aiOn>>
ChatRuns(c) ==
  /\ Holds(c) /\ Goes(c, "queued", "running")
  /\ UNCHANGED <<lane, lock, aiOn>>
ChatEnds(c) ==
  /\ Goes(c, "running", "ending") /\ Leaves(c)
  /\ UNCHANGED <<lock, aiOn>>
ChatUnflags(c) ==
  /\ Goes(c, "ending", "out") /\ chatWaiting' = FALSE
  /\ UNCHANGED <<lane, preempt, told, aiOn>>
(* The select with the switch drops the turn where it awaits. *)
ChatDropped(c) ==
  /\ ~aiOn /\ (Goes(c, "queued", "ending") \/ Goes(c, "running", "ending")) /\ Leaves(c)
  /\ UNCHANGED <<lock, aiOn>>

-----------------------------------------------------------------------------
(* run_local_complete and run_background: the gate, the lane, a fresh       *)
(* Notify, the flag, then the call against its Notify.                      *)
JobQueues(j) ==
  /\ aiOn /\ (Goes(j, "out", "queued") \/ Goes(j, "paused", "queued")) /\ Queues(j)
  /\ UNCHANGED <<lock, aiOn>>
JobInstalls(j) ==
  /\ Holds(j) /\ Goes(j, "queued", "installed")
  /\ preempt' = j /\ told' = told \ {j}
  /\ UNCHANGED <<lane, chatWaiting, aiOn>>

(* Mutant: the flag is not looked at. *)
JobRunsUnasked(j) ==
  /\ Goes(j, "installed", "running")
  /\ UNCHANGED <<lane, lock, aiOn>>

JobChecks(j) ==
  /\ IF chatWaiting THEN Goes(j, "installed", "paused") /\ Leaves(j)
                    ELSE Goes(j, "installed", "running") /\ UNCHANGED lane
  /\ UNCHANGED <<lock, aiOn>>

JobPreempted(j) ==
  /\ j \in told /\ Goes(j, "running", "paused") /\ Leaves(j)
  /\ told' = told \ {j}
  /\ UNCHANGED <<chatWaiting, preempt, aiOn>>
JobEnds(j) ==
  /\ Goes(j, "running", "out") /\ Leaves(j)
  /\ UNCHANGED <<lock, aiOn>>
JobGivesUp(j) == Goes(j, "paused", "out") /\ UNCHANGED <<lane, lock, aiOn>>

(* Mutant: the switch is raced only against the wait for the lane. *)
JobDroppedQueued(j) ==
  /\ ~aiOn /\ Goes(j, "queued", "out") /\ Leaves(j)
  /\ UNCHANGED <<lock, aiOn>>

JobDropped(j) ==
  /\ ~aiOn /\ (Goes(j, "queued", "out") \/ Goes(j, "running", "out")) /\ Leaves(j)
  /\ UNCHANGED <<lock, aiOn>>

(* release_pm_models (run_exclusive): the lane, the unload, no way to stop. *)
UnloadQueues == Goes(Unload, "out", "queued") /\ Queues(Unload) /\ UNCHANGED <<lock, aiOn>>
UnloadRuns == Holds(Unload) /\ Goes(Unload, "queued", "running") /\ UNCHANGED <<lane, lock, aiOn>>
UnloadEnds == Goes(Unload, "running", "out") /\ Leaves(Unload) /\ UNCHANGED <<lock, aiOn>>

(* set_local_ai_enabled *)
Switch == aiOn' = ~aiOn /\ UNCHANGED <<lane, lock, call>>

ChatSteps(c) ==
  \/ ChatFlags(c) \/ ChatNotifies(c) \/ ChatQueues(c) \/ ChatRuns(c)
  \/ ChatEnds(c) \/ ChatUnflags(c) \/ ChatDropped(c)
JobSteps(j) == JobInstalls(j) \/ JobChecks(j) \/ JobPreempted(j) \/ JobDropped(j)
UnloadSteps == UnloadRuns \/ UnloadEnds
SlotNext ==
  \/ \E c \in Chats : ChatEnters(c) \/ ChatSteps(c)
  \/ \E j \in Jobs : JobQueues(j) \/ JobSteps(j) \/ JobEnds(j) \/ JobGivesUp(j)
  \/ UnloadQueues \/ UnloadSteps \/ Switch

(* A chat's stream ends (its chunks have deadlines), and so does an unload; *)
(* of a background call only the way out of the lane is taken for granted,  *)
(* never that the model finishes.                                           *)
SlotFairness ==
  /\ \A c \in Chats : WF_slotVars(ChatSteps(c))
  /\ \A j \in Jobs : WF_slotVars(JobSteps(j))
  /\ WF_slotVars(UnloadSteps)
SlotSpec == SlotInit /\ [][SlotNext]_slotVars /\ SlotFairness
-----------------------------------------------------------------------------
(* A chat that waits never waits out a background call: whichever call runs *)
(* before it has been told to stop (local_slot.rs: "a background call checks *)
(* it and bails so chat never waits a whole background generation").        *)
NotBehindAJob ==
  \A c \in Chats, j \in Jobs : call[c] = "queued" /\ call[j] = "running" => j \in told

(* So a chat gets to the model, though no background call need ever end. *)
ChatGetsThrough == \A c \in Chats : call[c] = "entering" ~> call[c] \in {"running", "ending"}

(* Switched off, Local AI stops: what the model was doing for PM ends. *)
OffStops == \A k \in Callers : call[k] = "running" /\ ~aiOn ~> call[k] # "running" \/ aiOn
=============================================================================
