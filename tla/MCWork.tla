------------------------------- MODULE MCWork -------------------------------
(***************************************************************************)
(* The long jobs of PM, which end, fail, are stopped or are killed at any  *)
(* step, checked side by side: the migration of a vault, the detached      *)
(* syncs of a connector, the calls to the local model, and the writes to a *)
(* calendar event.  They share nothing, and each behaviour is of the one   *)
(* `which` names.                                                          *)
(***************************************************************************)
EXTENDS VaultMove, ConnectorSync, LocalSlot, OneWrites

VARIABLE which

workVars == <<which, moveVars, syncVars, slotVars, writesVars>>

WorkTypeOK == MoveTypeOK /\ SyncTypeOK /\ SlotTypeOK /\ WritesTypeOK

WorkInit ==
  which \in {"move", "sync", "slot", "write"} /\ MoveInit /\ SyncInit /\ SlotInit /\ WritesInit
WorkNext ==
  /\ \/ which = "move" /\ MoveNext /\ UNCHANGED <<syncVars, slotVars, writesVars>>
     \/ which = "sync" /\ SyncNext /\ UNCHANGED <<moveVars, slotVars, writesVars>>
     \/ which = "slot" /\ SlotNext /\ UNCHANGED <<moveVars, syncVars, writesVars>>
     \/ which = "write" /\ WritesNext /\ UNCHANGED <<moveVars, syncVars, slotVars>>
  /\ UNCHANGED which
Migrates == which = "move" /\ MoveMachine /\ UNCHANGED <<which, syncVars, slotVars, writesVars>>
WorkSpec ==
  /\ WorkInit /\ [][WorkNext]_workVars
  /\ WF_workVars(Migrates) /\ SyncFairness /\ SlotFairness /\ WritesFairness
=============================================================================
