------------------------------ MODULE MCStored ------------------------------
(***************************************************************************)
(* What PM keeps on disk, checked side by side: a vault's lock file, which *)
(* other instances write too; a vault itself, while its key or its folder  *)
(* changes; a calendar event's row; a mod's row with its files; and a      *)
(* chat's file with its index.  They share no state (a migration holds the *)
(* lock throughout, and nothing is indexed in it), and each behaviour is   *)
(* of the one `which` names.                                               *)
(***************************************************************************)
EXTENDS VaultLock, VaultMove, CalendarMirror, ModsLedger, ChatIndex, TLC

VARIABLE which

storedVars == <<which, lockVars, moveVars, mirrorVars, ledgerVars, chatVars>>

\* the two instances do the same things
Either == Permutations(Instances)

StoredTypeOK ==
  CASE which = "lock" -> LockTypeOK
    [] which = "move" -> MoveTypeOK
    [] which = "mirror" -> MirrorTypeOK
    [] which = "mods" -> LedgerTypeOK
    [] which = "chat" -> ChatTypeOK

StoredInit ==
  /\ which \in {"lock", "move", "mirror", "mods", "chat"}
  /\ LockInit /\ MoveInit /\ MirrorInit /\ LedgerInit /\ ChatInit
  /\ which # "mirror" => Where(1) = "live" /\ listed = 1
StoredNext ==
  /\ \/ which = "lock" /\ LockNext /\ UNCHANGED <<moveVars, mirrorVars, ledgerVars, chatVars>>
     \/ which = "move" /\ MoveNext /\ UNCHANGED <<lockVars, mirrorVars, ledgerVars, chatVars>>
     \/ which = "mirror" /\ MirrorNext /\ UNCHANGED <<lockVars, moveVars, ledgerVars, chatVars>>
     \/ which = "mods" /\ LedgerNext /\ UNCHANGED <<lockVars, moveVars, mirrorVars, chatVars>>
     \/ which = "chat" /\ ChatNext /\ UNCHANGED <<lockVars, moveVars, mirrorVars, ledgerVars>>
  /\ UNCHANGED which
StoredSpec == StoredInit /\ [][StoredNext]_storedVars
=============================================================================
