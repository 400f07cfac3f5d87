----------------------------- MODULE ModsLedger -----------------------------
(***************************************************************************)
(* A mod's row and its files (mods/ledger.rs, mods/disk.rs): install,      *)
(* update, repair, uninstall, and the startup load and sweep that believe  *)
(* the rows and never the disk.                                            *)
(*                                                                         *)
(* One mod of one store.  Every operation holds the ledger lock, so they   *)
(* do not interleave; a pause of the user's, a crash, a damaged folder and *)
(* a store put back as an older copy of itself come at any step they can.  *)
(* Consent, the API range, the blacklist, the copies in sibling stores and *)
(* the 30 days of the quarantine are left out.                             *)
(***************************************************************************)
EXTENDS Naturals

CONSTANT Newest  \* bound: the versions there are

ASSUME LedgerAssumption == Newest \in Nat \ {0}

VARIABLES
  row,        \* the mods row: version (0: no row) and state
  folder,     \* what stands at <id>/<version>
  quarantine, \* the versions of which the quarantine holds an exact copy
  staging,    \* the staging folder holds something
  registry,   \* the version that is served
  task,       \* what the operation under the ledger lock does next
  op,         \* its kind, its version, and what it keeps for a rollback
  known,      \* the state the startup load read, or the commit returned
  truth,      \* ghost: the row as last changed here
  rolled,     \* ghost: the store is an older copy of itself
  damaged,    \* ghost: somebody else touched the files of truth
  failed      \* ghost: what has failed since the row was last written or read

ledgerVars == <<row, folder, quarantine, staging, registry, task, op, known, truth, rolled, damaged, failed>>

Versions == 1..Newest
Missing == {"none", "partial"} \* check_files finds a file missing
Conditions == Missing \cup {"changed", "whole"}
NoRow == [version |-> 0, state |-> "active"]
States == {"active", "paused", "parked"}
NoOp == [kind |-> "none", version |-> 0, replaced |-> "none", kept |-> {}]
InstallTasks == {"stage", "set_aside", "rename", "commit", "register", "prune"}
RemoveTasks == {"delete_row", "forget", "remove_folder"}
BootTasks == {"down", "set_partial_aside", "take_back", "park_missing", "park", "sweep"}
Failures == {"none", "start", "put_back"}

LedgerTypeOK ==
  /\ row \in [version : Versions \cup {0}, state : States] /\ truth \in [version : Versions \cup {0}, state : States]
  /\ folder \in [Versions -> Conditions]
  /\ quarantine \subseteq Versions
  /\ staging \in BOOLEAN /\ rolled \in BOOLEAN /\ damaged \in BOOLEAN
  /\ failed \in Failures
  /\ registry \in Versions \cup {0}
  /\ task \in {"idle"} \cup InstallTasks \cup RemoveTasks \cup BootTasks
  /\ op \in [kind : {"none", "fresh", "update", "repair"}, version : Versions \cup {0},
             replaced : Conditions, kept : SUBSET Versions]
  /\ known \in States

LedgerInit ==
  /\ row = NoRow /\ truth = NoRow
  /\ folder = [v \in Versions |-> "none"]
  /\ quarantine = {} /\ staging = FALSE /\ registry = 0
  /\ task = "idle" /\ op = NoOp /\ known = "active"
  /\ rolled = FALSE /\ damaged = FALSE /\ failed = "none"

Turns(from, to) == task = from /\ task' = to
Ends == task' = "idle" /\ op' = NoOp /\ known' = "active"
folders == <<folder, quarantine, staging>>
ghosts == <<truth, rolled, damaged, failed>>
Stands(v, c) == folder' = [folder EXCEPT ![v] = c]
\* remove_dir_all: gone, or what could not be removed, or part of it, stays
Removed(vs) ==
  \E f \in [vs -> Conditions] :
    /\ \A v \in vs : f[v] \in {"none", folder[v]} \cup (IF folder[v] = "none" THEN {} ELSE {"partial"})
    /\ folder' = [v \in Versions |-> IF v \in vs THEN f[v] ELSE folder[v]]
Aside(v) == quarantine' = IF folder[v] = "whole" THEN quarantine \cup {v} ELSE quarantine

-----------------------------------------------------------------------------
(* install_verified.  decide: a higher version is an update, the same file  *)
(* a repair, a lower version is refused.                                    *)
Kind(v) == IF row.version = 0 THEN "fresh" ELSE IF v > row.version THEN "update" ELSE "repair"
Install(v) ==
  /\ v >= row.version /\ Turns("idle", "stage")
  /\ op' = [kind |-> Kind(v), version |-> v, replaced |-> "none", kept |-> {}]
  /\ known' = row.state
  /\ UNCHANGED <<row, folders, registry, ghosts>>

Stage ==
  /\ Turns("stage", "set_aside") /\ staging' = TRUE
  /\ UNCHANGED <<row, folder, quarantine, registry, op, known, ghosts>>

(* place: what stands at the version's folder goes to quarantine; only a    *)
(* repair's comes back if the install fails.                                *)
SetAside ==
  LET v == op.version IN
  /\ Turns("set_aside", "rename")
  /\ Stands(v, "none") /\ Aside(v)
  /\ op' = [op EXCEPT !.replaced = IF op.kind = "repair" THEN folder[v] ELSE "none", !.kept = quarantine]
  /\ UNCHANGED <<row, staging, registry, known, ghosts>>

Rename ==
  /\ Turns("rename", "commit")
  /\ Stands(op.version, "whole") /\ staging' = FALSE
  /\ UNCHANGED <<row, quarantine, registry, op, known, ghosts>>

(* Mutant: on the row as the checks read it. *)
StateAsChecked == IF known = "parked" \/ op.kind = "fresh" THEN "active" ELSE known

(* state_after_install, on the row as the commit reads it. *)
StateAfterInstall == IF row.version = 0 \/ row.state = "parked" THEN "active" ELSE row.state
CommitRow ==
  /\ Turns("commit", "register")
  /\ row' = [version |-> op.version, state |-> StateAfterInstall]
  /\ truth' = row' /\ rolled' = FALSE /\ damaged' = FALSE /\ failed' = "none"
  /\ known' = row'.state
  /\ UNCHANGED <<folders, registry, op>>

(* Served or not by the state the commit returned. *)
Register ==
  /\ task = "register"
  /\ IF op.kind = "update" THEN task' = "prune" /\ UNCHANGED <<op, known>> ELSE Ends
  /\ registry' = IF known = "active" THEN op.version ELSE 0
  /\ UNCHANGED <<row, folders, ghosts>>

(* prune_versions, after the commit; what cannot be removed stays. *)
Prune ==
  /\ task = "prune" /\ Ends
  /\ Removed(Versions \ {op.version})
  /\ UNCHANGED <<row, quarantine, staging, registry, ghosts>>

(* A failure before the commit: the new folder goes, a repair's old one     *)
(* comes back (place, Drop for Placed, Drop for Staged), each as far as it  *)
(* can.                                                                     *)
NewGoes == IF task = "commit" THEN Removed({op.version}) ELSE UNCHANGED folder
PutBack ==
  /\ Stands(op.version, op.replaced) /\ quarantine' = op.kept
  /\ UNCHANGED failed
NotPutBack ==
  /\ NewGoes /\ UNCHANGED quarantine
  /\ failed' = IF op.replaced = "none" THEN failed ELSE "put_back"
RollBack ==
  /\ staging' \in BOOLEAN
  /\ (op.replaced # "none" /\ PutBack) \/ NotPutBack
InstallFails ==
  /\ task \in {"stage", "set_aside", "rename", "commit"} /\ Ends
  /\ RollBack
  /\ UNCHANGED <<row, registry, truth, rolled, damaged>>

-----------------------------------------------------------------------------
(* uninstall: the row, the registry, then the folder, which may not go. *)
Uninstall ==
  /\ row.version # 0 /\ Turns("idle", "delete_row")
  /\ UNCHANGED <<row, folders, registry, op, known, ghosts>>
DeleteRow ==
  /\ Turns("delete_row", "forget")
  /\ row' = NoRow /\ truth' = NoRow /\ rolled' = FALSE /\ damaged' = FALSE /\ failed' = "none"
  /\ UNCHANGED <<folders, registry, op, known>>
Forget ==
  /\ Turns("forget", "remove_folder") /\ registry' = 0
  /\ UNCHANGED <<row, folders, op, known, ghosts>>
RemoveFolder ==
  /\ task = "remove_folder" /\ Ends
  /\ Removed(Versions)
  /\ UNCHANGED <<row, quarantine, staging, registry, ghosts>>

-----------------------------------------------------------------------------
(* startup, as the writer.  A listing that can't be read serves nothing and *)
(* sweeps nothing.                                                          *)
ReadRows ==
  /\ known' = row.state /\ failed' = "none"
  /\ Turns("down", IF row.version = 0 THEN "sweep"
                   ELSE IF folder[row.version] \in Missing /\ row.version \in quarantine
                   THEN "set_partial_aside" ELSE "park")
  /\ UNCHANGED <<row, folders, registry, op, truth, rolled, damaged>>
RowsUnread ==
  /\ Turns("down", "idle") /\ failed' = "start"
  /\ UNCHANGED <<row, folders, registry, op, known, truth, rolled, damaged>>

(* take_from_quarantine, which may fail before or after its rename: the row *)
(* then counts as one whose files are missing.                              *)
SetPartialAside ==
  /\ Turns("set_partial_aside", "take_back")
  /\ Stands(row.version, "none")
  /\ UNCHANGED <<row, quarantine, staging, registry, op, known, ghosts>>
TakeBack ==
  /\ Turns("take_back", "park")
  /\ Stands(row.version, "whole") /\ quarantine' = quarantine \ {row.version}
  /\ UNCHANGED <<row, staging, registry, op, known, ghosts>>

TakeBackFails ==
  /\ task \in {"set_partial_aside", "take_back"} /\ task' = "park_missing"
  /\ \/ UNCHANGED folders
     \/ task = "take_back" /\ Stands(row.version, "whole")
        /\ quarantine' = quarantine \ {row.version} /\ UNCHANGED staging
  /\ failed' = "start"
  /\ UNCHANGED <<row, registry, op, known, truth, rolled, damaged>>

(* load: park or unpark by compare-and-set, if it can be recorded, then     *)
(* serve what checked out.                                                  *)
StartupState(whole) ==
  IF ~whole /\ known = "active" THEN "parked" ELSE IF whole /\ known = "parked" THEN "active" ELSE known
Park ==
  LET whole == task = "park" /\ folder[row.version] = "whole"
      recorded == IF row.state = known THEN [row EXCEPT !.state = StartupState(whole)] ELSE row IN
  /\ task \in {"park_missing", "park"} /\ task' = "sweep"
  /\ row' \in {recorded, row}
  /\ truth' = IF rolled THEN truth ELSE row'
  /\ registry' = IF whole /\ StartupState(whole) = "active" THEN row.version ELSE 0
  /\ UNCHANGED <<folders, op, known, rolled, damaged, failed>>

(* Mutant: a folder no row names is deleted. *)
SweptAway(v) ==
  /\ task = "sweep" /\ v # row.version /\ folder[v] # "none"
  /\ Stands(v, "none") /\ UNCHANGED quarantine
  /\ UNCHANGED <<row, staging, registry, task, op, known, ghosts>>

(* sweep: a folder no row names goes to quarantine, never away. *)
Sweep(v) ==
  /\ task = "sweep" /\ v # row.version /\ folder[v] # "none"
  /\ Stands(v, "none") /\ Aside(v)
  /\ UNCHANGED <<row, staging, registry, task, op, known, ghosts>>
SweepEnds ==
  /\ task = "sweep" /\ Ends /\ UNCHANGED <<row, folders, registry, ghosts>>
Expire ==
  /\ task = "idle" /\ staging /\ staging' = FALSE
  /\ UNCHANGED <<row, folder, quarantine, registry, task, op, known, ghosts>>

-----------------------------------------------------------------------------
Killed ==
  /\ task # "down" /\ task' = "down" /\ registry' = 0
  /\ op' = NoOp /\ known' = "active"
  /\ UNCHANGED <<row, folders, ghosts>>

(* Another owner of the state, at any time: the user pauses and resumes     *)
(* (policy.rs: "A pause is the user's, the blacklist's or dev mode's").     *)
Pause ==
  /\ row.version # 0 /\ row.state = "active" /\ task # "down"
  /\ row' = [row EXCEPT !.state = "paused"]
  /\ truth' = IF rolled THEN truth ELSE row'
  /\ UNCHANGED <<folders, registry, task, op, known, rolled, damaged, failed>>
Unpause ==
  /\ row.state = "paused" /\ task = "idle"
  /\ row' = [row EXCEPT !.state = "active"]
  /\ truth' = IF rolled THEN truth ELSE row'
  /\ UNCHANGED <<folders, registry, task, op, known, rolled, damaged, failed>>

(* The store is put back as an older copy of itself, and as it was. *)
OlderStore(r) ==
  /\ task = "down" /\ ~rolled /\ truth.version > r.version
  /\ row' = r /\ rolled' = TRUE
  /\ UNCHANGED <<folders, registry, task, op, known, truth, damaged, failed>>
NewerStore ==
  /\ task = "down" /\ rolled
  /\ row' = truth /\ rolled' = FALSE
  /\ UNCHANGED <<folders, registry, task, op, known, truth, damaged, failed>>
Damage(v) ==
  /\ task \in {"idle", "down"} /\ folder[v] = "whole"
  /\ \E c \in Conditions \ {"whole"} : Stands(v, c)
  /\ damaged' = (damaged \/ v = truth.version)
  /\ UNCHANGED <<row, quarantine, staging, registry, task, op, known, truth, rolled, failed>>

Installs == Stage \/ SetAside \/ Rename \/ CommitRow \/ Register \/ Prune \/ InstallFails
Removes == DeleteRow \/ Forget \/ RemoveFolder
Boots == ReadRows \/ RowsUnread \/ SetPartialAside \/ TakeBack \/ TakeBackFails \/ Park \/ (\E v \in Versions : Sweep(v)) \/ SweepEnds
LedgerNext ==
  \/ \E v \in Versions : Install(v) \/ Damage(v)
  \/ Uninstall \/ Installs \/ Removes \/ Boots \/ Expire
  \/ Killed \/ Pause \/ Unpause \/ NewerStore
  \/ \E v \in Versions \cup {0} : OlderStore([version |-> v, state |-> "active"])
LedgerSpec == LedgerInit /\ [][LedgerNext]_ledgerVars
-----------------------------------------------------------------------------
(* The files of the row as last changed here are never lost, whatever stops *)
(* or fails in between, and whatever an older copy of the store had swept:  *)
(* an exact copy stands in their place or in quarantine.  And "a `mods` row *)
(* never names files that aren't there" (INVARIANTS.md I-30), once PM is up *)
(* and the newer store is back, unless the start could not bring them back  *)
(* or a repair that failed could not; a start that could not, serves        *)
(* nothing.  All unless somebody else damaged them.                         *)
Kept(v) == folder[v] = "whole" \/ v \in quarantine
Up == task = "idle" /\ ~rolled
Stand(v) == v # 0 => folder[v] = "whole"
NothingLost ==
  ~damaged =>
    /\ truth.version # 0 => Kept(truth.version)
    /\ Up /\ failed = "none" => Stand(row.version)
    /\ Up /\ failed # "put_back" => Stand(registry)

(* A pause is the user's to end: no install, repair or load undoes it, when *)
(* it was written while they ran too.                                       *)
PauseKept ==
  [][row.state = "paused" /\ (Installs \/ Boots) => row'.state = "paused"]_ledgerVars
=============================================================================
