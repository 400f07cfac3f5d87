----------------------------- MODULE VaultMove -----------------------------
(***************************************************************************)
(* Changing a vault's key and moving it (vault/migrate.rs): migrate_vault, *)
(* relocate, perform_relocation, and recover at the next launch.           *)
(*                                                                         *)
(* A vault is four parts that belong together, each under the key it was   *)
(* written with.  PM can stop before any step.  Files are copied and       *)
(* deleted part by part; the rekey and the conversions can also stop       *)
(* half-way through a part.  What is on disk is all the next launch knows. *)
(* The keychain is left out: a vault's key follows from its metadata and   *)
(* from what the user knows.                                               *)
(***************************************************************************)
EXTENDS Integers, Sequences

CONSTANTS
  MaxKeys,    \* bound: how often the key is changed
  MaxCrashes, \* bound: how often PM stops in the middle
  Heeds       \* the user restarts after a failed change, as the message asks

ASSUME MoveAssumption ==
  MaxKeys \in Nat /\ MaxCrashes \in Nat /\ Heeds \in BOOLEAN

VARIABLES
  disk,    \* what each folder holds of each part
  marker,  \* the folders with a .pm-vault marker
  kept,    \* the backup folder is there
  journal, \* vault-migration.json
  pointer, \* the folder the vault is in
  step,    \* what PM does next
  part,    \* which part it copies or deletes next
  plan,    \* the migration that runs, or ran last
  minted,  \* how many keys there have been
  blind,   \* ghost: a vault appeared after the move's second look
  torn,    \* ghost: PM stopped in the removal of a backup the journal speaks of
  crashes

moveVars == <<disk, marker, kept, journal, pointer, step, part, plan, minted, blind, torn, crashes>>

Roots == {"here", "there"}
Other(r) == IF r = "here" THEN "there" ELSE "here"
Folders == Roots \cup {"backup"}
Order == <<"db", "notes", "meta", "sidecars">>
Parts == {"db", "notes", "meta", "sidecars"}
Keys == 0..MaxKeys
Nothing == -1 \* no file
Mixed == -2   \* under two keys
Foreign == -3 \* another vault's
Empty == [p \in Parts |-> Nothing]
Theirs == [p \in Parts |-> Foreign]

InPlace == {"rekeying", "markdown", "finalizing"}
NoJournal == [stage |-> "none", from |-> "here", backup |-> FALSE, target |-> "here"]
KeySteps == {"clear_backup", "make_backup", "back_up", "journal_key", "rekey", "rekeyed",
             "journal_notes", "convert", "converted", "convert_sidecars", "converted_sidecars",
             "journal_final", "store_meta", "swap_session", "remove_backup", "clear_key_journal"}
MoveSteps == {"journal_move", "recheck", "mark", "copy", "open_copy", "commit"}
MovedSteps == {"delete_source", "unmark", "clear_move_journal"}
AbortSteps == {"discard", "discard_marker", "clear_aborted", "reopen"}
BootSteps == {"down", "clear_live", "restore", "remove_restored", "discard_target",
              "discard_target_marker", "finish_move", "finish_unmark", "clear_recovered", "open"}

MoveTypeOK ==
  /\ disk \in [Folders -> [Parts -> Keys \cup {Nothing, Mixed, Foreign}]]
  /\ marker \subseteq Roots
  /\ kept \in BOOLEAN /\ blind \in BOOLEAN /\ torn \in BOOLEAN
  /\ journal \in [stage : InPlace \cup {"none", "relocating"}, from : Roots, backup : BOOLEAN, target : Roots]
  /\ pointer \in Roots
  /\ step \in {"idle", "refused"} \cup KeySteps \cup MoveSteps \cup MovedSteps \cup AbortSteps \cup BootSteps
  /\ part \in 1..4
  /\ plan \in [rekey : BOOLEAN, move : BOOLEAN, from : Roots, old : Keys, new : Keys]
  /\ minted \in Keys /\ crashes \in 0..MaxCrashes

MoveInit ==
  /\ disk = [f \in Folders |-> IF f = "here" THEN [p \in Parts |-> 0] ELSE Empty]
  /\ marker = {} /\ kept = FALSE
  /\ journal = NoJournal /\ pointer = "here"
  /\ step = "idle" /\ part = 1
  /\ plan = [rekey |-> FALSE, move |-> FALSE, from |-> "here", old |-> 0, new |-> 0]
  /\ minted = 0 /\ blind = FALSE /\ torn = FALSE /\ crashes = 0

To == Other(plan.from)
rest == <<pointer, plan, minted, blind, torn, crashes>>

-----------------------------------------------------------------------------
(* One step after another; a walk goes over the parts one at a time. *)
Then(from, to) == step = from /\ step' = to /\ part' = 1
(* Mutant: one part too many. *)
WalkPast(from, to) ==
  /\ step = from
  /\ IF part > 4 THEN part' = 1 /\ step' = to ELSE part' = part + 1 /\ step' = from

Walk(from, to) ==
  /\ step = from
  /\ IF part = 4 THEN part' = 1 /\ step' = to ELSE part' = part + 1 /\ step' = from
Puts(f, p, c) ==
  disk' = [disk EXCEPT ![f][p] = c] /\ UNCHANGED <<marker, kept, journal>>

(* copy_vault_artifacts: only the database has to be there. *)
Copies(from, to, a, b) ==
  LET p == Order[part] IN
  /\ Walk(from, to)
  /\ p = "db" => disk[a][p] # Nothing
  /\ Puts(b, p, IF disk[a][p] = Nothing THEN disk[b][p] ELSE disk[a][p])
  /\ UNCHANGED rest

Deletes(from, to, f) ==
  Walk(from, to) /\ Puts(f, Order[part], Nothing) /\ UNCHANGED rest

Marks(from, to, m) ==
  Then(from, to) /\ marker' = m /\ UNCHANGED <<disk, kept, journal, rest>>

Journals(from, to, j) ==
  Then(from, to) /\ journal' = j /\ UNCHANGED <<disk, marker, kept, rest>>

(* remove_dir_all of the backup: files go in any order, the folder last.    *)
(* PM can stop when one is gone.                                            *)
RemovesBackup(from, to) ==
  /\ Then(from, to)
  /\ disk' = [disk EXCEPT !["backup"] = Empty] /\ kept' = FALSE
  /\ UNCHANGED <<marker, journal, rest>>

TearsBackup ==
  /\ step \in {"clear_backup", "remove_backup", "remove_restored"} /\ kept /\ crashes < MaxCrashes
  /\ \E p \in Parts : disk' = [disk EXCEPT !["backup"][p] = Nothing]
  /\ torn' = (torn \/ journal.backup)
  /\ step' = "down" /\ part' = 1 /\ crashes' = crashes + 1
  /\ UNCHANGED <<marker, kept, journal, pointer, plan, minted, blind>>

(* A part is rewritten under the new key: half of it first.  Only what is   *)
(* under the old key can be read.                                           *)
Rewrites(half, done, next, p) ==
  \/ /\ Then(half, done) /\ Puts(plan.from, p, Mixed) /\ UNCHANGED rest
     /\ p = "db" \/ disk[plan.from][p] = plan.old
  \/ Then(done, next) /\ Puts(plan.from, p, plan.new) /\ UNCHANGED rest

-----------------------------------------------------------------------------
(* migrate_vault: the refusals, then the key in place, then the move. *)
Begin ==
  \E rekey, move \in BOOLEAN :
    /\ step = "idle" /\ (rekey \/ move)
    /\ Heeds => journal = NoJournal
    /\ disk[pointer]["meta"] \in Keys
    /\ move => disk[Other(pointer)]["meta"] # Foreign
    /\ IF rekey THEN minted < MaxKeys /\ minted' = minted + 1 ELSE UNCHANGED minted
    /\ plan' = [rekey |-> rekey, move |-> move, from |-> pointer, old |-> disk[pointer]["meta"],
                new |-> IF rekey THEN minted + 1 ELSE disk[pointer]["meta"]]
    /\ step' = IF rekey THEN "clear_backup" ELSE "journal_move"
    /\ part' = 1
    /\ UNCHANGED <<disk, marker, kept, journal, pointer, blind, torn, crashes>>

MakeBackup ==
  Then("make_backup", "back_up") /\ kept' = TRUE /\ UNCHANGED <<disk, marker, journal, rest>>
Staged(s) ==
  [stage |-> s, from |-> plan.from, backup |-> TRUE, target |-> IF plan.move THEN To ELSE plan.from]
StoreMeta ==
  Then("store_meta", "swap_session") /\ Puts(plan.from, "meta", plan.new) /\ UNCHANGED rest
SwapSession ==
  Then("swap_session", "remove_backup") /\ UNCHANGED <<disk, marker, kept, journal, rest>>

ChangeKey ==
  \/ RemovesBackup("clear_backup", "make_backup")
  \/ MakeBackup
  \/ Copies("back_up", "journal_key", plan.from, "backup")
  \/ Journals("journal_key", "rekey", Staged("rekeying"))
  \/ Rewrites("rekey", "rekeyed", "journal_notes", "db")
  \/ Journals("journal_notes", "convert", Staged("markdown"))
  \/ Rewrites("convert", "converted", "convert_sidecars", "notes")
  \/ Rewrites("convert_sidecars", "converted_sidecars", "journal_final", "sidecars")
  \/ Journals("journal_final", "store_meta", Staged("finalizing"))
  \/ StoreMeta
  \/ SwapSession
  \/ RemovesBackup("remove_backup", "clear_key_journal")
  \/ Journals("clear_key_journal", IF plan.move THEN "journal_move" ELSE "idle", NoJournal)

(* relocate: nothing is the target's until the pointer says so. *)
Recheck ==
  IF disk[To]["meta"] = Foreign
    THEN Journals("recheck", "reopen", NoJournal)
    ELSE Then("recheck", "mark") /\ UNCHANGED <<disk, marker, kept, journal, rest>>
OpenCopy ==
  /\ Then("open_copy", IF disk[To]["db"] = plan.new THEN "commit" ELSE "discard")
  /\ UNCHANGED <<disk, marker, kept, journal, rest>>
Commit ==
  /\ Then("commit", "delete_source")
  /\ pointer' = To
  /\ UNCHANGED <<disk, marker, kept, journal, plan, minted, blind, torn, crashes>>

Move ==
  \/ Journals("journal_move", "recheck",
              [stage |-> "relocating", from |-> plan.from, backup |-> FALSE, target |-> To])
  \/ Recheck
  \/ Marks("mark", "copy", marker \cup {To})
  \/ Copies("copy", "open_copy", plan.from, To)
  \/ OpenCopy
  \/ Commit
  \/ Deletes("delete_source", "unmark", plan.from)
  \/ Marks("unmark", "clear_move_journal", marker \ {To})
  \/ \E j \in {journal, NoJournal} : Journals("clear_move_journal", "idle", j)

(* Mutant: the marker is not looked for. *)
DiscardsAny(at, unmark, next, target) ==
  \/ Deletes(at, unmark, target)
  \/ Marks(unmark, next, marker \ {target})

(* discard_partial_target: only a folder with the marker is touched. *)
Discards(at, unmark, next, target) ==
  \/ target \in marker /\ Deletes(at, unmark, target)
  \/ target \notin marker /\ Then(at, next) /\ UNCHANGED <<disk, marker, kept, journal, rest>>
  \/ Marks(unmark, next, marker \ {target})

(* The move is given up; the source is opened again, if it opens. *)
Reopen ==
  /\ Then("reopen", IF disk[plan.from]["db"] = plan.new THEN "idle" ELSE "down")
  /\ UNCHANGED <<disk, marker, kept, journal, rest>>
Abort ==
  \/ Discards("discard", "discard_marker", "clear_aborted", To)
  \/ Journals("clear_aborted", "reopen", NoJournal)
  \/ Reopen

(* Most steps can fail.  In place, that ends the command and leaves the     *)
(* repair to the next launch; in the move, it is undone.                    *)
CannotFail == {"clear_backup", "rekeyed", "remove_backup", "recheck", "open_copy"}
Fails ==
  /\ step \in (KeySteps \cup MoveSteps) \ CannotFail
  /\ step' = IF step \in MoveSteps \ {"journal_move"} THEN "discard" ELSE "idle"
  /\ part' = 1
  /\ UNCHANGED <<disk, marker, kept, journal, rest>>

-----------------------------------------------------------------------------
(* The next launch: recover, then open_at_boot. *)
(* Mutant: the backup the journal names is not looked for. *)
RepairUnchecked ==
  CASE journal.stage = "none" -> "open"
    [] journal.stage \in InPlace -> IF journal.backup THEN "clear_live" ELSE "discard_target"
    [] OTHER -> IF pointer = journal.target THEN "finish_move" ELSE "discard_target"

(* Mutant: a key half changed is not put back. *)
RepairKeepsKey ==
  CASE journal.stage \in InPlace \cup {"none"} -> "open"
    [] OTHER -> IF pointer = journal.target THEN "finish_move" ELSE "discard_target"

Repair ==
  CASE journal.stage = "none" -> "open"
    [] journal.stage \in InPlace -> IF journal.backup /\ kept THEN "clear_live" ELSE "discard_target"
    [] OTHER -> IF pointer = journal.target THEN "finish_move" ELSE "discard_target"
Recover == Then("down", Repair) /\ UNCHANGED <<disk, marker, kept, journal, rest>>

(* Without a database in the backup, the launch ends here, every time. *)
RestoreFails ==
  /\ part = 1 /\ disk["backup"]["db"] = Nothing
  /\ Then("restore", "down")
  /\ UNCHANGED <<disk, marker, kept, journal, rest>>

Open ==
  /\ Then("open", IF disk[pointer]["db"] = disk[pointer]["meta"] /\ disk[pointer]["db"] \in Keys
                  THEN "idle" ELSE "refused")
  /\ UNCHANGED <<disk, marker, kept, journal, rest>>

Boot ==
  \/ Recover
  \/ Deletes("clear_live", "restore", journal.from)
  \/ Copies("restore", "remove_restored", "backup", journal.from)
  \/ RestoreFails
  \/ RemovesBackup("remove_restored", "discard_target")
  \/ Discards("discard_target", "discard_target_marker", "clear_recovered", journal.target)
  \/ Deletes("finish_move", "finish_unmark", journal.from)
  \/ Marks("finish_unmark", "clear_recovered", marker \ {journal.target})
  \/ Journals("clear_recovered", "open", NoJournal)
  \/ Open

Stops ==
  /\ step \notin {"idle", "down", "refused"} /\ crashes < MaxCrashes
  /\ step' = "down" /\ part' = 1 /\ crashes' = crashes + 1
  /\ UNCHANGED <<disk, marker, kept, journal, pointer, plan, minted, blind, torn>>

Quit ==
  Then("idle", "down") /\ UNCHANGED <<disk, marker, kept, journal, rest>>

(* Another account moves its own vault into an empty folder. *)
Appears(r) ==
  /\ r # pointer /\ r \notin marker /\ disk[r] = Empty
  /\ disk' = [disk EXCEPT ![r] = Theirs]
  /\ blind' = (blind \/ step = "mark")
  /\ UNCHANGED <<marker, kept, journal, pointer, step, part, plan, minted, torn, crashes>>

MoveMachine == ChangeKey \/ Move \/ Abort \/ Boot
MoveNext == MoveMachine \/ Begin \/ Fails \/ Stops \/ TearsBackup \/ Quit \/ \E r \in Roots : Appears(r)
MoveSpec == MoveInit /\ [][MoveNext]_moveVars /\ WF_moveVars(MoveMachine)
-----------------------------------------------------------------------------
Whole(f) == \E k \in Keys : \A p \in Parts : disk[f][p] = k

(* "a crash always leaves an openable vault" (migrate.rs), read as: at every *)
(* moment the vault is whole in its folder, in the backup, or in the folder *)
(* it moves to.  The code does not keep this while the backup of a change   *)
(* of key is being removed.                                                 *)
AlwaysWhole == \E f \in Folders : Whole(f)

(* No step of a change of key, of a move, of their undoing or of their      *)
(* repair leaves the vault whole nowhere, wherever PM stops, except where   *)
(* it stopped in the removal of a backup the journal still speaks of; and   *)
(* between migrations it is whole where the pointer says, and what it left  *)
(* behind is gone.                                                          *)
AtRest == step = "idle" /\ journal = NoJournal
RestsWhole ==
  /\ Whole(pointer) /\ marker = {}
  /\ \A p \in Parts : disk[Other(pointer)][p] \in {Nothing, Foreign}
NeverLost == torn \/ (AlwaysWhole /\ (AtRest => RestsWhole))

(* Another account's vault is not touched in the folder a move goes to, by  *)
(* the move, by its undoing or by the repair of a migration that never got  *)
(* there, unless it appeared between the second look and the marker.  The   *)
(* folder a committed move has left is cleared without a look.              *)
ClearsSource == step \in {"delete_source", "finish_move"}
TargetKept ==
  [][\A r \in Roots :
       disk[r] = Theirs /\ ~blind /\ ~ClearsSource => disk'[r] = Theirs]_moveVars

(* Each launch comes to a vault that opens ("a crash always leaves an       *)
(* openable vault", migrate.rs), the torn backup aside.                     *)
ComesBack == step = "down" ~> step = "idle" \/ torn
=============================================================================
