---------------------------- MODULE VaultWrites ----------------------------
(***************************************************************************)
(* A document's filing, and the places it is kept (commands/vault_writes,  *)
(* organise, canon and archivist; the filing half of ingest.rs and         *)
(* index_only.rs).  The database is a mirror of files: the front matter of *)
(* a stored document, the manifest for every pointer at somebody else's    *)
(* file, the rules for the projects' names.  A pass rewrites files inside  *)
(* a transaction and puts them back when it fails; the start of PM and a   *)
(* rebuild believe the files; deletes, promotions and rebuilds touch files *)
(* without the database's guard.                                           *)
(*                                                                         *)
(* A filing is the number of the pass that wrote it, 1 for an arrival, and *)
(* the rules are the last pass that named projects: what project and which *)
(* tags does not matter here, only which of two filings is the newer.      *)
(***************************************************************************)
EXTENDS Naturals, Sequences

CONSTANTS
  Docs,       \* the documents, arrived or yet to be found by a sync
  MaxPasses,  \* bound: the passes
  MaxSeen,    \* bound: the versions of a pointer's source
  MaxCrashes, \* bound: the crashes
  Beside,     \* bound: what happens beside the passes, "unread" if the
              \* manifest cannot always be read
  Gaps        \* the cases known to lose or keep the wrong filing that happen:
              \* "row": a statement fails behind the file it goes with;
              \* "forget": an entry is struck from the manifest beside a pass;
              \* "hand": a rebuild or a promotion has a filing in hand that
              \* is changed, or struck, before it is written;
              \* "wipe": a rebuild clears the rows while the manifest is not
              \* what they say, or a document has a file and is a pointer too;
              \* "fold": a crash, or a failure, parts a fold from its mark

ASSUME FilingAssumption ==
  MaxPasses \in Nat /\ MaxSeen \in Nat \ {0} /\ MaxCrashes \in Nat
  /\ Beside \subseteq {"sync", "remove", "promote", "rebuild", "unread"}
  /\ Gaps \subseteq {"row", "forget", "hand", "wipe", "fold"}
  /\ {"manifest", "rules"} \cap Docs = {}

VARIABLES
  rows,      \* documents: stored in a file, a pointer, or not there
  mirror,    \* entities and entity_aliases
  stale,     \* the setting index_only_manifest_stale
  files,     \* the filing in a document's front matter, 0 without a file
  manifest,  \* the entries of the manifest
  rules,     \* the rules file
  pass,      \* what holds the guard: a pass, the flush of a sync, the open
  last,      \* the number of the last pass
  tidy,      \* what a delete or a promotion still has to do
  promote,   \* promote_spreadsheet
  walk,      \* a rebuild, its marker and its stamps
  unflushed, \* a sync has rows the manifest has not
  up,        \* PM runs
  crashes,
  kept,      \* history: the filing and the version PM has answered for
  torn,      \* history: the documents whose file a crash left rewritten, and
             \* the file of the rules or of the manifest left unlike the database
  struck,    \* history: the documents struck from the manifest
  unread     \* history: those whose only trace a merge has not read

filingVars == <<rows, mirror, stale, files, manifest, rules, pass, last, tidy, promote, walk,
                unflushed, up, crashes, kept, torn, struck, unread>>

Filings == 0..(MaxPasses + 1)
Items == [filing : Filings, seen : 0..MaxSeen]
Nothing == [filing |-> 0, seen |-> 0]
NoRow == [kind |-> "none", filing |-> 0, seen |-> 0]
Rows ==
  {NoRow} \cup [kind : {"file"}, filing : Filings \ {0}, seen : {0}]
          \cup [kind : {"pointer"}, filing : Filings \ {0}, seen : 1..MaxSeen]
Item(row) == [filing |-> row.filing, seen |-> row.seen]
There(d) == rows[d].kind # "none"
NoItems == [d \in Docs |-> Nothing]
NoRows == [d \in Docs |-> NoRow]

Idle == [at |-> "idle", no |-> 0, todo |-> {}, drops |-> {}, names |-> FALSE, defers |-> FALSE,
         written |-> <<>>, copy |-> NoItems, rows |-> NoRows, mirror |-> 0, stale |-> FALSE]
Tidied == [at |-> "idle", docs |-> {}, copy |-> NoItems]
NotPromoting == [at |-> "idle", docs |-> {}, filing |-> 0]

GuardFree == up /\ pass.at = "idle"
\* D is not filed, and K not deleted, while a filing of theirs is in hand
Undisturbed(D, K) ==
  \/ "hand" \in Gaps
  \/ /\ (D \cup K) \cap (walk.docs \cup promote.docs) = {}
     /\ \A d \in K : walk.items[d] = Nothing
\* what may go wrong in a step
Outcomes == {"ok", "fails"}
\* "torn": the statement behind a file's replacement fails, its snapshot lost
FileOutcomes == IF "row" \in Gaps THEN Outcomes \cup {"torn"} ELSE Outcomes

\* a strike off the manifest is not half done
Alone == "forget" \in Gaps \/ tidy.at # "write"

FilingTypeOK ==
  /\ rows \in [Docs -> Rows] /\ mirror \in Filings /\ stale \in BOOLEAN
  /\ files \in [Docs -> Filings] /\ manifest \in [Docs -> Items] /\ rules \in Filings
  /\ last \in Filings /\ unflushed \in BOOLEAN /\ up \in BOOLEAN /\ crashes \in 0..MaxCrashes
  /\ pass.at \in {"idle", "docs", "merge", "push", "rules", "commit", "undo", "drop",
                "fold", "mark", "strip", "reconcile"}
  /\ pass.no \in Filings /\ pass.todo \subseteq Docs /\ pass.drops \subseteq Docs
  /\ pass.rows \in [Docs -> Rows] /\ pass.copy \in [Docs -> Items]
  /\ tidy \in [at : {"idle", "unlink", "read", "write"}, docs : SUBSET Docs, copy : [Docs -> Items]]
  /\ promote \in [at : {"idle", "write", "swap"}, docs : SUBSET Docs, filing : Filings]
  /\ walk \in [at : {"off", "files", "upsert", "list", "restore"}, pending : BOOLEAN, todo : SUBSET Docs,
               done : SUBSET Docs, docs : SUBSET Docs, filing : Filings, items : [Docs -> Items]]
  /\ kept \in [Docs -> Items] /\ struck \subseteq Docs /\ unread \subseteq Docs
  /\ torn \subseteq Docs \cup {"rules", "manifest"}

FilingInit ==
  /\ rows \in [Docs -> {NoRow, [kind |-> "file", filing |-> 1, seen |-> 0],
                        [kind |-> "pointer", filing |-> 1, seen |-> 1]}]
  /\ files = [d \in Docs |-> IF rows[d].kind = "file" THEN 1 ELSE 0]
  /\ manifest = [d \in Docs |-> IF rows[d].kind = "pointer" THEN Item(rows[d]) ELSE Nothing]
  /\ mirror = 1 /\ rules = 1 /\ last = 1 /\ stale = FALSE
  /\ pass = Idle /\ tidy = Tidied /\ promote = NotPromoting /\ unflushed = FALSE
  /\ walk = [at |-> "off", pending |-> FALSE, todo |-> {}, done |-> {}, docs |-> {}, filing |-> 0,
             items |-> NoItems]
  /\ up = TRUE /\ crashes = 0
  /\ kept = [d \in Docs |-> Item(rows[d])] /\ torn = {} /\ struck = {} /\ unread = {}

-----------------------------------------------------------------------------
(* A pass, from taking the guard to releasing it.  Its transaction is the  *)
(* pass's own rows, mirror and flag; `written` is what it has replaced, in *)
(* the order it did.                                                       *)

\* where a pass goes once its documents are written
After(todo, defers, names) ==
  IF todo # {} THEN "docs" ELSE IF defers THEN "merge" ELSE IF names THEN "rules" ELSE "commit"

\* D gets a new filing and K goes: a review, an edit, a rename, a merge or a
\* delete of a project, which name projects; a change of tags, which does not
Begin(D, K, names) ==
  /\ GuardFree /\ last <= MaxPasses
  /\ D \cup K # {} /\ D \cap K = {} /\ \A d \in D \cup K : There(d)
  /\ K # {} => names
  /\ Undisturbed(D, K)
  /\ last' = last + 1
  /\ pass' = [Idle EXCEPT !.at = After(D, FALSE, names), !.no = last + 1, !.todo = D, !.drops = K,
                          !.names = names, !.mirror = IF names THEN last + 1 ELSE mirror, !.stale = stale,
                          !.rows = [d \in Docs |-> IF d \in K THEN NoRow ELSE rows[d]]]
  /\ UNCHANGED <<rows, mirror, stale, files, manifest, rules, tidy, promote, walk, unflushed, up,
                 crashes, kept, torn, struck, unread>>

\* Mutant: a pass that fails lets go of the guard and leaves its files
FailAsIs == pass' = Idle

Fail == pass' = [pass EXCEPT !.at = "undo"]

\* one document's truth: its front matter, or a row for the manifest to follow
WriteDoc(d) ==
  /\ pass.at = "docs" /\ d \in pass.todo
  /\ \E outcome \in FileOutcomes :
       LET stored == rows[d].kind = "file"
           defers == pass.defers \/ ~stored
           todo == pass.todo \ {d} IN
       /\ stored /\ files[d] = 0 => outcome = "fails"
       /\ outcome = "torn" => stored
       /\ IF outcome = "ok"
            THEN pass' = [pass EXCEPT !.todo = todo, !.defers = defers, !.rows[d].filing = pass.no,
                   !.at = After(todo, defers, pass.names),
                   !.written = IF stored THEN Append(@, [of |-> d, was |-> files[d]]) ELSE @]
            ELSE Fail
       /\ files' = IF stored /\ outcome # "fails" THEN [files EXCEPT ![d] = pass.no] ELSE files
  /\ UNCHANGED <<rows, mirror, stale, manifest, rules, last, tidy, promote, walk, unflushed, up,
                 crashes, kept, torn, struck, unread>>

\* Mutant: the manifest is the pointers, without the entries that have no row
MergedOfRows(from, m) == [d \in Docs |-> IF from[d].kind = "pointer" THEN Item(from[d]) ELSE Nothing]

\* what merge_item makes of the entries that have a row; the others stay
Merged(from, m) == [d \in Docs |-> IF from[d].kind = "pointer" THEN Item(from[d]) ELSE m[d]]

\* a manifest that cannot be read counts as one without entries
Readings == {manifest} \cup (IF "unread" \in Beside THEN {NoItems} ELSE {})
Reading(from, m) ==
  /\ m \in Readings
  /\ unread' = unread \cup {d \in Docs : from[d].kind = "none" /\ m[d] # manifest[d]}

MergeManifest ==
  /\ pass.at = "merge" /\ Alone
  /\ \E m \in Readings :
       Reading(pass.rows, m) /\ pass' = [pass EXCEPT !.at = "push", !.copy = Merged(pass.rows, m)]
  /\ UNCHANGED <<rows, mirror, stale, files, manifest, rules, last, tidy, promote, walk, unflushed, up,
                 crashes, kept, torn, struck>>

PushManifest ==
  /\ pass.at = "push" /\ pass.no # 0
  /\ \E outcome \in FileOutcomes :
       /\ manifest' = IF outcome = "fails" THEN manifest ELSE pass.copy
       /\ IF outcome = "ok"
            THEN pass' = [pass EXCEPT !.at = IF pass.names THEN "rules" ELSE "commit", !.stale = FALSE,
                   !.written = Append(@, [of |-> "manifest", was |-> manifest]), !.copy = NoItems]
            ELSE Fail
  /\ UNCHANGED <<rows, mirror, stale, files, rules, last, tidy, promote, walk, unflushed, up, crashes,
                 kept, torn, struck, unread>>

WriteRules ==
  /\ pass.at = "rules"
  /\ \E outcome \in Outcomes :
       IF outcome = "ok"
         THEN /\ rules' = pass.mirror
              /\ pass' = [pass EXCEPT !.at = "commit",
                                      !.written = Append(@, [of |-> "rules", was |-> rules])]
         ELSE Fail /\ UNCHANGED rules
  /\ UNCHANGED <<rows, mirror, stale, files, manifest, last, tidy, promote, walk, unflushed, up,
                 crashes, kept, torn, struck, unread>>

Filed == {d \in Docs : pass.rows[d].filing = pass.no}

\* what is in step again once the pass has committed
Mended ==
  Filed \cup pass.drops
  \cup (IF pass.names THEN {"rules"} ELSE {}) \cup (IF pass.defers THEN {"manifest"} ELSE {})

Commit ==
  /\ pass.at = "commit"
  /\ \E outcome \in Outcomes :
       IF outcome = "ok"
         THEN /\ rows' = pass.rows /\ mirror' = pass.mirror /\ stale' = pass.stale
              /\ kept' = [d \in Docs |-> IF d \in pass.drops THEN Nothing
                            ELSE IF d \in Filed THEN [kept[d] EXCEPT !.filing = pass.no] ELSE kept[d]]
              /\ torn' = torn \ Mended
              /\ pass' = IF pass.drops = {} THEN Idle
                         ELSE [Idle EXCEPT !.at = "drop", !.drops = pass.drops]
         ELSE Fail /\ UNCHANGED <<rows, mirror, stale, kept, torn>>
  /\ UNCHANGED <<files, manifest, rules, last, tidy, promote, walk, unflushed, up, crashes, struck, unread>>

\* restore_vault_files and restore_rules_file, newest first; then the guard
Undo ==
  /\ pass.at = "undo"
  /\ IF pass.written = <<>>
       THEN pass' = Idle /\ UNCHANGED <<files, manifest, rules>>
       ELSE LET entry == pass.written[Len(pass.written)] IN
            /\ pass' = [pass EXCEPT !.written = SubSeq(@, 1, Len(@) - 1)]
            /\ files' = IF entry.of \in Docs THEN [files EXCEPT ![entry.of] = entry.was] ELSE files
            /\ manifest' = IF entry.of = "manifest" THEN entry.was ELSE manifest
            /\ rules' = IF entry.of = "rules" THEN entry.was ELSE rules
  /\ UNCHANGED <<rows, mirror, stale, last, tidy, promote, walk, unflushed, up, crashes, kept, torn, struck, unread>>

\* once a delete of a project is durable; what cannot be removed stays
DropTruth(d) ==
  /\ pass.at = "drop" /\ d \in pass.drops /\ Alone
  /\ \E outcome \in Outcomes :
       IF outcome = "ok"
         THEN /\ files' = [files EXCEPT ![d] = 0] /\ manifest' = [manifest EXCEPT ![d] = Nothing]
              /\ struck' = struck \cup {d}
         ELSE UNCHANGED <<files, manifest, struck>>
  /\ pass' = IF pass.drops = {d} THEN Idle ELSE [pass EXCEPT !.drops = @ \ {d}]
  /\ UNCHANGED <<rows, mirror, stale, rules, last, tidy, promote, walk, unflushed, up, crashes, kept, torn, unread>>

-----------------------------------------------------------------------------
(* The connectors, and sync_index_only: the rows first, the manifest later *)

Find(d) ==
  /\ "sync" \in Beside /\ GuardFree /\ rows[d].kind = "none" /\ kept[d] = Nothing /\ files[d] = 0
  /\ d \notin struck \cup tidy.docs
  /\ rows' = [rows EXCEPT ![d] = [kind |-> "pointer", filing |-> 1, seen |-> 1]] /\ unflushed' = TRUE
  /\ UNCHANGED <<mirror, stale, files, manifest, rules, pass, last, tidy, promote, walk, up, crashes,
                 kept, torn, struck, unread>>

Change(d) ==
  /\ "sync" \in Beside /\ GuardFree /\ rows[d].kind = "pointer" /\ rows[d].seen < MaxSeen
  /\ rows' = [rows EXCEPT ![d].seen = @ + 1] /\ unflushed' = TRUE
  /\ UNCHANGED <<mirror, stale, files, manifest, rules, pass, last, tidy, promote, walk, up, crashes,
                 kept, torn, struck, unread>>

\* write_synced outside a pass takes the guard, reads, ...
Flush ==
  /\ GuardFree /\ unflushed /\ Alone
  /\ \E m \in Readings :
       Reading(rows, m) /\ pass' = [Idle EXCEPT !.at = "push", !.copy = Merged(rows, m)]
  /\ UNCHANGED <<rows, mirror, stale, files, manifest, rules, last, tidy, promote, walk, unflushed, up,
                 crashes, kept, torn, struck>>

\* ... and writes, or leaves the mark that the manifest is behind, if it can;
\* what is neither written nor marked PM does not answer for
EndFlush ==
  /\ pass.at = "push" /\ pass.no = 0
  /\ \E outcome \in Outcomes :
       /\ manifest' = IF outcome = "ok" THEN pass.copy ELSE manifest
       /\ stale' \in IF outcome = "ok" THEN {FALSE} ELSE {TRUE, stale}
       /\ torn' = IF outcome = "ok" THEN torn \ {"manifest"} ELSE IF stale' THEN torn ELSE torn \cup {"manifest"}
       /\ kept' = IF outcome = "ok" \/ stale'
                    THEN [d \in Docs |-> IF rows[d].kind = "pointer" THEN Item(rows[d]) ELSE kept[d]]
                    ELSE kept
  /\ unflushed' = FALSE /\ pass' = Idle
  /\ UNCHANGED <<rows, mirror, files, rules, last, tidy, promote, walk, up, crashes, struck, unread>>

-----------------------------------------------------------------------------
(* A document deleted: its rows under the guard, its truth after it.       *)

\* Mutant: the rows did not go, and the truth does
DeleteUncommitted(d) ==
  /\ "remove" \in Beside /\ GuardFree /\ There(d) /\ tidy.at = "idle" /\ Undisturbed({}, {d})
  /\ tidy' = [Tidied EXCEPT !.at = IF rows[d].kind = "file" THEN "unlink" ELSE "read", !.docs = {d}]
  /\ UNCHANGED <<rows, mirror, stale, files, manifest, rules, pass, last, promote, walk, unflushed, up,
                 crashes, kept, torn, struck, unread>>

Delete(d) ==
  /\ "remove" \in Beside /\ GuardFree /\ There(d) /\ tidy.at = "idle" /\ Undisturbed({}, {d})
  /\ rows' = [rows EXCEPT ![d] = NoRow]
  /\ tidy' = [Tidied EXCEPT !.at = IF rows[d].kind = "file" THEN "unlink" ELSE "read", !.docs = {d}]
  /\ kept' = [kept EXCEPT ![d] = Nothing] /\ torn' = torn \ {d}
  /\ UNCHANGED <<mirror, stale, files, manifest, rules, pass, last, promote, walk, unflushed, up,
                 crashes, struck, unread>>

Unlink ==
  /\ tidy.at = "unlink"
  /\ \E outcome \in Outcomes :
       files' = [d \in Docs |-> IF d \in tidy.docs /\ outcome = "ok" THEN 0 ELSE files[d]]
  /\ tidy' = Tidied
  /\ UNCHANGED <<rows, mirror, stale, manifest, rules, pass, last, promote, walk, unflushed, up, crashes,
                 kept, torn, struck, unread>>

\* forget_sources, which holds no guard, reads the manifest, ...
ForgetRead ==
  /\ tidy.at = "read"
  /\ "forget" \in Gaps \/ pass.at \in {"idle", "docs", "merge", "drop"}
  /\ tidy' = [tidy EXCEPT !.at = "write", !.copy = manifest]
  /\ UNCHANGED <<rows, mirror, stale, files, manifest, rules, pass, last, promote, walk, unflushed, up,
                 crashes, kept, torn, struck, unread>>

\* ... and writes what it read without the sources struck
ForgetWrite ==
  /\ tidy.at = "write"
  /\ \E outcome \in Outcomes :
       IF outcome = "ok"
         THEN /\ manifest' = [d \in Docs |-> IF d \in tidy.docs THEN Nothing ELSE tidy.copy[d]]
              /\ struck' = struck \cup tidy.docs
         ELSE UNCHANGED <<manifest, struck>>
  /\ tidy' = Tidied
  /\ UNCHANGED <<rows, mirror, stale, files, rules, pass, last, promote, walk, unflushed, up, crashes,
                 kept, torn, unread>>

-----------------------------------------------------------------------------
(* promote_spreadsheet: a pointer's filing is read, copied into a file of  *)
(* its own, and the row is turned over to that file.                       *)

PromoteRead(d) ==
  /\ "promote" \in Beside /\ GuardFree /\ promote.at = "idle" /\ rows[d].kind = "pointer"
  /\ "hand" \in Gaps \/ d \notin walk.docs
  /\ promote' = [at |-> "write", docs |-> {d}, filing |-> rows[d].filing]
  /\ UNCHANGED <<rows, mirror, stale, files, manifest, rules, pass, last, tidy, walk, unflushed, up,
                 crashes, kept, torn, struck, unread>>

PromoteWrite ==
  /\ promote.at = "write"
  /\ \E outcome \in Outcomes :
       IF outcome = "ok"
         THEN /\ files' = [d \in Docs |-> IF d \in promote.docs THEN promote.filing ELSE files[d]]
              /\ promote' = [promote EXCEPT !.at = "swap"]
         ELSE promote' = NotPromoting /\ UNCHANGED files
  /\ UNCHANGED <<rows, mirror, stale, manifest, rules, pass, last, tidy, walk, unflushed, up, crashes,
                 kept, torn, struck, unread>>

\* the row turned over and its entry to be struck, or the file removed
PromoteSwap(d) ==
  /\ GuardFree /\ tidy.at = "idle" /\ promote.at = "swap" /\ d \in promote.docs
  /\ \E outcome \in Outcomes :
       IF outcome = "ok" /\ rows[d].kind = "pointer"
         THEN /\ rows' = [rows EXCEPT ![d] = [@ EXCEPT !.kind = "file", !.seen = 0]]
              /\ kept' = [kept EXCEPT ![d] = [filing |-> rows[d].filing, seen |-> 0]]
              /\ tidy' = [Tidied EXCEPT !.at = "read", !.docs = {d}]
              /\ UNCHANGED files
         ELSE /\ files' = [files EXCEPT ![d] = 0]
              /\ UNCHANGED <<rows, kept, tidy>>
  /\ promote' = NotPromoting
  /\ UNCHANGED <<mirror, stale, manifest, rules, pass, last, walk, unflushed, up, crashes, torn, struck, unread>>

-----------------------------------------------------------------------------
(* A rebuild: every file is read and, under the guard, taken for the row;  *)
(* the rows of files that are gone are swept; what the manifest lists and  *)
(* has no row is restored from it.                                         *)

AtWork == up /\ walk.at # "off"

\* a change of the embedder's width wipes the rows; nothing is stamped as done
Start(wipe) ==
  /\ "rebuild" \in Beside /\ GuardFree /\ walk.at = "off"
  /\ wipe => \/ "wipe" \in Gaps
             \/ /\ ~stale /\ promote.at = "idle"
                /\ \A d \in Docs : files[d] # 0 => manifest[d] = Nothing /\ rows[d].kind # "pointer"
  /\ rows' = IF wipe THEN NoRows ELSE rows
  /\ walk' = [walk EXCEPT !.at = "files", !.pending = TRUE, !.done = {}, !.todo = {d \in Docs : files[d] # 0}]
  /\ UNCHANGED <<mirror, stale, files, manifest, rules, pass, last, tidy, promote, unflushed, up, crashes,
                 kept, torn, struck, unread>>

\* resume_rebuild, on the next launch: the stamps of the interrupted pass count
Resume ==
  /\ GuardFree /\ walk.at = "off" /\ walk.pending
  /\ walk' = [walk EXCEPT !.at = "files", !.todo = {d \in Docs : files[d] # 0}]
  /\ UNCHANGED <<rows, mirror, stale, files, manifest, rules, pass, last, tidy, promote, unflushed, up,
                 crashes, kept, torn, struck, unread>>

Stamped(d) == d \in walk.done /\ rows[d].kind = "file"

ReadFile(d) ==
  /\ AtWork /\ walk.at = "files" /\ d \in walk.todo
  /\ "hand" \in Gaps \/ (pass.no = 0 /\ d \notin tidy.docs \cup pass.drops \cup promote.docs)
  /\ walk' = IF Stamped(d) \/ files[d] = 0
               THEN [walk EXCEPT !.todo = @ \ {d}]
               ELSE [walk EXCEPT !.at = "upsert", !.todo = @ \ {d}, !.docs = {d}, !.filing = files[d]]
  /\ UNCHANGED <<rows, mirror, stale, files, manifest, rules, pass, last, tidy, promote, unflushed, up,
                 crashes, kept, torn, struck, unread>>

\* upsert_document; a pointer's row has the file's source already
Upsert(d) ==
  /\ AtWork /\ GuardFree /\ walk.at = "upsert" /\ d \in walk.docs
  /\ \E outcome \in Outcomes :
       LET done == outcome = "ok" /\ rows[d].kind # "pointer" IN
       /\ rows' = IF done THEN [rows EXCEPT ![d] = [kind |-> "file", filing |-> walk.filing, seen |-> 0]]
                  ELSE rows
       /\ torn' = IF done THEN torn \ {d} ELSE torn
       /\ walk' = [walk EXCEPT !.at = "files", !.docs = {}, !.filing = 0,
                               !.done = IF done THEN @ \cup {d} ELSE @]
  /\ UNCHANGED <<mirror, stale, files, manifest, rules, pass, last, tidy, promote, unflushed, up, crashes,
                 kept, struck, unread>>

\* the sweep, withheld when the walk could not see everything; then the rules,
\* if they can be written
Sweep ==
  /\ AtWork /\ GuardFree /\ walk.at = "files" /\ walk.todo = {}
  /\ \E complete \in BOOLEAN :
       rows' = [d \in Docs |-> IF complete /\ rows[d].kind = "file" /\ files[d] = 0 THEN NoRow ELSE rows[d]]
  /\ \E outcome \in Outcomes :
       /\ rules' = IF outcome = "ok" THEN mirror ELSE rules
       /\ torn' = IF outcome = "ok" THEN torn \ {"rules"} ELSE torn
  /\ walk' = [walk EXCEPT !.at = "list"]
  /\ UNCHANGED <<mirror, stale, files, manifest, pass, last, tidy, promote, unflushed, up, crashes, kept,
                 struck, unread>>

ListItems ==
  /\ AtWork /\ walk.at = "list"
  /\ "hand" \in Gaps \/ (pass.drops = {} /\ tidy.at = "idle")
  /\ walk' = [walk EXCEPT !.at = "restore", !.items = manifest]
  /\ UNCHANGED <<rows, mirror, stale, files, manifest, rules, pass, last, tidy, promote, unflushed, up,
                 crashes, kept, torn, struck, unread>>

\* an item of a document PM stores is struck, a pointer's is left alone
Restore(d) ==
  /\ AtWork /\ GuardFree /\ walk.at = "restore" /\ walk.items[d] # Nothing
  /\ \E outcome \in Outcomes :
       /\ LET heals == outcome = "ok" /\ rows[d].kind = "file" IN
          /\ heals => Alone
          /\ manifest' = IF heals THEN [manifest EXCEPT ![d] = Nothing] ELSE manifest
          /\ struck' = IF heals THEN struck \cup {d} ELSE struck
       /\ rows' = IF outcome = "ok" /\ rows[d].kind = "none"
                    THEN [rows EXCEPT ![d] = [kind |-> "pointer", filing |-> walk.items[d].filing,
                                              seen |-> walk.items[d].seen]]
                    ELSE rows
  /\ walk' = [walk EXCEPT !.items[d] = Nothing]
  /\ UNCHANGED <<mirror, stale, files, rules, pass, last, tidy, promote, unflushed, up, crashes, kept, torn, unread>>

\* the manifest is written again from the rows, and the marker goes
EndWalk ==
  /\ AtWork /\ GuardFree /\ walk.at = "restore" /\ walk.items = NoItems
  /\ walk' = [walk EXCEPT !.at = "off", !.pending = FALSE, !.done = {}]
  /\ unflushed' = TRUE
  /\ UNCHANGED <<rows, mirror, stale, files, manifest, rules, pass, last, tidy, promote, up, crashes, kept,
                 torn, struck, unread>>

-----------------------------------------------------------------------------
(* PM stops, in the middle of anything, and starts again.                  *)

Crash ==
  /\ up /\ crashes < MaxCrashes
  /\ "fold" \in Gaps \/ pass.at # "mark"
  /\ up' = FALSE /\ crashes' = crashes + 1
  /\ torn' = torn \cup {d \in Docs : \E i \in DOMAIN pass.written : pass.written[i].of = d}
  /\ pass' = Idle /\ tidy' = Tidied /\ promote' = NotPromoting /\ unflushed' = FALSE
  /\ walk' = [walk EXCEPT !.at = "off", !.todo = {}, !.docs = {}, !.filing = 0, !.items = NoItems]
  /\ UNCHANGED <<rows, mirror, stale, files, manifest, rules, last, kept, struck, unread>>

\* entities::reconcile_on_open: the rules file is the truth; one that cannot be
\* read is written from the mirror; a failure is skipped
Open ==
  /\ ~up
  /\ up' = TRUE /\ pass' = [Idle EXCEPT !.at = "fold"]
  /\ \/ mirror' = rules /\ rules' = rules
     \/ mirror' = mirror /\ rules' \in {mirror, rules}
  /\ torn' = IF mirror' = rules' THEN torn \ {"rules"} ELSE torn \cup {"rules"}
  /\ UNCHANGED <<rows, stale, files, manifest, last, tidy, promote, walk, unflushed, crashes, kept,
                 struck, unread>>

\* two pointers at one file become one; a reviewed filing is the one to keep
Fold(a, b) ==
  /\ pass.at = "fold" /\ a # b /\ rows[a].kind = "pointer" /\ rows[b].kind = "pointer"
  /\ LET filing == IF rows[a].filing > 1 THEN rows[a].filing ELSE rows[b].filing IN
     /\ rows' = [rows EXCEPT ![a].filing = filing, ![b] = NoRow]
     /\ kept' = [kept EXCEPT ![a].filing = filing, ![b] = Nothing]
  /\ pass' = [pass EXCEPT !.at = "mark", !.drops = {b}]
  /\ UNCHANGED <<mirror, stale, files, manifest, rules, last, tidy, promote, walk, unflushed, up, crashes,
                 torn, struck, unread>>

MarkFold ==
  /\ pass.at = "mark"
  /\ stale' \in IF "fold" \in Gaps THEN {TRUE, stale} ELSE {TRUE}
  /\ pass' = [pass EXCEPT !.at = "strip"]
  /\ UNCHANGED <<rows, mirror, files, manifest, rules, last, tidy, promote, walk, unflushed, up, crashes,
                 kept, torn, struck, unread>>

\* carry_to_manifest, or nothing was there to fold
StripFolded ==
  /\ pass.at \in {"fold", "strip"}
  /\ \E outcome \in Outcomes :
       LET gone == IF outcome = "ok" THEN pass.drops ELSE {} IN
       /\ manifest' = [d \in Docs |-> IF d \in gone THEN Nothing ELSE manifest[d]]
       /\ struck' = struck \cup gone
  /\ pass' = [Idle EXCEPT !.at = "reconcile"]
  /\ UNCHANGED <<rows, mirror, stale, files, rules, last, tidy, promote, walk, unflushed, up, crashes, kept,
                 torn, unread>>

\* Mutant: the manifest is believed although it is behind
ReconcileBehind ==
  /\ pass.at = "reconcile"
  /\ rows' = [d \in Docs |-> IF rows[d].kind = "pointer" /\ manifest[d] # Nothing
                             THEN [kind |-> "pointer", filing |-> manifest[d].filing,
                                   seen |-> manifest[d].seen]
                             ELSE rows[d]]
  /\ manifest' = Merged(rows', manifest) /\ stale' = FALSE /\ pass' = Idle
  /\ UNCHANGED <<mirror, files, rules, last, tidy, promote, walk, unflushed, up, crashes, kept, torn, struck,
                 unread>>

\* index_only::reconcile_on_open: a manifest that is behind is written from the
\* rows first, and only then believed; pointers it has not are written to it.
\* One that cannot be read is written from the rows.  Each may fail, and the
\* start goes on with what there is.
Agree(m, from) == \A d \in Docs : from[d].kind = "pointer" => m[d] \in {Nothing, Item(from[d])}
Applied(m) ==
  [d \in Docs |-> IF rows[d].kind = "pointer" /\ m[d] # Nothing
                  THEN [kind |-> "pointer", filing |-> m[d].filing, seen |-> m[d].seen]
                  ELSE rows[d]]
NotReconciled == UNCHANGED <<rows, stale, manifest>>
Believes(believed) ==
  /\ stale' = FALSE
  /\ \/ rows' = rows /\ manifest' = believed
     \/ rows' = Applied(believed) /\ manifest' \in {believed, Merged(rows', believed)}
Rewrites(m) ==
  /\ \E d \in Docs : rows[d].kind = "pointer"
  /\ UNCHANGED rows /\ stale' = FALSE /\ manifest' = Merged(rows, m)

Reconcile ==
  /\ pass.at = "reconcile"
  /\ \/ UNCHANGED unread /\ NotReconciled
     \/ UNCHANGED unread /\ Believes(IF stale THEN Merged(rows, manifest) ELSE manifest)
     \/ Reading(rows, NoItems) /\ Rewrites(NoItems)
  /\ torn' = IF stale' \/ Agree(manifest', rows') THEN torn \ {"manifest"} ELSE torn \cup {"manifest"}
  /\ pass' = Idle
  /\ UNCHANGED <<mirror, files, rules, last, tidy, promote, walk, unflushed, up, crashes, kept, struck>>

-----------------------------------------------------------------------------

Pass ==
  \/ \E D, K \in SUBSET Docs, names \in BOOLEAN : Begin(D, K, names)
  \/ \E d \in Docs : WriteDoc(d) \/ DropTruth(d)
  \/ MergeManifest \/ PushManifest \/ WriteRules \/ Commit \/ Undo
Sync == (\E d \in Docs : Find(d) \/ Change(d)) \/ Flush \/ EndFlush
Remove == (\E d \in Docs : Delete(d)) \/ Unlink \/ ForgetRead \/ ForgetWrite
Promote == (\E d \in Docs : PromoteRead(d) \/ PromoteSwap(d)) \/ PromoteWrite
Rebuild ==
  \/ \E wipe \in BOOLEAN : Start(wipe)
  \/ \E d \in Docs : ReadFile(d) \/ Upsert(d) \/ Restore(d)
  \/ Resume \/ Sweep \/ ListItems \/ EndWalk
Restart == Crash \/ Open \/ (\E a, b \in Docs : Fold(a, b)) \/ MarkFold \/ StripFolded \/ Reconcile

FilingNext == Pass \/ Sync \/ Remove \/ Promote \/ Rebuild \/ Restart
FilingSpec == FilingInit /\ [][FilingNext]_filingVars

-----------------------------------------------------------------------------
Settled == up /\ pass.at = "idle"

(* The database and the files it mirrors say the same whenever nobody holds *)
(* the guard: the projects and the rules, a stored document and its front   *)
(* matter, a pointer and its entry (vault_writes.rs:6-10), but for the      *)
(* entries a sync has still to write, and for what a crash, a start or a    *)
(* flush has left apart and nothing has set right since.                    *)
TruthInStep ==
  Settled =>
    /\ mirror = rules \/ "rules" \in torn
    /\ \A d \in Docs :
         /\ rows[d].kind = "file" => rows[d].filing = files[d] \/ d \in torn
         /\ rows[d].kind = "pointer" =>
              unflushed \/ stale \/ "manifest" \in torn \/ manifest[d] \in {Nothing, Item(rows[d])}

(* A filing PM has answered for is not replaced by an older one: not by the *)
(* start of PM, which believes the manifest, nor by a rebuild, which        *)
(* believes every file, nor by a strike beside a pass; nor is a pointer set *)
(* back to an older version of its source (index_only.rs:334-374).  PM has  *)
(* answered for a version once it is in the manifest, or marked as missing. *)
Kept ==
  \A d \in Docs :
    Settled /\ There(d) =>
      /\ rows[d].filing >= kept[d].filing
      /\ rows[d].kind = "pointer" => rows[d].seen >= kept[d].seen

(* A document that was not deleted is never lost: it has a row, a file or   *)
(* an entry of the manifest to be restored from, also through the wipe of a *)
(* rebuild that a crash cuts off (index_only.rs:334-337), unless a merge    *)
(* could not read the manifest while the entry was all there was.           *)
Findable ==
  \A d \in Docs : kept[d].filing > 0 => There(d) \/ files[d] > 0 \/ manifest[d] # Nothing \/ d \in unread

(* What was struck from the manifest, for a delete, a fold or a promotion,  *)
(* does not come back as a pointer (index_only.rs:405-414).                 *)
NoGhost == \A d \in struck : manifest[d] = Nothing /\ rows[d].kind # "pointer"

=============================================================================
