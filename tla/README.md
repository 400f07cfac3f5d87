# PM in TLA+

PM (Personal Manager) is a local-first desktop app: a Rust core (`src-tauri/src`), a Python sidecar for
converting and embedding documents (`sidecar`), and a React interface (`src`). This directory holds its
formal models: TLA+ modules, the TLC instances that check them, and proofs checked by TLAPS.

Two groups of parts are modelled. The first is **writing repeating events to Google Calendar**. A "this and
following" change has no atomic form at Google: PM inserts a new series, cuts the original, and cleans up,
while answers get lost, retries race late copies, other clients edit the same events, and PM may stop. The
second is **what PM keeps on disk and the long jobs over it**: the writer lock of a shared vault, the change of
a vault's key and folder, the mirror of the calendar, the writes to a single event, installed mods, the index of the chats, the detached
syncs of a connector, the queue for the local model, and a document's filing in its row and in the vault's files.

## The system's parts

| Part | State it keeps | Operations | Interacts with | What is hard |
|---|---|---|---|---|
| Series plans (`calendar_write/series/plan.rs`) | an ordered list of steps | plan an edit or delete; read Google's copy (`verdict`, `resend`) | the run | what proves a step landed, or did not |
| Series run (`calendar_write/series/run.rs`, `Run`) | the step, its copies at large, how each step ended | one answer at a time; roll back | plan, sender | lost answers, late copies, resends |
| Settling a split (`run.rs`, `Settle`; `commands/calendar_edit.rs`) | the held split, its offers | check, finish, remove | run, sender, mirror | proof by a fence, changes in between, long sequences of commands |
| Sender (`google_io::send`, `classify.rs`) | none | one request with at most one retry and a 30 s timeout | Google | one answer for two copies |
| Split journal (`journal.rs`, `orphaned`) | a record per split, in the database | add, forget, read | the commands, startup | restart at any step, two GETs that are not one moment |
| Saves against syncs (`reconcile.rs`, `calendar_fresh.rs`, `calendar_history.rs`) | entries of recent saves, bands of the mirror, marks | save, merge a fetch, expire | sync, mirror | a fetch older than the save it meets, lists that lag |
| Vault lock (`vault/lock.rs`, `lock_session.rs`) | lockfile, baton request and ack | heartbeat, hand over, force-take | store | two instances, a suspended writer |
| Vault migration (`vault/migrate.rs`) | journal, backup, pointer, key | ordered steps, recover | store, keychain | a crash between any two steps |
| Connector syncs (`connector_sync.rs`, Drive, OneDrive, local folders) | running flag, queue, resume marker | claim, end a pass, stop | ingest, database | a request as a pass ends; a panic in a pass |
| Local model slot (`local_slot.rs`, `local_ai_switch.rs`) | the lane, waiters | chat, background call, release, switch off | model server | lost wake-ups, preemption |
| Mods (`mods/ledger.rs`, `mods/disk.rs`) | rows, folders, staging, quarantine | install, update, repair, uninstall, sweep | store, disk | files and rows out of step |
| Chat and its index (`chat.rs`, `chat_index.rs`; the chat's part of `ingest.rs` and `commands/archivist.rs`) | messages, file, document, cursor, marker, stamp | record, sweep, rebuild, delete | retrieval | a plan and its commit under two locks |
| One-off writes, held deletes (`commands/calendar_edit.rs`) | claims on rows, editors' copies, Undos, deletes waiting for their Undo | save, move, undo, delete, cancel | sender, mirror | claims handed to background tasks, timers, an answer that cannot be trusted |
| Ingest and vault writes (`ingest.rs`, `index_only.rs`, `commands/vault_writes.rs` and its callers) | rows, front matter, manifest and its mark, rules | a pass of new filings, delete, promote, rebuild, reconcile at a start | connectors, database | a pass that fails half-way; files touched without the database's guard |
| Backups (`backup/*`) | last backup, staging | schedule, pack, restore | destinations | busy gates, promotion |
| Secrets, wipe, app lock | keychain entries | store, erase | all | order of erasure |
| Gateway, retrieval, entities, review, tasks, flags, briefing, shell, interface | database rows, views | sequential commands | database | little concurrency of their own |

What makes each correct, where it is not obvious: a **run** reports "not done" only on proof, deletes a new
series only when the cut is not and never will be there, keeps its sends few and always ends; a **settle**
the same, over any sequence of commands; a **journal** never forgets a split that shows twice; a **save** is
never hidden by a fetch older than it, nor outranks a newer change; a **one-off write** lands only on what the
user saw, a delete that was undone is never sent, and the user is told what is so; a **sync** asked for is never lost, nor
run twice at once; a **vault** has one writer and can always be opened after a crash; a **mod's** files are where its row says, or can be
brought back; a **document's** filing is the same in its row and in its file, is never replaced by an older one, and
no document is lost or comes back; a **chat's** index has each turn once, never outlives the chat, and is never stamped
current when it is not; a chat **message** never waits out a background call.
`PROJECT.json` lists every part with its sources, and the hazards of each at the line where they bite.

## The modules

```
SeriesPlan <- GoogleCalendar <- GoogleSend <- SeriesRun <- SplitSettle <- SplitJournal
                                               |   |           |              |
                                  SplitPromise-+   |     MCSplitSettle  MCSplitJournal
                               MCSeriesRun, MCPlans
      SeriesRun <- SeriesRunSafety <- SeriesRunEnds <- SettleProofs -> SplitJournal

OneWrites (with SeriesRun, an instance per shape)            <-  MCPlans
VaultLock, CalendarMirror, ModsLedger, ChatIndex, VaultMove  <-  MCStored
VaultMove, ConnectorSync, LocalSlot, OneWrites               <-  MCWork
VaultWrites                                                  <-  MCFilings

ConnectorSync, LocalSlot, ModsLedger <- WorkProofs   VaultLock, VaultMove <- VaultProofs
OneWrites <- WritesProofs    VaultWrites <- FilingProofs    ChatIndex, CalendarMirror <- StoredProofs
```

### Repeating events at Google

* **SeriesPlan** models `plan.rs`: `Plan`, a sequence of step kinds, is one of the shapes the code builds
  (`IsSplit`, `IsCutDelete`, `IsOneWrite`), with each step's stage, requirement, `Verdict` and `Resend`.
  A step of kind `cut` is a PATCH without an undo, so it also stands for an edit of one occurrence and for a
  text change of a whole series; `retime` is the PATCH whose undo is `Undo::Restore`.
* **GoogleCalendar** is the environment, which is not in the repository: one event per step, its etag, its
  fields by what they mean to the step (`old`, `new`, `half`, `other`), and whether another watched field
  changed (`rest`). `flight` holds copies of writes that may still land. Google takes a change only on the
  event's etag and an insert only once per id. `Faults` names what else the code prepares for: a 2xx that
  `ignores` or `halves` a change, a 2xx whose body is `unreadable`, a copy `bare` of its etag. Other clients
  edit (`Touched`) and delete (`Deletable`) at most `MaxEdits` times.
* **GoogleSend** is `google_io::send`: up to two attempts, then one answer to the caller. `maybe` is
  `maybe_applied`.
* **SeriesRun** is the machine `Run`. Its variables are those of the struct: `at`, `phase`, `ends`, `copies`
  (the struct `Copies`), `tag` (the etag in the insert's reply), `why`, `rollback`, `outcome`; `out` is the
  request at the sender; `count` is a ghost. Each action is one answer and everything the code does on it up
  to its next request (`WriteAnswered` = `read_write`, `on_restore`, `on_undo_send` with `apply`; `Check` =
  `read_check` with `not_landed`; `InsertLook`, `UndoLook`, `Look` likewise). Answers are atomic with their
  reading because reading one touches only the machine: whatever others do between Google's answer and PM's
  reading of it is the same done just after.
* **SplitPromise** is the abstract specification of "this and following": occurrences from the split on
  are on the original, the new series or both, never on neither.
* **SplitSettle** adds the machine `Settle` and the commands around it: what is known of the cut
  (`CutKind`), the offers (`OffersFor`), the look before every command, the check of the new series, the
  fence, the removal, and a Finish that goes back into `Run`.
* **SplitJournal** adds the record kept from before the first write (`kept`), a stop of PM at any moment of a
  run, a look or a command, and what the startup, the calendar view and a save make of the record afterwards:
  a reading of both series in two GETs with anything in between (`glimpse`), and `Orphan`, the verdict of
  `journal::orphan`, with the answers that keep or forget the record.
* **MCSeriesRun**, **MCSplitSettle**, **MCSplitJournal** give TLC a plan; **MCPlans** runs SeriesRun once per
  other shape of plan, each with constants of its own, and OneWrites beside them, in one model.
* **SeriesRunSafety**, **SeriesRunEnds** and **SettleProofs** hold the proofs: the types of a run, its inductive
  invariant and what follows; what more its end and its counts rest on; the commands and restarts around it.

### What is on disk, and the long jobs

* **VaultLock**: the lock file and the baton request as they stand in the folder, and per instance the
  `LockSession` (`mode`, `beaten`), the store (`open`), and `doing`, the place between two file operations.
  Every read and write of a file is a step, so the check and the write of `engage`, the tick, `take_over`,
  `force_take` and `continue_here` can be cut in two by the other instance, a crash (the file stays, its owner
  is `Gone`) or a sleep. Time is counted in units in which every awake instance ticks once (the watcher's
  1.5 s); the ages that matter keep their order (`Beat < Ttl < Stale`). `together` counts for how long two
  awake instances have both been writing.
* **VaultMove**: a vault is four parts (database, notes, metadata, sidecars), each under the key it was written
  with, in each of two folders and the backup. `step` walks `migrate_vault`, `relocate`, their undoing after an
  error and `recover` in the code's order; `journal`, `marker` and `pointer` are the files a next start reads.
  A crash comes before any step, a failure in any that can fail, and a part of two keys is `Mixed`.
* **ConnectorSync**: the slot with its queue, the stop flag, the resume marker, and two calls of
  `run_detached_sync` in their places from the claim to the drop of the guard, with requests at any moment between. A
  pass ends, panics or dies. The marker is written and cleared best effort, so it may be missing while a pass runs, or
  name one that is over. `robbed` is a ghost: the guard of a run that is over has let go of the slot of the next.
* **LocalSlot**: the lane as its queue, `chat_waiting`, the one installed `Notify` with its permit, and each
  call's place in `run_foreground`, `run_background` and `run_unload`. Switching off drops a call where it
  awaits, its guards running in the order Rust drops them.
* **CalendarMirror**: one event at Google as a log of versions in the live band, the past or nowhere, lists
  that lag (`listed`), and of PM the row, the entry of `RecentWrites`, the change marker with what it absorbed,
  the history state and the pass that holds the sync lock. A pass is its requests and its write, each a step;
  a save lands while one runs.
* **OneWrites**: one event that does not repeat: at Google (`event`, with the number of the write that wrote each
  field last, as a ghost), in the mirror (`mirrored`), in an open editor (`session`); the change that can be
  undone (`undo`), the claim on its row, the held delete with its task (`hold`) and its entry in `HeldDeletes`
  (`heldEntry`), and `job`, the write under way: `Reads` is a round of `send_counting` or `send_delete` up to its
  request, `AnswerComes` the sender with its one retry and what an answer means, `Looks` the look after one that
  cannot be trusted, `ShowsConflict` the GET after a second 412. A round's body and basis are what `build_patch`
  and the checks make of Google's copy as just read (`Body`, `Basis`). Etags only grow, so a copy that may land
  late is forgotten once the event has moved on.
* **ModsLedger**: one mod: its row, what stands in the folder of each version, quarantine, staging, the
  registry, and `task`, the place in an install, an update, a repair, an uninstall, the startup load and the
  sweep. Between any two steps PM may stop, the user may pause the mod, somebody may damage a folder, and at
  a start the store may be an older copy of itself, or the newer one again. What is put back, taken back from
  quarantine or removed may fail, before or half-way (`NotPutBack`, `TakeBackFails`, `Removed`), and a parking that
  cannot be recorded is not; `failed` is a ghost of which of these came last.
* **ChatIndex**: one chat: its rows (`chat`), its document with its chunks, its file, the three ways in:
  `record_turn_pair` (`recording`), `index_session` as the sweep and as the rebuild run it (`indexing`), and
  `rebuild_core` (`rebuild`), with the resume marker, the retrieval stamp and the width of the vector table.
  A reading of the file and its rewriting are two steps, and so are the plan of `index_session` and its
  commit; a delete takes no guard and can come between.
* **VaultWrites**: for each document its row (`rows`), the filing in its front matter (`files`), its entry of the
  manifest (`manifest`); the projects in the database and in the rules file (`mirror`, `rules`). A filing is the
  number of the pass that wrote it: what matters is which of two is the newer. `pass` is the transaction of
  whoever holds the guard, with `written`, the files it has replaced, for `Undo`. What works without the guard
  has steps of its own: the tidying after a delete (`tidy`), a promotion (`promote`), a rebuild (`walk`, with the
  marker by which the next start resumes it). A start reads the rules, folds pointers at one file, and reconciles
  the manifest; each reconcile is best effort, so `Open` and `Reconcile` may leave everything as it was, or stop
  half-way. Where a merge reads the manifest, it may find it unreadable and take it for an empty one (`Readings`;
  `unread` remembers whose entry was then all there was). `torn` remembers what a crash, a start or a flush has left
  unlike its file. `Gaps` names the cases known to go wrong, so that the passing run can leave them out;
  `wiped_behind` shows `wipe`.
* **MCFilings** has two documents that nothing tells apart, and five instances of VaultWrites with bounds of their own,
  of which each behaviour has one.
* **MCStored** and **MCWork** put parts that share no state into one model each: `which` names the part a
  behaviour is of. A start of TLC per part would check the same.
* **WorkProofs**, **VaultProofs**, **WritesProofs**, **FilingProofs** and **StoredProofs** prove
  properties of the modules they extend (*What is proved*).

## What the runs check

| Run | Instance | What it shows |
|---|---|---|
| `split` | insert, cut, carry, cancel; two acts of other clients on the original (edit or delete) | `NotDoneIsProof`, `TailDeletedOnProof`, `CleanFailure`, `NothingOverwritten`, the refinement `PromiseKept`, the inductive invariant `RunInv`, and `RunEnds` |
| `plans` | retime, delete, cancel, create, a retried create (all faults, two acts); cut and cancel; insert, cut, carry and cancel; insert and cut with all faults, both events touched; two writes to one event beside another client and a quit | `NotDoneIsProofOfAll`, `FewCopiesOfAll`, `CarriedFirstOfAll`, `NothingOverwrittenOfAll`: the proofs of "not done", the bounds on sends, the order of the cleanup and the If-Match rules, for every shape; `LetGoIsKept`, `NothingUnseen`, `ToldIsSo` |
| `settle` | the user checks and removes, or checks and finishes, in any order and number; PM stops at any moment; both series touched, the original deleted | `RemovedOnProof`, `NeverMissing`, `CheckedTailKept`, `TwiceIsOnRecord` over restarts, and `CommandsEnd` |
| `work` | a vault's key and folder changed, killed twice; two syncs of a connector with two accounts; a chat, two background calls and an unload; a write to one event | the vault `ComesBack`; `SingleFlight`, `RequestsHeeded`; `NotBehindAJob`, `ChatGetsThrough`, `OffStops`; `BusyEnds` |
| `stored` | two instances at a lock file; a vault's key changed twice and its folder moved; an event changed here and at Google; a mod of two versions; a chat of three turns | `SplitEnds`, `ClosedBehindCurtain`; `NeverLost`, `TargetKept`; `SavedStays`, `StillListed`; `NothingLost`, `PauseKept`; `IndexMatches` |
| `filings` | two documents: a pass beside syncs and deletes; two beside promotions; one beside promotions and rebuilds; syncs, promotions and rebuilds with a crash; a pass, syncs and rebuilds with a manifest that cannot always be read | `TruthInStep`, `Kept`, `Findable`, `NoGhost` |
| `only_copy` | an original deleted by another client after a cut whose answer was lost | disagreement 1 |
| `finish_after_remove` | check, remove, finish | disagreement 2 |
| `unchecked_tail` | check, remove, with the new series touched | disagreement 3 |
| `half_removed` | a crash in the removal of a backup | disagreement 4 |
| `past_skipped` | an event moved into the past between two listings | disagreement 5 |
| `wiped_behind` | a rebuild for another width while the manifest is behind | disagreement 6 |

What some of these say, beyond their names. `SplitEnds`: the lock is not mutual exclusion, a suspended writer
that wakes writes on until its next heartbeat; the property is that this is all (`Beat`, no longer). `NeverLost`
is `AlwaysWhole` except where disagreement 4 tore the backup, with `RestsWhole` between migrations.
`SingleFlight`: one pass of a connector at a time, until the drop of a guard lets go of another run's slot.
`RequestsHeeded`: a sync asked for is swept, and a Stop ends the run; after a crash, what the marker names is. `RemovedOnProof`: a delete of the new
series is out, and PM says removed or not done, only while an original that is there is not cut and no copy can cut it. `ToldIsSo` speaks of the moment of telling. `StillListed`: the history marker is never past
a change of an old event the mirror lacks. `NothingLost`: an exact copy of what the row names is in place or
in quarantine even after a stale copy of the store had it swept, whatever fails; and once PM is up no row names files that are
not there, unless the last start or the last failed repair could not put them there. What is served has its files, unless a
repair failed so. `IndexMatches` joins four: no document of a
deleted chat, every turn at most once and in order and none past the cursor, a stamp only on an index that
is all of the current configuration, and no indexed turn the file lacks. `TruthInStep` excepts what is `torn`, and `Findable` what is `unread`: both can
happen, and *Known gaps* says when. `Kept` counts what PM has answered for: what a flush wrote, or marked as missing.

### Bounds

* *Series.* One other client's change tells whether a step can be fooled once; two (`MaxEdits = 2`) let a
  change meet both the first etag and the one newer etag a step may move to, which is all the code allows. A
  request has at most two attempts and a step at most four requests, so copies are bounded by the model
  itself. `CountCap` only stops the ghost counters, above the limits checked. The user's commands and, in
  `settle`, the restarts are unbounded. The split that is settled is the two commit steps; cleanup steps
  change nothing `Settle` reads.
* *Lock.* Two instances, interchangeable (the `SYMMETRY` of `stored`, which checks safety and action properties only); one sleep,
  since a sleeper need only wake once at the wrong moment; `Beat, Ttl, Stale = 1, 2, 3`, the least that keep
  their order, ages being counted no further than `Stale + 1`. Crashes are unbounded.
* *Migration.* `MaxKeys = 2`: a key changed again after a change was undone or repaired. `MaxCrashes = 2`: a
  crash, and one in its repair. `work` checks liveness with one change of key. `Heeds`: after a failed change
  of key the user restarts, as the message asks.
* *Syncs.* Two calls and two accounts: one pass, one request beside it, at any moment, or a second run begun while the
  first cleans up.
* *Slot.* `work` has one chat, two background calls, one unload; two chats are under *Known gaps*.
* *Mirror.* `Lag = 1`, `MaxTime = 2`: lists that lag, a clock that has moved past the lag. `MaxEvents = 2`
  changes, failures and restarts. The clock stands still for the length of a pass.
* *One-off writes.* `MaxWrites = 2`: a write and the Undo of it, a save after a save from the same editor, a
  delete after one that was undone. `MaxOthers = 1`: a change, seen or not, before, between or after the two
  rounds. Two fields, the time, which a move sends, and another; two values the user may set and one only others
  do. `work` checks liveness with one write. Quits and starts are unbounded.
* *Mods.* One mod, `Newest = 2`: an old and a new version. Crashes, failures, swaps and damage are unbounded.
* *Chat.* `MaxTurns = 3`: a turn indexed, one being indexed, one said meanwhile. One change of configuration.
  Crashes, sweeps and rebuilds are unbounded. `Gaps = FALSE` leaves out what *Known gaps* lists.
* *Filings.* Two documents, interchangeable (`SYMMETRY`; safety only): one in hand and one beside it, or the two of
  a fold. Everything beside the passes at once is too large, so a behaviour has one of five mixtures: one
  pass with syncs of two versions, deletes and a crash; two passes with promotions and a crash; one pass with
  promotions and rebuilds; syncs, promotions and rebuilds with a crash; one pass with syncs, rebuilds, a crash and a
  manifest that cannot always be read. A delete beside a rebuild is met there as the
  deletes of a project's documents (`Begin`'s `K`). One delete and one promotion are in hand at a time; rebuilds
  are unbounded. `Gaps = {}` leaves out disagreement 6 and what *Known gaps* lists.

`PromiseKept` counts an original deleted by another client as uncut: what is owed then is
`OnlyCopyKept`'s question. In the run it is checked no other client deletes the new series.

No run checks deadlock: in each a part ends, a bound is reached, or a user need not ask anything more. That nobody
waits for ever is what the liveness properties say.

### Fairness

* `WF(Machine)` of a run: every request is answered or given up at its 30-second timeout (`google_io`), and
  every pause ends, so the machine always goes on. Nothing is assumed of late copies or of other clients: a
  copy may never land. `SettleSpec` and `JournalSpec` add the commands in hand; the user is free never to ask.
* `WF(MoveMachine)`: a migration or a start that has begun goes on, to its end, a failure or a crash.
* `SyncFairness`: a task that is under way is scheduled, and a pass ends (its requests have timeouts). Nobody
  need ask, nobody need press Stop, and the marker need never be written.
* `SlotFairness`: chats, background calls and unloads are scheduled, but no background call need end by
  itself: what ends one is its being told.
* `WritesFairness`: a request of a one-off write is answered or timed out, and the eight seconds of a held delete
  pass. Nobody need press Undo, quit, or sync.
* `MirrorFairness`: a pass goes on to its end, a list catches up, an entry expires, a save's answer is
  recorded. Strong fairness for the beginning of a full sync and of the history job: tokio's mutex is first
  come, first served, so either gets the sync lock although others ask for it too.

## Where the code and its documentation disagree

1. **A deleted original is taken for an uncut one** (`only_copy`). The cut lands, its answer is lost, another
   client deletes what is left of the original. `not_landed` reads the 404 as the cut proved not done and the
   rollback deletes the new series, now the only copy of what follows. `plan.rs` promises "never missing
   occurrences", and `Settled::OriginalGone` says of the same state that removing the new series "would
   delete that copy".
2. **Finish is offered while a Remove may still land** (`finish_after_remove`). Remove's delete of the new
   series gets no answer; the next look finds the series there and `offers_for` offers Finish again. The cut
   lands, then the delete. The etag the delete carries is still the new series' etag, since cutting the
   original does not move it. (`settle` therefore offers the user one of the two, not both.)
3. **Remove without an etag** (`unchecked_tail`). When the check meets a 404, no etag is handed to the
   machine, so a new series that shows up late, and changed, is deleted as it is. Where the check did find it,
   the change is kept (`CheckedTailKept` holds).
4. **A backup is removed while the journal still names it** (`half_removed`). The change of key has finished;
   its backup goes file by file, then the journal. A crash in between makes the next start clear the live
   vault, which was whole, and restore half a backup over it. `migrate.rs` says "a crash always leaves an
   openable vault". `recover` removes a backup it restored in the same order. (`torn` marks the behaviours in
   which this happened; the other properties of the vault hold without them.)
5. **The history job skips a change nobody has** (`past_skipped`). A change the mirror holds in the live band
   is taken for one the fetch of the live band has just brought. An event another client moves into the past
   right after that fetch is still there, so it is skipped, the marker moves past it, and the next full sync
   drops the row.
6. **A rebuild wipes rows the manifest does not have** (`wiped_behind`). A pass of a connector moves its cursor, its
    flush of the manifest fails, and a rebuild for another width of vectors clears the rows without asking about
    the mark. What the pass found is in no row and no file, with the cursor past it.

## What is proved

Each theorem holds for every value of the constants its module's assumptions allow, so without the bounds of the
runs (`MaxKeys`, `MaxCrashes`, `MaxEvents`, the number of documents, writes, calls and versions). Every one rests on
an inductive invariant: it holds at first, and each action keeps it, one step or lemma per action. TLC checked each
invariant on the instance of its run before it was proved.

### The series run

For every plan the code builds, any number of changes by other clients and every choice of faults
(`PlanAssumption`, `BoundsAssumption`, `RetryAssumption`):

* `TypeCorrect` (SeriesRunSafety): `Spec => []TypeOK`. One lemma per layer: Google's own steps
  (`WorldType`), the sender (`AttemptType`), each move of the machine (`MovesType`), each reading of an
  answer (`HearsType`); then one step per action of `Next`.
* `Safe` (SeriesRunSafety): `Spec => []IInv`. "Not done is proof" is not inductive. When the run reads the
  original and finds the cut not there, it must also know that no late copy of the cut can still be taken,
  and that holds because of what happened before: which etags the step was sent on, which of them Google has
  left, which answers were lost. `IInv` says how the machine's marks (`copies`) cover the copies at large:
  - `EtagsCount`, `CopiesBehind`: an event without an etag has never been there; a copy in flight is of a
    step already sent, on an etag Google has been at, and one this step was sent on (`sentOn`);
  - `OutIsTheStep`, `LaterUntouched`, `LooksAreCarries`: the request at the sender is the current step's, and
    later steps are not in Google;
  - `DoubtIsKept`: while the step may be in Google, or may still land there, either the marks say so or the
    answer to come will;
  - `InsertAnswered`, `Undoing`, `TakenIsProved`: what a step taken for not done, or for done, rests on;
  - `TailStands`, `CopiesMeetThePlan`: the new series is there from the cut on; a copy Google would take finds
    the event as the plan knows it.

  The proof rests on one fact about Google, `EtagsMove`: an etag only grows, and while it stays so does the
  event's content and its being there. So a copy Google would take after a step it would have taken before
  (`AcceptsStays`), and every conjunct that speaks of copies survives the steps of others. Then one lemma per
  move of the machine (a send, a look, the end of a step, not done, unknown) and one per reading of an answer,
  and one step per action of `Next`.
* `NotDoneProved`, `TailDeletesSafe` and `NeverMissingSafe` follow from `IInv` alone.
  `NothingOverwrittenSafe` is about steps: `StepWrites` says who can write (a pending copy, another client),
  and `CopiesMeetThePlan` what a pending copy meets.
* `ImplementsPromise`: `Spec => PromiseKept` for every plan that splits and whose new
  series only PM may delete. A step changes at most one event (`OneEventMoves`); the new series goes only by
  a delete of PM's, so on an uncut original (`TailDeletedOnProof`), and the original is cut only with the new
  series there (`NeverMissing`, before and after the step).
* `RunSafe` (SeriesRunEnds): `Spec => []RunInv`. `RunInv` is `IInv` with what the rest of a run's properties need:
  - `SeriesBehind`, `EndSays`: from the cut on the new series is done and was there, and a run that ends "not done"
    found it gone again or leaves its rollback in doubt; a run that is over has said how it ended;
  - `CarriesBehind`: a cancel whose carry is done follows a change that is there to see, and no other was ever sent;
  - `Counted`: an insert is posted once, and once more unless it already was (`InsertsCounted`); any other step goes
    out once on an etag and once more, and moves to one newer etag only; only copies on the last etag may still be
    to come (`CopiesCounted`).

  `CleanFailureSafe`, `FewCopiesSafe` and `CarriedFirstSafe` follow. The last two speak of any plan; `plans` checks
  the same of its shapes (`FewCopiesOfAll`, `CarriedFirstOfAll`).

### The settle and the journal

For every plan that begins with an insert and a cut (`SettlesASplit`), every choice of faults, any number of changes
by others, any sequence of commands and a stop of PM at any moment (SettleProofs), under `OneWay`: nobody may ask
for both Finish and Remove of one split. Without it `RemovedOnProof` and `NeverMissing` are false (disagreement 2);
the `Menus` of `settle.cfg` satisfy it.

* `JournalSafe`: `JournalSpec => []JournalInv`, where `JournalInv` has two layers.
  - `GoogleStands` speaks of Google and its copies alone, so it outlives PM: a delete of the new series is on its
    way, or the new series is not there by nobody else's doing, only where no cut is or can come to be (`NoCut`).
  - `SettleInv` says what each command rests on: what is known of the cut stays so (`KindStands`); the machine's
    phases that delete come only past a proof (`PhaseSays`); only a Remove writes (`RemoveWrites`); and where a
    Finish may still be asked for, the copies at large are the run's, on events as planned (`FinishStands`,
    `FinishOffered`), so the run it goes back to starts where `IInv` holds (`RunStands`).

  The proof reuses the run's: a step of `Run` keeps `IInv` in the first run and in one a Finish goes on with, and
  `EtagsMove` carries what is said of Google over late copies, other clients and restarts.
* `RemovedOnProofSafe` and `NeverMissingOverRestarts` follow from `JournalInv`.
* `RecordSafe`: `RecordInv` with it. The etags PM knows of the new series are no newer than Google's (`TailDated`);
  after a check no delete goes out on another etag than the checked one (`TailChecked`); what the record's ghosts say,
  and what a command ended on, is so (`Recorded`); and the first of two readings still tells what it told when the
  second comes (`Glimpsed`). `CheckedTailKeptSafe` and `TwiceIsOnRecordSafe` follow: a delete takes only the version
  that was checked, and no pair of readings, however far apart, clears a record of a split that shows twice.

### The rest

* **Mods** (WorkProofs): `NothingLostSafe`, `PauseKeptSafe`. For any number of versions. `LedgerInv` says of each place
  in an operation where the exact copy of the row's files is (`TruthStands`, `InPlace`), what an install that stops
  there puts back or leaves in quarantine (`PutsBack`), and what a start has found, or could not bring back
  (`Booting`), also under an older copy of the store.
* **Connector syncs** (WorkProofs): `SingleFlightSafe`, for any number of calls and accounts, which come at any
  moment. `SyncInv`: until a guard has let go of another run's slot, one call at a time is under way and the flag is
  up while it is. What comes after such a drop the property leaves open, because the code then runs two passes
  (*Known gaps*).
* **Local slot** (WorkProofs): `NotBehindAJobSafe`, for one chat and any number of background calls and unloads.
  `SlotInv`: who runs stands first in the lane, the `Notify` installed is that of the job that runs, a chat's flag
  stands from before it notifies, and a job that runs with a notified chat behind it has been told. One chat is a hypothesis because with two the property is false (*Known gaps*).
* **Vault lock** (VaultProofs): `ClosedBehindCurtainSafe`, for any number of instances. `SplitEndsForTwo`: two
  instances beat at once for at most `Beat`, for any ages of lease and heartbeat in their order, any number of
  crashes and sleeps. Three do not keep that bound: while the lock goes from one to the next, two that have lost
  it can both find it free and write until each one's next heartbeat.
* **Vault migration** (VaultProofs): `NeverLostSafe` and `TargetKeptSafe`, for any number of keys and crashes.
  `MoveInv` says for each step of the change, the move, their undoing and the repair which folder and which backup
  are whole, and under which key; `TheirsStay` that no step touches another account's vault. `NeverLostSafe`
  speaks, as the property does, of a vault no backup was torn under, and supposes `Heeds`, the user who restarts after a failed change of key: what is saved after it, the next start
  rolls back (*Known gaps*).
* **One-off writes** (WritesProofs): `LetGoIsKeptSafe`, `NothingUnseenSafe`, `ToldIsSoSafe`, for any number of
  writes and changes by others. `WritesInv` says that a copy that can still land was sent on the etag Google has,
  and so on fields as the user saw them (`LateSeen`, `JobSeen`); that a write leaves nothing in the event before it
  is sent, nor where Google certainly refused it (`NotYet`), and otherwise only what it sent (`Wrote`); and that it
  changes every field it sets (`Differs`). The last is what makes the look after a lost answer conclusive: a field
  that shows neither what was sent nor a change means nothing is there. An etag that has moved rules late copies
  out, so a write told "kept" after a conflict cannot come either.
* **A document's filing** (FilingProofs), in two layers, for any documents, passes, versions and crashes:
  - `TruthInStepSafe` from `FilingInv`: what each holder has in hand between two of its steps (a
    pass and its stack of undone files, a delete, a promotion, a rebuild, the start) is still what it took it for,
    and a file or an entry out of step with its row has its snapshot on the stack, or is `torn`. It
    supposes `Minds`: of `Gaps`, `row`, `forget`, `hand` and `wipe` are closed. Each alone breaks `TruthInStep` on two
    documents (*Known gaps*): a step writes what it read before somebody else's change, puts nothing back, or clears rows that
    stand nowhere else yet.
  - `KeptSafe` and `FindableSafe` from `FilingInv` and `KeptInv`: every place a filing can come back from (row,
    file, entry, a rebuild's list, the stack) has one at least as new as what PM has answered for, wherever that place
    would be believed, and an entry that is all there is of a document is in the file, or in hand, or was lost to a merge
    that could not read it. They suppose `Gaps = {}`; `fold` alone breaks both.

  The gaps are open in the code, so what the theorems say of the code is conditional: each of them breaks at least one
  of the properties, and with all of them closed nothing else that is modelled does, failing reconciles and an
  unreadable manifest included.

* **A chat's index** (StoredProofs): `IndexMatchesSafe`, for a chat of any length, any number of crashes and changes of
  build, and turns, deletes, sweeps and rebuilds in any order. `ChatInv` says that who is inside the file is alone
  there and that what it read is what the file still has (`AloneInside`, `CopyHolds`); that an indexer goes on where
  the cursor is and has put in the file what it is past (`GoesOn`), which a delete of the chat in between cannot
  falsify because nothing then lands; that the sweep and the rebuild do not index side by side (`Apart`); that chunks
  about to land are of the present build, or come from a sweep under no stamp and no marker of it (`MadeAsNow`); and
  that whatever says the index is current, or is about to (the stamp, a chat the resumed rebuild would skip, the
  rebuild on its way to the stamp), is right (`SaysCurrent`). It supposes `~Gaps`: each of the cases of *Known gaps*
  breaks the property.
* **The calendar mirror** (StoredProofs): `SavedStaysSafe` and `StillListedSafe`, for any lag, any number of changes,
  failures and restarts. `MirrorInv` says that a pass is over within a tick, so that what its listing lacks is
  younger than the time it notes, less the lag (`Times`, `PassHeld`); that the row is not behind what a save left in
  it while the save is remembered (`Rows`), and is that save itself while a pass runs which began before it
  (`PassHeld`); that what Google answered to a save is of this tick, so recording it never puts an older row
  before the time checks count from (`Answer`); and that a pass about to note a time has a mark, a row that lacks
  only what is younger, or the newest version among what it judges (`PassNotes`). `StillListedSafe` supposes
  `~Drops` (*Known gaps*).

### What is only model-checked

`NoGhost`: the strike beside a pass and the filing in hand, which it is about, are gaps, so a theorem that supposes
them closed would say little; `filings` checks it for deletes, folds and promotions between passes. Liveness (`RunEnds`, `CommandsEnd`, `ComesBack`, `RequestsHeeded`, `ChatGetsThrough`, `OffStops`, `BusyEnds`), which
is beyond the prover, and with it `EverythingShows`. `StoredTypeOK` is the types of five parts: those
of the mirror, the chat and the mods are the first conjuncts of the invariants proved, those of the vault's migration
nearly so (`MoveTyped`); those of the lock's files are only checked. `NotDoneIsProofOfAll`, `FewCopiesOfAll`, `CarriedFirstOfAll` and
`NothingOverwrittenOfAll` are `NotDoneProved`, `FewCopiesSafe`, `CarriedFirstSafe` and `NothingOverwrittenSafe` on the
instances `plans` puts side by side: the theorems hold of each, and only their composition is left to TLC.

## Known gaps

What the models leave out of the code they cover, with the cases seen to matter:

* **Series.** The mirror, tasks and milestones moved with a split, wording. Who is emailed: `resend` can also
  refuse for guests; it is a `conflict` here, which a changed `rest` gives. The content of rules and times: a
  cut or a move is one value, a half-applied one is `half`. Occurrences of the new series changed on their own
  count as a change to the series (`rest`). Whether the original's exceptions are still as planned at a Finish
  is left open (`FinishLists`).
* **SplitJournal.** An insert that lands after the last look at its record; the original's occurrences
  deleted one by one (`journal::backed` then answers unknown); which saves a record holds up; a second split of
  the same series.
* **VaultLock.** The acknowledgement file, which nothing reads; lock files that cannot be read or written.
* **VaultMove.** The keychain; the checks of a target before a move; deletes and removals are assumed to
  succeed; the source of a committed move is cleared without a look (`ClearsSource`); a vault that appears in
  the target between the second look and the marker (`blind`); a backup made before the journal is written is
  stranded by a crash; work saved after a failed change of key, which the next start rolls back (`Heeds`).
* **ConnectorSync.** What a pass does to the index. Three things the code does, which the properties except:
  - `pass_complete` lowers `running`, and the guard's drop, after the marker is cleared and the last event is sent,
    lowers it if it is up. A request in between has raised it for a run of its own; after the drop the next request
    starts a second pass beside it, and what was queued behind that run is wiped (`robbed`). The comment at the drop,
    `connector_sync.rs:266-267`, says that on the happy path it "is a no-op";
  - the marker is written best effort (`connector_sync.rs:336-339`): a pass that began without it and dies is not
    brought back at the next start;
  - the marker is one setting for all runs: a run that is over clears that of the next (`connector_sync.rs:356-359`),
    with the same effect, and one that could not be cleared brings back a sync that had ended.
* **LocalSlot.** The model's health and cool-down, and the markers by which a start knows of a loaded model
  (one call may clear what another writes). With two chats, `NotBehindAJob` does not hold: the chat flag is one
  boolean, which a first chat's guard clears while a second chat waits behind a background call that took its
  place in the lane between the two; that call finds the flag down.
* **CalendarMirror.** iCal and Outlook; months loaded ahead; an event that ages out of the live band by itself;
  listings of more than one page; the back-off; a landing recorded so late that its older row stands until the
  next full sync; a read that waits out a 429, longer than the lag a check allows for, which the clock that stands
  still in a pass excludes; the delete that another client undoes and an incomplete fetch of another band drops
  (`reconcile.rs:254`), which takes three events; and the two clocks an entry expires on (it may expire any time).
  With `Drops = TRUE` and three events `StillListed` does not hold: PM deletes an old event, another client
  restores it and the history check shows it again, and then a listing of the live band that comes back incomplete
  drops the row, as the delete is still remembered (`reconcile.rs:254`). The history counts from after the restoring, so no
  check lists it; a full fetch of the past, or ten minutes without the entry and another change, bring it back.
* **OneWrites.** Creating an event, another calendar, replies, a repeat given to a one-off, the wait for a call,
  the held deletes of a series, and a 2xx that ignores or halves a change. The gate, guests to ask about and a body
  that cannot be built are one refusal, which may come on any reading. The row is written by a sync at any time
  (`Synced`); CalendarMirror says when it may. A request whose answer was lost, that is not there when PM looks,
  is told "nothing was saved" or "nothing was deleted; try again"; its copy may still land afterwards, and what
  was said is then no longer so.
* **ModsLedger.** Consent, the range of API versions, the blacklist, stores other than the one, a failed write that parks
  a mod, files changed without a change of size, and the thirty days after which quarantine expires: in the model it does
  not, so `NothingLost` speaks of the thirty days. What the code does, and the property excepts: a repair that fails
  sets what stood there back with a rename nobody looks at (`disk.rs:484`, `530`). If that fails too, the row names
  files that are in quarantine only, and an active one is still served, until the next start takes them back
  (INVARIANTS.md I-30 says that a row "never names files that aren't there"). A start that cannot take them back
  (`ledger.rs:720-723`) parks the row, if that can be recorded, and serves nothing of it. A parking or unparking that
  cannot be recorded changes what is served and not the row.
* **VaultWrites.** What is filed (project, tags, links, entities and their aliases); arrivals into the vault and
  conversion; the chat documents (ChatIndex); the twins of shared drives; rows re-keyed or dropped as a connector
  is reset or removed; a file that cannot be put back in an `Undo`; `restore_rules_file`, which does not replace the file atomically; a rebuild that ends in an error and is
  resumed in the same session; a reconcile in mid-session, when a vault is switched; two deletes in hand at once. A
  crash between a pass's files and its commit leaves its filing in the files and not in the rows: the code knows
  of it (the next Rebuild adopts it) and `torn` excepts it from `TruthInStep` until then. Three more failures the code
  passes over are in the model, and what they do is excepted:
  - a start whose reconcile of the rules or of the manifest fails goes on (`lib.rs:1062`, `lib.rs:1231`), with the mirror
    and the rules, or rows and entries, apart where a crash had left them so; `torn` names them until a pass, a flush or a
    later start sets them right;
  - a flush that fails leaves a mark, and the mark is best effort too (`index_only.rs:374-378`): with neither, the rows
    are ahead of the manifest and nothing says so, and the next start sets them back. `torn` has the manifest, and
    `Kept` does not count what was neither written nor marked;
  - a manifest that cannot be read counts as an empty one when the rows are merged into it (`index_only.rs:346`), and a
    start that cannot read it writes it from the rows (`index_only.rs:690-695`). The entries that have no row, and wait for a
    Rebuild, are then gone, although the comment at `index_only.rs:334-337` says that "a classification is never silently
    dropped". `Findable` excepts the documents of which that entry was all there was (`unread`).

  With a member of `Gaps` open, on two documents with everything beside one pass and a crash, the properties named do not hold:
  - `row` (`TruthInStep`): `rewrite_vault_metadata` replaces a file and then updates the row; when that fails the
    caller never gets the snapshot it would have put back. `write_synced` does the same with the manifest;
  - `forget` (all four): `forget_sources` reads, filters and writes the manifest after its callers have let go of
    the guard, a pass reads and writes it under the guard, and either can undo the other;
  - `hand` (all four): `rebuild_one` and `promote_spreadsheet` embed between their reading of a filing
    and its use, and put back the one before a review committed in between, or a document deleted in between;
  - `wipe` (`TruthInStep`, `Kept`, `Findable`): disagreement 6, and the wipe of a document that has a file and is still
    a pointer, as in the middle of a promotion or after one whose strike failed: the rebuild has two places to restore it from;
  - `fold` (`Kept`, `Findable`): `fold_one` commits each fold and the mark comes after the last, best effort; with a crash
    in between, or no mark, the next start applies the survivor's old entry over the merged filing.

  And a deleted document whose file could not be removed is one more document to the next rebuild
  (`archivist.rs:179` drops the result).
* **ChatIndex.** With `Gaps = TRUE` the run would not pass, in these four cases:
  - a rebuild begun beside a sweep does not wait for it (`run_sweep_guarded` asks once): the two index the same
    turns twice, or the rebuild empties what the sweep has just counted as done;
  - `append_turn_pair` reads the file and writes it whole with nothing held: of two writers the first is undone,
    and an indexed turn is missing from the file;
  - an entry the walk cannot read is no failure, so a rebuild that wiped the index and never saw a chat's file
    is stamped clean (the reap is withheld, the stamp is not);
  - a model chosen while a rebuild runs: chunks of the old one are stamped as of the new.

  Left out altogether: how a chat is filed and the review a later sweep re-opens after a rebuild that failed
  half-way; a title changed between the plan and the birth of the document; a first append that fails, after
  which no sweep looks at the chat until another turn is recorded; a file deleted outside PM; a chat file that
  cannot be read for a moment, which the rebuild takes for another document; a choice of another model and back
  after a failed rebuild, which leaves a stamp that is true of nothing. The other documents of the vault are
  only there to fail a pass.

**Not modelled**: everything in the first table without a module, and the parts `PROJECT.json` lists as
`not_modelled`, with the reason for each. They are sequential commands under one database lock, conversions,
ranking arithmetic, cryptography, platform wiring and I/O; the backups are the ones with an order of steps
worth a module.

## Plan

Done: the series run with its proofs, the settle, the journal, the lock, the vault's migration, the connector
syncs, the local slot, the calendar mirror, the one-off writes, the mods' ledger, the chat index, the vault writes.
Left: **Backups**, the gates of the schedule and the promotion of a restore.

Theorems worth proving next: with a module for the backups, its own invariant. Of what the runs check now, what has
no theorem is listed under *What is only model-checked*.

## Running it

```
tlc -workers 2 -config split.cfg MCSeriesRun.tla
tlc -workers 2 -config stored.cfg MCStored.tla
tlapm SeriesRunSafety.tla
tlapm SeriesRunEnds.tla
tlapm SettleProofs.tla
tlapm WorkProofs.tla
tlapm VaultProofs.tla
tlapm WritesProofs.tla
tlapm StoredProofs.tla
tlapm FilingProofs.tla
```

The proofs of FilingProofs take about ten minutes on four cores, the others together about as long.

`PROJECT.json` gives the module and the configuration of every run.
