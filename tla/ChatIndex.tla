----------------------------- MODULE ChatIndex -----------------------------
(***************************************************************************)
(* A chat and its index (chat.rs, chat_index.rs, and the chat's part of a  *)
(* rebuild: ingest.rs, commands/archivist.rs).  Each completed turn is     *)
(* appended to the chat's file; a sweep appends what lies past the cursor  *)
(* to the chat's document; a rebuild empties the document and indexes the  *)
(* chat again.  None of them holds the database while it embeds or touches *)
(* the file.                                                               *)
(*                                                                         *)
(* One chat of a vault that holds other documents too.  A turn is its      *)
(* number; the chunks of one commit are the turns they were made from, in  *)
(* whose order they stand, and the configuration they were made under.     *)
(* Crashes and rebuilds are unbounded: the pass ids of two    *)
(* rebuilds differ, and only "is it the marker's" is ever asked of one.    *)
(***************************************************************************)
EXTENDS Naturals, Sequences

CONSTANTS
  MaxTurns,  \* bound: the turns of the chat
  Gaps       \* the cases known to break the index happen too: a rebuild
             \* begins beside a sweep, two writers are inside the file at
             \* once, the walk of a rebuild misses the file, another model is
             \* chosen during a rebuild

ASSUME ChatAssumption == MaxTurns \in Nat /\ Gaps \in BOOLEAN

VARIABLES
  chat,       \* the rows of conversations, messages and chat_sessions
  document,   \* the chat's documents row, and the chunks of each commit,
              \* by their ordinals
  transcript, \* the chat's file: whether it is there, and its turns
  recording,  \* record_turn_pair: where it is, its turn, what it read
  indexing,   \* index_session, as the sweep and as the rebuild run it
  rebuild,    \* rebuild_core: where it is, and whether a file failed
  store,      \* the resume marker, the retrieval stamp, the vectors' width
  config      \* what PM would index with now: 2 after a new model or build

chatVars == <<chat, document, transcript, recording, indexing, rebuild, store, config>>

AllTurns == 1..MaxTurns
Indexers == {"sweep", "rebuild"}
Configs == 1..2
NoDocument == [there |-> FALSE, done |-> FALSE, chunks |-> <<>>]
NoRecording == [at |-> "idle", turn |-> 0, copy |-> {}]
NoIndexing == [at |-> "idle", from |-> 0, upto |-> 0, todo |-> 0, copy |-> {}, document |-> FALSE, config |-> 0]
Substantive(upto) == (1..upto) \ chat.small  \* chat::triviality

ChatTypeOK ==
  /\ chat \in [there : BOOLEAN, said : 0..MaxTurns, small : SUBSET AllTurns,
               session : BOOLEAN, cursor : 0..MaxTurns, document : BOOLEAN]
  /\ document \in [there : BOOLEAN, done : BOOLEAN,
                  chunks : Seq([turns : SUBSET AllTurns, config : Configs])]
  /\ transcript \in [there : BOOLEAN, turns : SUBSET AllTurns]
  /\ recording \in [at : {"idle", "read", "write", "row"}, turn : 0..MaxTurns, copy : SUBSET AllTurns]
  /\ indexing \in [Indexers -> [at : {"idle", "read", "write", "resolve", "commit"},
       from : 0..MaxTurns, upto : 0..MaxTurns, todo : 0..(MaxTurns + 1), copy : SUBSET AllTurns,
       document : BOOLEAN, config : 0..2]]
  /\ rebuild \in [at : {"off", "woken", "wipe", "resize", "walk", "file", "index", "settle", "stamp", "clear"},
                  failed : BOOLEAN]
  /\ store \in [marker : 0..2, stamp : Configs, fits : BOOLEAN]
  /\ config \in Configs

ChatInit ==
  /\ chat = [there |-> TRUE, said |-> 0, small |-> {}, session |-> FALSE, cursor |-> 0, document |-> FALSE]
  /\ document = NoDocument
  /\ transcript = [there |-> FALSE, turns |-> {}]
  /\ recording = NoRecording
  /\ indexing = [w \in Indexers |-> NoIndexing]
  /\ rebuild = [at |-> "off", failed |-> FALSE]
  /\ store = [marker |-> 0, stamp |-> 1, fits |-> TRUE]
  /\ config = 1

Inside == recording.at = "write" \/ \E w \in Indexers : indexing[w].at = "write"
MayEnter == ~Inside \/ Gaps
Holding(turns) == transcript' = [there |-> TRUE, turns |-> turns]
elsewhere == <<rebuild, store, config>>

-----------------------------------------------------------------------------
(* record_turn_pair, after the reply of a turn is committed; what it needs *)
(* of the rows it reads at once.  One turn at a time.                       *)
Says(small) ==
  /\ chat.there /\ chat.said < MaxTurns /\ recording = NoRecording
  /\ chat' = [chat EXCEPT !.said = @ + 1, !.small = IF small THEN @ \cup {chat.said + 1} ELSE @]
  /\ recording' = [NoRecording EXCEPT !.at = "read", !.turn = chat.said + 1]
  /\ UNCHANGED <<document, transcript, indexing, elsewhere>>

(* append_turn_pair, in two: it reads the file, and writes it whole.        *)
ReadsFile ==
  /\ recording.at = "read"
  /\ IF recording.turn \in transcript.turns
       THEN recording' = [recording EXCEPT !.at = "row"]
       ELSE /\ MayEnter
            /\ recording' = [recording EXCEPT !.at = "write", !.copy = transcript.turns]
  /\ UNCHANGED <<chat, document, transcript, indexing, elsewhere>>

WritesFile ==
  /\ recording.at = "write"
  /\ Holding(recording.copy \cup {recording.turn})
  /\ recording' = [recording EXCEPT !.at = "row", !.copy = {}]
  /\ UNCHANGED <<chat, document, indexing, elsewhere>>

(* ensure_session; of a chat that is gone it is refused.                    *)
EnsuresSession ==
  /\ recording.at = "row" /\ recording' = NoRecording
  /\ chat' = [chat EXCEPT !.session = chat.there]
  /\ UNCHANGED <<document, transcript, indexing, elsewhere>>

RecordFails ==
  /\ recording # NoRecording /\ recording' = NoRecording
  /\ UNCHANGED <<chat, document, transcript, indexing, elsewhere>>

-----------------------------------------------------------------------------
(* index_session, of w.  A failure leaves the cursor where it was.          *)
Past == chat.session /\ chat.cursor < chat.said
Plan(w) ==
  indexing' = [indexing EXCEPT ![w] =
    [NoIndexing EXCEPT !.at = "read", !.from = chat.cursor + 1, !.upto = chat.said,
                       !.todo = chat.cursor + 1, !.document = chat.document]]
IsAt(w, at) == indexing[w].at = at
SetsIndexing(w, i) == indexing' = [indexing EXCEPT ![w] = i]
PairDone(w) ==
  [indexing[w] EXCEPT !.at = IF indexing[w].todo = indexing[w].upto THEN "resolve" ELSE "read",
                      !.todo = @ + 1, !.copy = {}]

(* The rebuild goes on to what is left of rebuild_chat, or counts a file    *)
(* that failed.                                                             *)
Returns(w, failed) ==
  rebuild' = IF w = "sweep" THEN rebuild
             ELSE IF failed THEN [at |-> "stamp", failed |-> TRUE] ELSE [rebuild EXCEPT !.at = "settle"]

(* run_sweep_guarded, reconcile_chat_index                                  *)
SweepBegins ==
  /\ rebuild.at \in {"off", "woken"} /\ indexing["sweep"] = NoIndexing
  /\ Past /\ Plan("sweep")
  /\ UNCHANGED <<chat, document, transcript, recording, elsewhere>>

ReconcileReads(w) ==
  /\ IsAt(w, "read")
  /\ IF indexing[w].todo \in transcript.turns
       THEN SetsIndexing(w, PairDone(w))
       ELSE MayEnter /\ SetsIndexing(w, [indexing[w] EXCEPT !.at = "write", !.copy = transcript.turns])
  /\ UNCHANGED <<chat, document, transcript, recording, elsewhere>>

ReconcileWrites(w) ==
  /\ IsAt(w, "write")
  /\ Holding(indexing[w].copy \cup {indexing[w].todo})
  /\ SetsIndexing(w, PairDone(w))
  /\ UNCHANGED <<chat, document, recording, elsewhere>>

(* The model that is selected now; a width the index cannot hold is refused *)
(* (guard_dimension).  Embedding follows, off the lock.                     *)
Resolves(w) ==
  /\ IsAt(w, "resolve") /\ store.fits
  /\ SetsIndexing(w, [indexing[w] EXCEPT !.at = "commit", !.config = config])
  /\ UNCHANGED <<chat, document, transcript, recording, elsewhere>>

(* commit_session_index_mode, one transaction.                              *)
\* Mutant: the chat is not looked for again before its chunks land.
StillThereUnasked == TRUE
StillThere == chat.there
Segments(i) == (i.from..i.upto) \ chat.small
LandsChunks(i, segments) ==
  /\ chat' = [chat EXCEPT !.cursor = i.upto, !.document = @ \/ segments # {}]
  /\ document' = IF segments = {} THEN document
                 ELSE [document EXCEPT !.there = TRUE,
                                       !.chunks = Append(@, [turns |-> segments, config |-> i.config])]
(* A document that was to be born is there, or one to append to is not.     *)
Refused(i, segments) == segments # {} /\ i.document # document.there

Commits(w) ==
  /\ IsAt(w, "commit") /\ SetsIndexing(w, NoIndexing)
  /\ LET i == indexing[w] segments == Segments(i) IN
       IF StillThere /\ ~Refused(i, segments)
         THEN LandsChunks(i, segments) /\ Returns(w, FALSE)
         ELSE UNCHANGED <<chat, document>> /\ Returns(w, StillThere)
  /\ UNCHANGED <<transcript, recording, store, config>>

IndexingFails(w) ==
  /\ indexing[w] # NoIndexing /\ SetsIndexing(w, NoIndexing) /\ Returns(w, TRUE)
  /\ UNCHANGED <<chat, document, transcript, recording, store, config>>

-----------------------------------------------------------------------------
(* rebuild_core, rebuild_passes and ingest::rebuild.  A rebuild has the     *)
(* marker name its pass and its configuration before it changes anything.   *)
others == <<transcript, recording, indexing, config>>
Begins(done) ==
  /\ indexing["sweep"] = NoIndexing \/ Gaps
  /\ rebuild' = [at |-> "wipe", failed |-> FALSE]
  /\ store' = [store EXCEPT !.marker = config]
  /\ document' = [document EXCEPT !.done = done]
  /\ UNCHANGED <<chat, others>>
RebuildAsked == rebuild.at \in {"off", "woken"} /\ Begins(FALSE)

(* resume_rebuild, once after a start: on with the marker's pass, unless    *)
(* PM would index differently now.                                          *)
Resumable == store.marker = config
Resumed == rebuild.at = "woken" /\ Begins(document.done /\ Resumable)

Moves(from, to) == rebuild.at = from /\ rebuild' = [rebuild EXCEPT !.at = to]

WipeDocuments ==
  /\ Moves("wipe", IF store.fits THEN "walk" ELSE "resize")
  /\ IF store.fits THEN UNCHANGED <<chat, document>>
     ELSE chat' = [chat EXCEPT !.document = FALSE] /\ document' = NoDocument
  /\ UNCHANGED <<store, others>>
ResizeVectors ==
  /\ Moves("resize", "walk")
  /\ store' = [store EXCEPT !.fits = TRUE]
  /\ UNCHANGED <<chat, document, others>>
WalkVault ==
  /\ \/ Moves("walk", IF transcript.there THEN "file" ELSE "stamp")
     \/ Gaps /\ Moves("walk", "stamp")
  /\ UNCHANGED <<chat, document, store, others>>

(* The resume check, then rebuild_chat: it empties the document in place,   *)
(* puts the cursor back, and indexes.                                       *)
SkipsFile ==
  /\ document.done /\ Moves("file", "stamp")
  /\ UNCHANGED <<chat, document, store, others>>
ClearsChat ==
  /\ ~document.done /\ transcript.there /\ Moves("file", "index")
  /\ chat' = [chat EXCEPT !.cursor = 0]
  /\ document' = [document EXCEPT !.chunks = <<>>]
  /\ UNCHANGED <<store, others>>
IndexesChat ==
  /\ rebuild.at = "index" /\ indexing["rebuild"] = NoIndexing
  /\ IF Past THEN Plan("rebuild") /\ UNCHANGED rebuild
     ELSE Moves("index", "settle") /\ UNCHANGED indexing
  /\ UNCHANGED <<chat, document, transcript, recording, store, config>>

(* A document left without a chunk goes; another is the pass's.             *)
SettlesChat ==
  /\ Moves("settle", "stamp")
  /\ IF document.chunks = <<>>
       THEN chat' = [chat EXCEPT !.document = FALSE] /\ document' = NoDocument
       ELSE document' = [document EXCEPT !.done = TRUE] /\ UNCHANGED chat
  /\ UNCHANGED <<store, others>>
FileFails ==
  /\ rebuild.at \in {"file", "settle"}
  /\ rebuild' = [at |-> "stamp", failed |-> TRUE]
  /\ UNCHANGED <<chat, document, store, others>>

(* The stamp is for a pass in which nothing failed, the other documents     *)
(* included; the marker goes once the pass is over.                         *)
WritesStamp(clean) ==
  /\ Moves("stamp", "clear")
  /\ store' = [store EXCEPT !.stamp = IF clean /\ ~rebuild.failed THEN config ELSE @]
  /\ UNCHANGED <<chat, document, others>>
ClearsMarker ==
  /\ Moves("clear", "off")
  /\ store' = [store EXCEPT !.marker = 0]
  /\ UNCHANGED <<chat, document, others>>
RebuildErrs ==
  /\ rebuild.at \in {"wipe", "resize", "walk", "stamp"}
  /\ rebuild' = [at |-> "off", failed |-> FALSE]
  /\ UNCHANGED <<chat, document, store, others>>

-----------------------------------------------------------------------------
(* delete_conversation_inner: the rows in one transaction, then the file,   *)
(* which may be left behind.                                                *)
DeletesChat(unlinked) ==
  /\ chat.there
  /\ chat' = [there |-> FALSE, said |-> 0, small |-> {}, session |-> FALSE, cursor |-> 0, document |-> FALSE]
  /\ document' = IF chat.document THEN NoDocument ELSE document
  /\ transcript' = IF chat.session /\ unlinked THEN [there |-> FALSE, turns |-> {}] ELSE transcript
  /\ UNCHANGED <<recording, indexing, elsewhere>>

(* set_vault_embedder: the vectors of the other model have another width.   *)
ChoosesModel ==
  /\ config = 1 /\ config' = 2
  /\ rebuild.at \in {"off", "woken"} \/ Gaps
  /\ store' = [store EXCEPT !.fits = FALSE]
  /\ UNCHANGED <<chat, document, transcript, recording, indexing, rebuild>>

(* PM stops anywhere, and starts again, maybe as a build that splits text   *)
(* differently.                                                             *)
StopsAndStarts(updated) ==
  /\ recording' = NoRecording
  /\ indexing' = [w \in Indexers |-> NoIndexing]
  /\ rebuild' = [at |-> IF store.marker = 0 THEN "off" ELSE "woken", failed |-> FALSE]
  /\ config' = IF updated THEN 2 ELSE config
  /\ UNCHANGED <<chat, document, transcript, store>>

ChatNext ==
  \/ \E small \in BOOLEAN : Says(small)
  \/ ReadsFile \/ WritesFile \/ EnsuresSession \/ RecordFails
  \/ SweepBegins
  \/ \E w \in Indexers : ReconcileReads(w) \/ ReconcileWrites(w) \/ Resolves(w) \/ Commits(w) \/ IndexingFails(w)
  \/ RebuildAsked \/ Resumed \/ WipeDocuments \/ ResizeVectors \/ WalkVault
  \/ SkipsFile \/ ClearsChat \/ IndexesChat \/ SettlesChat \/ FileFails
  \/ \E clean \in BOOLEAN : WritesStamp(clean)
  \/ ClearsMarker \/ RebuildErrs
  \/ \E unlinked \in BOOLEAN : DeletesChat(unlinked)
  \/ ChoosesModel
  \/ \E updated \in BOOLEAN : StopsAndStarts(updated)

ChatSpec == ChatInit /\ [][ChatNext]_chatVars

-----------------------------------------------------------------------------
(* No document of a chat that is gone: it would be found by every search   *)
(* and belong to nothing.                                                   *)
NoOrphan ==
  /\ document.there => chat.there
  /\ chat.document <=> document.there

(* Every turn at most once, in their order, none past the cursor, none that *)
(* is small talk.                                                           *)
Landed == 1..Len(document.chunks)
InOrder ==
  /\ \A m, n \in Landed : m < n =>
       \A t \in document.chunks[m].turns, u \in document.chunks[n].turns : t < u
  /\ \A n \in Landed : document.chunks[n].turns \subseteq Substantive(chat.cursor)

(* While the stamp is of what PM would index with now, the user is not      *)
(* asked to rebuild: the document then has every turn up to the cursor, and *)
(* none as an older configuration made it.                                  *)
IndexIsCurrent ==
  /\ UNION {document.chunks[n].turns : n \in Landed} = Substantive(chat.cursor)
  /\ \A n \in Landed : document.chunks[n].config = config
StampIsTrue == store.stamp = config => IndexIsCurrent

(* An indexed turn is in the file, which a rebuild reads.                   *)
FileHoldsIndexed == chat.there => 1..chat.cursor \subseteq transcript.turns

(* A chat's index matches the chat at every step of a turn's recording, a   *)
(* sweep, a rebuild, a delete and a crash: commit_session_index_mode lands  *)
(* chunks and cursor together and finds the chat still there, each turn is  *)
(* appended to the file before it is indexed, and a rebuild that failed, or *)
(* was stopped and resumed as another build, leaves no stamp.               *)
IndexMatches == NoOrphan /\ InOrder /\ StampIsTrue /\ FileHoldsIndexed
=============================================================================
