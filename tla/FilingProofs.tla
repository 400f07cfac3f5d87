---------------------------- MODULE FilingProofs ----------------------------
(***************************************************************************)
(* Theorems about a document's filing.  Two invariants hold together: with *)
(* FilingInv the files are in step with the rows, but for what a crash, a  *)
(* start or a flush has left apart and nothing has set right since,        *)
(* whatever sync, delete, promotion, rebuild and crash do beside a pass,   *)
(* as long as nothing reads a file's filing, or the manifest, and writes   *)
(* it after somebody else did (Minds; TLC finds each of its gaps to break  *)
(* TruthInStep, so it cannot be weaker); with KeptInv, when no gap is open *)
(* at all, no filing is replaced by an older one and no document is lost   *)
(* but by a merge that could not read the manifest.  Each action has one   *)
(* lemma, with one step for every part of the invariants it can disturb.   *)
(***************************************************************************)
EXTENDS VaultWrites, SequenceTheorems, TLAPS

(* What a pass has replaced, whatever the order. *)
Stack == {pass.written[i] : i \in DOMAIN pass.written}
Stacked(x) == \E e \in Stack : e.of = x

\* where a pass is, and where the start of PM is
Writing == {"docs", "merge", "push", "rules", "commit", "undo"}
Opening == {"fold", "mark", "strip", "reconcile"}

-----------------------------------------------------------------------------
(* Types, with the bounds of the runs taken off.                           *)

AnyRow == [kind : {"none", "file", "pointer"}, filing : Nat, seen : Nat]
AnyItem == [filing : Nat, seen : Nat]
Undoes ==
  [of : Docs, was : Nat] \cup [of : {"manifest"}, was : [Docs -> AnyItem]] \cup [of : {"rules"}, was : Nat]
Passes ==
  [at : Writing \cup Opening \cup {"idle", "drop"}, no : Nat, todo : SUBSET Docs, drops : SUBSET Docs,
   names : BOOLEAN, defers : BOOLEAN, written : Seq(Undoes), copy : [Docs -> AnyItem],
   rows : [Docs -> AnyRow], mirror : Nat, stale : BOOLEAN]
Tidies == [at : {"idle", "unlink", "read", "write"}, docs : SUBSET Docs, copy : [Docs -> AnyItem]]
Promotes == [at : {"idle", "write", "swap"}, docs : SUBSET Docs, filing : Nat]
Walks ==
  [at : {"off", "files", "upsert", "list", "restore"}, pending : BOOLEAN, todo : SUBSET Docs,
   done : SUBSET Docs, docs : SUBSET Docs, filing : Nat, items : [Docs -> AnyItem]]

Typed ==
  /\ rows \in [Docs -> AnyRow] /\ mirror \in Nat /\ stale \in BOOLEAN
  /\ files \in [Docs -> Nat] /\ manifest \in [Docs -> AnyItem] /\ rules \in Nat
  /\ pass \in Passes /\ last \in Nat /\ tidy \in Tidies /\ promote \in Promotes /\ walk \in Walks
  /\ unflushed \in BOOLEAN /\ up \in BOOLEAN /\ crashes \in Nat
  /\ kept \in [Docs -> AnyItem] /\ struck \subseteq Docs /\ unread \subseteq Docs
  /\ torn \subseteq Docs \cup {"rules", "manifest"}

-----------------------------------------------------------------------------
(* The invariant behind TruthInStep.                                       *)

\* no filing is newer than the last pass
Bounded ==
  /\ last > 0
  /\ \A d \in Docs : rows[d].filing <= last /\ files[d] <= last /\ manifest[d].filing <= last
  /\ \A e \in Stack : /\ e.of \in Docs => e.was <= last
                      /\ e.of = "manifest" => \A d \in Docs : e.was[d].filing <= last

\* m is a manifest the pointers' rows agree with, but for what is marked as behind
Fits(m) ==
  \A d \in Docs :
    rows[d].kind = "pointer" => unflushed \/ stale \/ "manifest" \in torn \/ m[d] \in {Nothing, Item(rows[d])}

(* The guard is held by one at a time: a pass with its number, a flush or  *)
(* the start of PM; who does not hold it has nothing in hand, and a crash  *)
(* or the start leaves nothing in anybody's.                               *)
Held ==
  /\ pass.no = 0 => Stack = {} /\ pass.todo = {} /\ pass.at \in {"idle", "push", "drop"} \cup Opening
  /\ pass.no # 0 => pass.at \in Writing /\ pass.no = last
  /\ ~up => pass.at = "idle"
  /\ ~up \/ pass.at \in Opening => tidy.at = "idle" /\ promote.at = "idle" /\ walk.at = "off"
  /\ pass.no = 0 /\ pass.at \notin {"drop", "mark", "strip"} => pass.drops = {}
  /\ tidy.at = "idle" => tidy.docs = {}
  /\ promote.at = "idle" => promote.docs = {}
  /\ walk.at # "upsert" => walk.docs = {}
  /\ walk.at # "restore" => walk.items = NoItems

(* What a delete, a promotion, a rebuild and the guard have in hand        *)
(* between two of their steps is still what they took it for.              *)

\* a document to be struck, or to be unlinked, is no pointer's any more
TidyHand ==
  \A d \in tidy.docs :
    /\ rows[d].kind # "pointer"
    /\ tidy.at = "unlink" => rows[d].kind = "none"
    /\ walk.items[d] # Nothing => rows[d].kind = "file"
    /\ d \notin walk.docs \cup promote.docs

\* the filing a promotion copies is the row's, and then the file's
PromoteHand ==
  \A d \in promote.docs :
    /\ rows[d].kind = "pointer" /\ rows[d].filing = promote.filing
    /\ promote.at = "swap" => files[d] = promote.filing
    /\ d \notin walk.docs

\* the filing a rebuild has read is still in the file
WalkHand == \A d \in walk.docs : files[d] = walk.filing

\* a pass does not touch what a rebuild or a promotion has in hand
HandsOff ==
  \A d \in walk.docs \cup promote.docs :
    d \notin pass.todo \cup pass.drops /\ ~Stacked(d) /\ (pass.no # 0 => pass.rows[d] = rows[d])

\* what is dropped is not about to be restored
DropHand ==
  \A d \in pass.drops :
    walk.items[d] = Nothing /\ (pass.at \in {"drop", "mark", "strip"} => rows[d].kind = "none")

\* what a rebuild restores is what the manifest still says, if it says anything
ItemHand ==
  \A d \in Docs :
    rows[d].kind = "none" /\ walk.items[d] # Nothing =>
      manifest[d] \in {Nothing, walk.items[d]} /\ walk.items[d].filing <= last

\* the manifest a strike has read is the manifest it writes over
CopyHand == tidy.at = "write" => tidy.copy = manifest

(* The transaction of a pass against the rows: a document is as it was, or *)
(* it has the pass's filing and the file or the manifest to go with it.    *)

PassOld == pass.no # 0 => \A d \in Docs : rows[d].filing < pass.no
PassTodo == pass.no # 0 => \A d \in pass.todo : There(d) /\ pass.rows[d] = rows[d] /\ ~Stacked(d)
PassDrops ==
  pass.no # 0 => \A d \in pass.drops : There(d) /\ pass.rows[d] = NoRow /\ d \notin pass.todo /\ ~Stacked(d)
PassDone ==
  pass.no # 0 /\ pass.at # "undo" =>
    \A d \in Docs \ pass.drops :
      \/ pass.rows[d] = rows[d] /\ ~Stacked(d)
      \/ /\ pass.rows[d] = [kind |-> rows[d].kind, filing |-> pass.no, seen |-> rows[d].seen]
         /\ \/ rows[d].kind = "file" /\ Stacked(d) /\ files[d] = pass.no
            \/ rows[d].kind = "pointer" /\ ~Stacked(d) /\ pass.defers

\* a pass that changed a pointer's filing commits with the manifest written
PassManifest ==
  pass.no # 0 =>
    /\ pass.at \in {"merge", "push"} => pass.defers
    /\ pass.at \in {"docs", "merge", "push"} => pass.stale = stale /\ ~Stacked("manifest")
    /\ pass.at \in {"rules", "commit"} /\ pass.defers =>
         /\ \A d \in Docs : pass.rows[d].kind = "pointer" => manifest[d] = Item(pass.rows[d])
         /\ tidy.at # "write" /\ pass.stale = FALSE
    /\ pass.at \in {"rules", "commit"} /\ ~pass.defers => pass.stale = stale /\ ~Stacked("manifest")

\* a pass that names projects commits with the rules written
PassRules ==
  pass.no # 0 =>
    /\ pass.names \/ pass.mirror = mirror
    /\ pass.at = "commit" => rules = pass.mirror \/ (~pass.names /\ "rules" \in torn)
    /\ pass.at \notin {"commit", "undo"} => ~Stacked("rules")

\* between the merge and the write nobody else writes the manifest; what the
\* merge could not read is not in it
PassPushes ==
  pass.at = "push" =>
    /\ tidy.at # "write"
    /\ LET from == IF pass.no = 0 THEN rows ELSE pass.rows IN
       \E m \in {manifest, NoItems} :
         /\ pass.copy = Merged(from, m)
         /\ \A d \in Docs : from[d].kind = "none" /\ m[d] # manifest[d] => d \in unread

(* What an undo puts back is what the rows, the mirror and the manifest    *)
(* said, and it puts each back once.                                       *)

UndoesFiles ==
  \A e \in Stack : e.of \in Docs => rows[e.of].kind = "file" /\ (e.was = rows[e.of].filing \/ e.of \in torn)
UndoesRules == \A e \in Stack : e.of = "rules" => e.was = mirror \/ "rules" \in torn
UndoesManifest ==
  \A e \in Stack : e.of = "manifest" =>
    /\ tidy.at # "write" /\ Fits(e.was)
    /\ \A d \in Docs : rows[d].kind # "pointer" => manifest[d] \in {Nothing, e.was[d]}
    /\ \A d \in Docs : rows[d].kind = "none" /\ walk.items[d] # Nothing => e.was[d] \in {Nothing, walk.items[d]}
    /\ \A d \in struck : e.was[d] = Nothing
OnceEach ==
  \A i, j \in DOMAIN pass.written : pass.written[i].of = pass.written[j].of => i = j

(* TruthInStep for a database in the middle of anything: each file agrees  *)
(* with its row, or its snapshot is on the stack.                          *)

RulesTrue == up => Stacked("rules") \/ mirror = rules \/ "rules" \in torn
FilesTrue == \A d \in Docs : rows[d].kind = "file" => Stacked(d) \/ files[d] = rows[d].filing \/ d \in torn
ManifestTrue == up /\ pass.at \notin Opening => Stacked("manifest") \/ Fits(manifest)

\* what was struck is in no manifest, and a rebuild will not bring it back
Unghosted ==
  \A d \in struck :
    /\ manifest[d] = Nothing /\ rows[d].kind # "pointer"
    /\ walk.items[d] # Nothing => rows[d].kind = "file"

FilingInv ==
  /\ Typed /\ Bounded /\ Held /\ TidyHand /\ PromoteHand /\ WalkHand /\ HandsOff /\ DropHand
  /\ ItemHand /\ CopyHand /\ PassOld /\ PassTodo /\ PassDrops /\ PassDone /\ PassManifest
  /\ PassRules /\ PassPushes /\ UndoesFiles /\ UndoesRules /\ UndoesManifest /\ OnceEach
  /\ RulesTrue /\ FilesTrue /\ ManifestTrue /\ Unghosted

-----------------------------------------------------------------------------
(* The invariant behind Kept and Findable, when no gap is open: every      *)
(* place a filing can come back from has one, and none an older one than   *)
(* PM has answered for.                                                    *)

\* a filing there is has a number
RowsPositive == \A d \in Docs : There(d) => rows[d].filing > 0
FilesPositive == \A d \in Docs : rows[d].kind = "file" => files[d] > 0
WalkPositive == \A d \in walk.docs : walk.filing > 0
Entries(m) == \A d \in Docs : m[d] # Nothing => m[d].filing > 0
EntriesPositive == Entries(manifest) /\ Entries(walk.items)
UndoesPositive ==
  \A e \in Stack : (e.of = "manifest" => Entries(e.was)) /\ (e.of \in Docs => e.was > 0)

\* i is as new as k
AtLeast(i, k) == i.filing >= k.filing /\ i.seen >= k.seen

\* the rows are believed before the manifest, or are about to be
Ahead == stale \/ pass.at = "mark"

\* where the manifest m would be believed, it is as new as what PM answered for
NotOlder(m) ==
  \A d \in Docs :
    /\ m[d] # Nothing /\ (rows[d].kind = "none" \/ (rows[d].kind = "pointer" /\ ~Ahead)) => AtLeast(m[d], kept[d])
    /\ m[d] = Nothing /\ rows[d].kind = "pointer" /\ ~Ahead => kept[d] = Nothing \/ d \in unread

\* so is what a rebuild restores, ...
ItemsKept ==
  \A d \in Docs :
    rows[d].kind = "none" /\ walk.items[d] # Nothing =>
      AtLeast(walk.items[d], kept[d]) /\ (manifest[d] = Nothing => kept[d] = Nothing \/ d \in unread)

\* every row, ...
RowsKept ==
  \A d \in Docs : There(d) =>
    rows[d].filing >= kept[d].filing /\ (rows[d].kind = "pointer" => rows[d].seen >= kept[d].seen)

\* ... the manifest, ...
ManifestKept == NotOlder(manifest)

\* ... every file, unless a pointer's row comes before it, ...
FilesKept == \A d \in Docs : rows[d].kind # "pointer" /\ files[d] > 0 => files[d] >= kept[d].filing

\* ... and what an undo would put back
UndoesKept ==
  \A e \in Stack : (e.of = "manifest" => NotOlder(e.was)) /\ (e.of \in Docs => e.was >= kept[e.of].filing)
KeptBounded == \A d \in Docs : kept[d].filing <= last

\* a document that was not deleted can be found
Found ==
  \A d \in Docs : kept[d].filing > 0 => There(d) \/ files[d] > 0 \/ manifest[d] # Nothing \/ d \in unread

\* what is unlinked or struck was deleted, or has its file
TidyFound ==
  \A d \in tidy.docs : rows[d].kind = "none" => kept[d] = Nothing \/ (tidy.at # "unlink" /\ files[d] > 0)

\* and so has what is dropped, or folded away
DropFound == pass.at \in {"drop", "mark", "strip"} => \A d \in pass.drops : kept[d] = Nothing
KeptInv ==
  /\ RowsPositive /\ FilesPositive /\ WalkPositive /\ EntriesPositive /\ UndoesPositive
  /\ RowsKept /\ ItemsKept /\ ManifestKept /\ FilesKept /\ UndoesKept /\ KeptBounded
  /\ Found /\ TidyFound /\ DropFound

\* the numbers among the data, for the arithmetic
Sized ==
  \A d \in Docs :
    /\ kept[d].filing \in Nat /\ kept[d].seen \in Nat /\ manifest[d].filing \in Nat /\ manifest[d].seen \in Nat
    /\ walk.items[d].filing \in Nat /\ walk.items[d].seen \in Nat
    /\ rows[d].filing \in Nat /\ rows[d].seen \in Nat /\ files[d] \in Nat

\* of the gaps, those that put files and rows out of step are closed
Minds == {"row", "forget", "hand", "wipe"} \cap Gaps = {}

\* what the types say, field by field
Shaped ==
  /\ \A d \in Docs :
       /\ rows[d].kind \in {"none", "file", "pointer"} /\ rows[d].filing \in Nat /\ rows[d].seen \in Nat
       /\ rows[d] = [kind |-> rows[d].kind, filing |-> rows[d].filing, seen |-> rows[d].seen]
       /\ pass.rows[d].kind \in {"none", "file", "pointer"} /\ pass.rows[d].filing \in Nat
       /\ files[d] \in Nat /\ manifest[d] \in AnyItem /\ manifest[d].filing \in Nat
       /\ walk.items[d] \in AnyItem /\ kept[d] \in AnyItem
  /\ last \in Nat /\ pass.no \in Nat /\ Stack \subseteq Undoes
  /\ tidy.docs \subseteq Docs /\ promote.docs \subseteq Docs /\ walk.docs \subseteq Docs
  /\ pass.todo \subseteq Docs /\ pass.drops \subseteq Docs /\ struck \subseteq Docs

-----------------------------------------------------------------------------
(* What the types give, and the stack of a pass.                           *)
LEMMA Shapes == ASSUME Typed PROVE Shaped
<1>1. Stack \subseteq Undoes
  BY DEF Typed, Passes, Stack
<1> QED
  BY <1>1 DEF Typed, Shaped, AnyRow, AnyItem, Passes, Tidies, Promotes, Walks

LEMMA ShapesNext == ASSUME Typed' PROVE Shaped'
<1>1. Stack' \subseteq Undoes
  BY DEF Typed, Passes, Stack
<1> QED
  BY <1>1 DEF Typed, Shaped, AnyRow, AnyItem, Passes, Tidies, Promotes, Walks

LEMMA IdleShape ==
  /\ Idle \in Passes /\ Idle.at = "idle" /\ Idle.no = 0 /\ Idle.drops = {} /\ Idle.todo = {}
  /\ Idle.defers = FALSE /\ Idle.written = <<>>
  BY DEF Idle, Passes, NoItems, NoRows, NoRow, Nothing, AnyItem, AnyRow

LEMMA MergedShape ==
  ASSUME NEW from \in [Docs -> AnyRow], NEW m \in [Docs -> AnyItem] PROVE Merged(from, m) \in [Docs -> AnyItem]
  BY DEF Merged, Item, AnyRow, AnyItem

LEMMA NoItemsShape == NoItems \in [Docs -> AnyItem] /\ \A d \in Docs : NoItems[d] = Nothing
  BY DEF NoItems, Nothing, AnyItem

LEMMA StackSame == ASSUME pass'.written = pass.written PROVE Stack' = Stack
  BY DEF Stack

LEMMA StackNone == ASSUME pass.written = <<>> PROVE Stack = {}
  BY DEF Stack

LEMMA StackNoneNext == ASSUME pass'.written = <<>> PROVE Stack' = {}
  BY DEF Stack

LEMMA Plain == "manifest" \notin Docs /\ "rules" \notin Docs
  BY FilingAssumption

\* what a pass notes before it writes, and ...
LEMMA Pushed ==
  ASSUME Typed, NEW e \in Undoes, pass'.written = Append(pass.written, e)
  PROVE  /\ pass'.written \in Seq(Undoes) /\ Stack' = Stack \cup {e}
         /\ OnceEach /\ ~Stacked(e.of) => OnceEach'
<1> DEFINE w == pass.written
<1> DEFINE v == pass'.written
<1>1. w \in Seq(Undoes)
  BY DEF Typed, Passes
<1>2. /\ v \in Seq(Undoes) /\ Len(v) = Len(w) + 1 /\ v[Len(w) + 1] = e
      /\ \A i \in 1..Len(w) : v[i] = w[i]
  BY <1>1
<1>3. DOMAIN w = 1..Len(w) /\ DOMAIN v = 1..(Len(w) + 1) /\ Len(w) \in Nat
  BY <1>1, <1>2
<1> HIDE DEF w, v
<1>4. {v[i] : i \in DOMAIN v} = {w[i] : i \in DOMAIN w} \cup {e}
  BY <1>2, <1>3
<1>5. ASSUME \A i, j \in DOMAIN w : w[i].of = w[j].of => i = j, \A i \in DOMAIN w : w[i].of # e.of
      PROVE  \A i, j \in DOMAIN v : v[i].of = v[j].of => i = j
  BY <1>2, <1>3, <1>5
<1> QED
  BY <1>2, <1>4, <1>5 DEF w, v, Stack, Stacked, OnceEach

\* ... what it takes off again
LEMMA Popped ==
  ASSUME Typed, OnceEach, pass.written # <<>>,
         pass'.written = SubSeq(pass.written, 1, Len(pass.written) - 1)
  PROVE  LET e == pass.written[Len(pass.written)] IN
         /\ e \in Stack /\ Stack' = Stack \ {e} /\ \A f \in Stack : f.of = e.of => f = e
         /\ pass'.written \in Seq(Undoes) /\ OnceEach'
<1> DEFINE w == pass.written
<1> DEFINE v == pass'.written
<1> DEFINE n == Len(w)
<1>1. w \in Seq(Undoes) /\ w # <<>>
  BY DEF Typed, Passes
<1>2. n \in Nat /\ n > 0 /\ DOMAIN w = 1..n /\ \A i \in 1..n : w[i] \in Undoes
  BY <1>1
<1>3. v \in Seq(Undoes) /\ Len(v) = n - 1 /\ \A i \in 1..(n - 1) : v[i] = w[i]
  <2>1. \A i \in 1..(n - 1) : w[i] \in Undoes
    BY <1>2
  <2>2. v = SubSeq(w, 1, n - 1) /\ 1 \in Int /\ n - 1 \in Int
    BY <1>2
  <2> HIDE DEF w, v, n
  <2>3. /\ SubSeq(w, 1, n - 1) \in Seq(Undoes)
        /\ Len(SubSeq(w, 1, n - 1)) = IF 1 <= n - 1 THEN n - 1 - 1 + 1 ELSE 0
        /\ \A i \in 1..(n - 1 - 1 + 1) : SubSeq(w, 1, n - 1)[i] = w[1 + i - 1]
    BY <2>1, <2>2, SubSeqProperties
  <2> QED
    BY <1>2, <2>2, <2>3
<1>4. DOMAIN v = 1..(n - 1)
  BY <1>3
<1>5. \A i, j \in DOMAIN w : w[i].of = w[j].of => i = j
  BY DEF OnceEach
<1> HIDE DEF w, v, n
<1>6. {v[i] : i \in DOMAIN v} = {w[i] : i \in DOMAIN w} \ {w[n]}
  <2>1. \A i \in 1..(n - 1) : w[i] # w[n]
    BY <1>2, <1>5
  <2> QED
    BY <1>2, <1>3, <1>4, <2>1
<1>7. \A i, j \in DOMAIN v : v[i].of = v[j].of => i = j
  BY <1>2, <1>3, <1>4, <1>5
<1>8. w[n] \in {w[i] : i \in DOMAIN w} /\ \A f \in {w[i] : i \in DOMAIN w} : f.of = w[n].of => f = w[n]
  BY <1>2, <1>5
<1> QED
  BY <1>3, <1>6, <1>7, <1>8 DEF w, v, n, Stack, OnceEach

LEMMA Sizes == ASSUME Typed PROVE Sized
  BY DEF Typed, Sized, AnyRow, AnyItem, Walks

LEMMA SizesNext == ASSUME Typed' PROVE Sized'
  BY DEF Typed, Sized, AnyRow, AnyItem, Walks

-----------------------------------------------------------------------------
(* The steps of a pass, one by one: what goes wrong in it, and what each  *)
(* does when it does not.                                                  *)

GoesWrong ==
  /\ pass.no # 0 /\ pass' = [pass EXCEPT !.at = "undo"]
  /\ UNCHANGED <<rows, mirror, stale, files, manifest, rules, last, tidy, promote, walk, unflushed, up,
                 crashes, kept, torn, struck, unread>>

Believed == IF stale THEN Merged(rows, manifest) ELSE manifest
SetRight == Applied(Believed)

Beyond(d, defers) == After(pass.todo \ {d}, defers, pass.names)
Refiled(d) == [pass.rows EXCEPT ![d] = [kind |-> rows[d].kind, filing |-> pass.no, seen |-> rows[d].seen]]
FilePut(d) ==
  /\ pass.at = "docs" /\ d \in pass.todo /\ rows[d].kind = "file"
  /\ pass' = [pass EXCEPT !.todo = @ \ {d}, !.at = Beyond(d, pass.defers), !.rows = Refiled(d),
                          !.written = Append(@, [of |-> d, was |-> files[d]])]
  /\ files' = [files EXCEPT ![d] = pass.no]
  /\ UNCHANGED <<rows, mirror, stale, manifest, rules, last, tidy, promote, walk, unflushed, up,
                 crashes, kept, torn, struck, unread>>
PointerPut(d) ==
  /\ pass.at = "docs" /\ d \in pass.todo /\ rows[d].kind = "pointer"
  /\ pass' = [pass EXCEPT !.todo = @ \ {d}, !.at = Beyond(d, TRUE), !.rows = Refiled(d), !.defers = TRUE]
  /\ UNCHANGED <<rows, mirror, stale, files, manifest, rules, last, tidy, promote, walk, unflushed, up,
                 crashes, kept, torn, struck, unread>>

PushPut ==
  /\ pass.at = "push" /\ pass.no # 0 /\ manifest' = pass.copy
  /\ pass' = [pass EXCEPT !.at = IF pass.names THEN "rules" ELSE "commit", !.stale = FALSE,
                          !.written = Append(@, [of |-> "manifest", was |-> manifest]), !.copy = NoItems]
  /\ UNCHANGED <<rows, mirror, stale, files, rules, last, tidy, promote, walk, unflushed, up, crashes,
                 kept, torn, struck, unread>>
RulesPut ==
  /\ pass.at = "rules" /\ rules' = pass.mirror
  /\ pass' = [pass EXCEPT !.at = "commit", !.written = Append(@, [of |-> "rules", was |-> rules])]
  /\ UNCHANGED <<rows, mirror, stale, files, manifest, last, tidy, promote, walk, unflushed, up,
                 crashes, kept, torn, struck, unread>>
CommitPut ==
  /\ pass.at = "commit"
  /\ rows' = pass.rows /\ mirror' = pass.mirror /\ stale' = pass.stale
  /\ kept' = [d \in Docs |-> IF d \in pass.drops THEN Nothing
                ELSE IF d \in Filed THEN [kept[d] EXCEPT !.filing = pass.no] ELSE kept[d]]
  /\ torn' = torn \ Mended
  /\ pass' = IF pass.drops = {} THEN Idle ELSE [Idle EXCEPT !.at = "drop", !.drops = pass.drops]
  /\ UNCHANGED <<files, manifest, rules, last, tidy, promote, walk, unflushed, up, crashes, struck, unread>>
UndoEnd ==
  /\ pass.at = "undo" /\ pass.written = <<>> /\ pass' = Idle
  /\ UNCHANGED <<rows, mirror, stale, files, manifest, rules, last, tidy, promote, walk, unflushed, up,
                 crashes, kept, torn, struck, unread>>
UndoPut(e) ==
  /\ pass.at = "undo" /\ pass.written # <<>> /\ e = pass.written[Len(pass.written)]
  /\ pass' = [pass EXCEPT !.written = SubSeq(@, 1, Len(@) - 1)]
  /\ files' = IF e.of \in Docs THEN [files EXCEPT ![e.of] = e.was] ELSE files
  /\ manifest' = IF e.of = "manifest" THEN e.was ELSE manifest
  /\ rules' = IF e.of = "rules" THEN e.was ELSE rules
  /\ UNCHANGED <<rows, mirror, stale, last, tidy, promote, walk, unflushed, up, crashes, kept, torn, struck, unread>>

LEMMA WriteDocParts ==
  ASSUME FilingInv, Minds, NEW d \in Docs, WriteDoc(d)
  PROVE  GoesWrong \/ FilePut(d) \/ PointerPut(d)
<1>1. pass.at = "docs" /\ d \in pass.todo /\ pass.no # 0
  BY DEF WriteDoc, FilingInv, Held, Opening
<1>2. rows[d].kind \in {"file", "pointer"}
  BY <1>1, Shapes DEF FilingInv, PassTodo, There, Shaped
<1>3. pass.rows[d] = rows[d]
  BY <1>1 DEF FilingInv, PassTodo
<1>4. PICK outcome \in Outcomes :
        /\ IF outcome = "ok"
             THEN pass' = [pass EXCEPT !.todo = pass.todo \ {d}, !.defers = pass.defers \/ ~(rows[d].kind = "file"),
                    !.rows[d].filing = pass.no,
                    !.at = After(pass.todo \ {d}, pass.defers \/ ~(rows[d].kind = "file"), pass.names),
                    !.written = IF rows[d].kind = "file" THEN Append(@, [of |-> d, was |-> files[d]]) ELSE @]
             ELSE Fail
        /\ files' = IF rows[d].kind = "file" /\ outcome # "fails" THEN [files EXCEPT ![d] = pass.no] ELSE files
  BY DEF WriteDoc, FileOutcomes, Minds
<1>5. UNCHANGED <<rows, mirror, stale, manifest, rules, last, tidy, promote, walk, unflushed, up,
                  crashes, kept, torn, struck, unread>>
  BY DEF WriteDoc
<1>6. CASE outcome # "ok"
  BY <1>1, <1>4, <1>5, <1>6 DEF GoesWrong, Fail, Outcomes
<1>7. [pass.rows EXCEPT ![d].filing = pass.no] = Refiled(d)
  <2>1. rows[d] = [kind |-> rows[d].kind, filing |-> rows[d].filing, seen |-> rows[d].seen]
    BY Shapes DEF FilingInv, Shaped
  <2>2. [rows[d] EXCEPT !.filing = pass.no] = [kind |-> rows[d].kind, filing |-> pass.no, seen |-> rows[d].seen]
    BY <2>1
  <2>3. [pass.rows EXCEPT ![d].filing = pass.no] = [pass.rows EXCEPT ![d] = [pass.rows[d] EXCEPT !.filing = pass.no]]
    OBVIOUS
  <2> QED
    BY <1>3, <2>2, <2>3 DEF Refiled
<1>8. CASE outcome = "ok" /\ rows[d].kind = "file"
  <2>0. (pass.defers \/ ~(rows[d].kind = "file")) = pass.defers
    BY <1>8 DEF FilingInv, Typed, Passes
  <2>1. pass' = [pass EXCEPT !.todo = pass.todo \ {d}, !.defers = pass.defers, !.rows = Refiled(d),
                    !.at = Beyond(d, pass.defers), !.written = Append(@, [of |-> d, was |-> files[d]])]
    BY <1>4, <1>7, <1>8, <2>0 DEF Beyond
  <2>2. pass' = [pass EXCEPT !.todo = @ \ {d}, !.at = Beyond(d, pass.defers), !.rows = Refiled(d),
                          !.written = Append(@, [of |-> d, was |-> files[d]])]
    BY <2>1 DEF FilingInv, Typed, Passes
  <2>3. files' = [files EXCEPT ![d] = pass.no]
    BY <1>4, <1>8
  <2> QED
    BY <1>1, <1>5, <1>8, <2>2, <2>3 DEF FilePut
<1>9. CASE outcome = "ok" /\ rows[d].kind = "pointer"
  <2>1. pass' = [pass EXCEPT !.todo = pass.todo \ {d}, !.defers = TRUE, !.rows = Refiled(d),
                    !.at = Beyond(d, TRUE), !.written = @]
    BY <1>4, <1>7, <1>9 DEF Beyond
  <2>2. pass' = [pass EXCEPT !.todo = @ \ {d}, !.at = Beyond(d, TRUE), !.rows = Refiled(d), !.defers = TRUE]
    BY <2>1 DEF FilingInv, Typed, Passes
  <2>3. files' = files
    BY <1>4, <1>9
  <2> QED
    BY <1>1, <1>5, <1>9, <2>2, <2>3 DEF PointerPut
<1> QED
  BY <1>2, <1>6, <1>8, <1>9

LEMMA PushParts == ASSUME Minds, PushManifest PROVE GoesWrong \/ PushPut
  BY DEF PushManifest, GoesWrong, PushPut, Fail, FileOutcomes, Outcomes, Minds

LEMMA RulesParts == ASSUME FilingInv, WriteRules PROVE GoesWrong \/ RulesPut
  BY DEF WriteRules, GoesWrong, RulesPut, Fail, Outcomes, FilingInv, Held, Opening

LEMMA CommitParts == ASSUME FilingInv, Commit PROVE GoesWrong \/ CommitPut
  BY DEF Commit, GoesWrong, CommitPut, Fail, Outcomes, FilingInv, Held, Opening

LEMMA UndoParts == ASSUME Undo PROVE UndoEnd \/ UndoPut(pass.written[Len(pass.written)])
  BY DEF Undo, UndoEnd, UndoPut

-----------------------------------------------------------------------------
(* A pass.                                                                 *)
LEMMA BeginKeeps ==
  ASSUME FilingInv, Minds, NEW D \in SUBSET Docs, NEW K \in SUBSET Docs, NEW names \in BOOLEAN, Begin(D, K, names)
  PROVE  FilingInv' /\ (Gaps = {} /\ KeptInv => KeptInv')
<1>0. Typed /\ Shaped
  BY Shapes DEF FilingInv
<1>1. up /\ pass.at = "idle" /\ D \cap K = {} /\ (\A d \in D \cup K : There(d)) /\ last' = last + 1
      /\ (D \cup K) \cap (walk.docs \cup promote.docs) = {} /\ \A d \in K : walk.items[d] = Nothing
  BY DEF Begin, GuardFree, Undisturbed, Minds
<1>2. [d \in Docs |-> IF d \in K THEN NoRow ELSE rows[d]] \in [Docs -> AnyRow]
  BY <1>0 DEF NoRow, Typed, AnyRow
<1>3. /\ After(D, FALSE, names) \in {"docs", "rules", "commit"}
      /\ After(D, FALSE, names) = "commit" => ~names
  BY DEF After
<1>4. /\ pass'.at = After(D, FALSE, names) /\ pass'.no = last + 1 /\ pass'.todo = D /\ pass'.drops = K
      /\ pass'.names = names /\ pass'.mirror = IF names THEN last + 1 ELSE mirror
      /\ pass'.defers = FALSE /\ pass'.stale = stale
  BY DEF Begin, Idle
<1>5. pass' = [at |-> After(D, FALSE, names), no |-> last + 1, todo |-> D, drops |-> K, names |-> names,
               defers |-> FALSE, written |-> <<>>, copy |-> NoItems,
               rows |-> [d \in Docs |-> IF d \in K THEN NoRow ELSE rows[d]],
               mirror |-> IF names THEN last + 1 ELSE mirror, stale |-> stale]
  BY DEF Begin, Idle
<1>6. /\ <<>> \in Seq(Undoes) /\ NoItems \in [Docs -> AnyItem]
      /\ last + 1 \in Nat /\ (IF names THEN last + 1 ELSE mirror) \in Nat
  BY <1>0 DEF Typed, NoItems, Nothing, AnyItem
<1>7. After(D, FALSE, names) \in Writing /\ stale \in BOOLEAN
  BY <1>0, <1>3 DEF Writing, Typed
<1>8. pass' \in Passes
  BY <1>2, <1>5, <1>6, <1>7 DEF Passes
<1>9. pass'.no # 0
  BY <1>0, <1>4 DEF Shaped
<1>10. pass'.at \in Writing /\ pass'.at \notin Opening
  BY <1>3, <1>4 DEF Writing, Opening
<1>11. /\ pass'.at \in {"docs", "rules", "commit"} /\ (pass'.at = "commit" => pass'.mirror = mirror)
       /\ (pass'.names \/ pass'.mirror = mirror)
  BY <1>3, <1>4
<1>12. \A d \in Docs : pass'.rows[d] = IF d \in K THEN NoRow ELSE rows[d]
  BY DEF Begin, Idle
<1>13. UNCHANGED <<rows, mirror, stale, files, manifest, rules, tidy, promote, walk, unflushed, up,
                   crashes, kept, torn, struck, unread>>
  BY DEF Begin
<1>14. pass'.written = <<>>
  BY DEF Begin, Idle, Outcomes
<1>15. Stack' = {}
  BY <1>14, StackNoneNext DEF StackNoneNext
<1>t. Typed'
  BY <1>0, <1>1, <1>2, <1>3, <1>4, <1>5, <1>6, <1>7, <1>8, <1>9, <1>10, <1>11, <1>12, <1>13, <1>14,
     <1>15
     DEF Typed
<1>s. Shaped'
  BY <1>t, ShapesNext
<1>u. (TidyHand /\ PromoteHand /\ WalkHand /\ CopyHand /\ Unghosted)'
  BY <1>13 DEF FilingInv, TidyHand, PromoteHand, WalkHand, CopyHand, Unghosted
<1>ItemHand. ItemHand'
  <2>1. \A c \in Docs : walk.items[c].filing \in Nat /\ last \in Nat
    BY <1>0 DEF Shaped, AnyItem
  <2> QED
    BY <1>1, <1>13, <2>1 DEF FilingInv, ItemHand
<1>Held. Held'
  BY <1>0, <1>1, <1>4, <1>9, <1>10, <1>13 DEF FilingInv, Held
<1>HandsOff. HandsOff'
  BY <1>0, <1>s, Plain, <1>1, <1>4, <1>5, <1>6, <1>13, <1>14, <1>15
    DEF FilingInv, HandsOff, Stacked, Shaped
<1>DropHand. DropHand'
  BY <1>1, <1>2, <1>3, <1>4, <1>7, <1>13 DEF FilingInv, DropHand
<1>PassOld. PassOld'
  BY <1>2, <1>3, <1>4, <1>5, <1>6, <1>7, <1>8, <1>9, <1>13
    DEF FilingInv, PassOld, Bounded, Typed, AnyRow
<1>PassTodo. PassTodo'
  BY <1>1, <1>2, <1>5, <1>6, <1>7, <1>13, <1>14, <1>15 DEF FilingInv, PassTodo, Stacked, There
<1>PassDrops. PassDrops'
  BY <1>1, <1>2, <1>5, <1>6, <1>7, <1>13, <1>14, <1>15 DEF FilingInv, PassDrops, Stacked, There
<1>PassDone. PassDone'
  BY <1>2, <1>3, <1>4, <1>5, <1>6, <1>7, <1>8, <1>9, <1>10, <1>11, <1>12, <1>13, <1>14, <1>15
     DEF FilingInv, PassDone, Stacked, There
<1>PassManifest. PassManifest'
  BY <1>2, <1>3, <1>4, <1>5, <1>6, <1>7, <1>8, <1>9, <1>10, <1>11, <1>12, <1>13, <1>14, <1>15
     DEF FilingInv, PassManifest, Stacked
<1>PassRules. PassRules'
  <2>1. Stack = {}
    BY <1>1 DEF FilingInv, Held, Writing
  <2>2. mirror = rules \/ "rules" \in torn
    BY <1>1, <2>1 DEF FilingInv, RulesTrue, Stacked
  <2> QED
    BY <1>3, <1>4, <1>11, <1>13, <1>15, <2>2 DEF PassRules, Stacked
<1>PassPushes. PassPushes'
  BY <1>2, <1>3, <1>4, <1>5, <1>6, <1>7, <1>8, <1>9, <1>10, <1>11, <1>12, <1>13
    DEF FilingInv, PassPushes
<1>UndoesFiles. UndoesFiles'
  BY <1>2, <1>3, <1>5, <1>6, <1>7, <1>8, <1>13, <1>14, <1>15 DEF FilingInv, UndoesFiles, Stacked
<1>UndoesRules. UndoesRules'
  BY <1>2, <1>3, <1>5, <1>6, <1>7, <1>8, <1>13, <1>14, <1>15 DEF FilingInv, UndoesRules
<1>UndoesManifest. UndoesManifest'
  BY <1>2, <1>3, <1>5, <1>6, <1>7, <1>8, <1>13, <1>14, <1>15
     DEF FilingInv, UndoesManifest, Stacked, Fits, Item
<1>OnceEach. OnceEach'
  BY <1>2, <1>3, <1>5, <1>6, <1>7, <1>8, <1>13, <1>14, <1>15 DEF FilingInv, OnceEach, Stacked
<1>RulesTrue. RulesTrue'
  BY <1>1, <1>2, <1>3, <1>13 DEF FilingInv, RulesTrue, Stacked, Held, Opening, Writing
<1>FilesTrue. FilesTrue'
  BY <1>1, <1>2, <1>3, <1>13 DEF FilingInv, FilesTrue, Stacked, Held, Opening, Writing
<1>ManifestTrue. ManifestTrue'
  BY <1>1, <1>2, <1>3, <1>13
    DEF FilingInv, ManifestTrue, Stacked, Fits, Item, Held, Opening, Writing
<1>Bounded. Bounded'
  BY <1>1, <1>2, <1>3, <1>5, <1>6, <1>7, <1>8, <1>13, <1>14, <1>15
     DEF FilingInv, Bounded, Typed, AnyRow, AnyItem
<1>kept. ASSUME Gaps = {}, KeptInv PROVE KeptInv'
  <2>0. Sized /\ Sized'
    BY <1>0, <1>t, Sizes, SizesNext
  <2>u. (RowsPositive /\ FilesPositive /\ WalkPositive /\ EntriesPositive /\ RowsKept /\ ItemsKept /\ FilesKept /\
         Found /\ TidyFound)'
    BY <1>kept, <1>13
       DEF KeptInv, RowsPositive, There, FilesPositive, WalkPositive, EntriesPositive, Entries,
           RowsKept, ItemsKept, AtLeast,
          FilesKept, Found, TidyFound
  <2>UndoesPositive. UndoesPositive'
    BY <1>kept, <1>2, <1>3, <1>5, <1>6, <1>7, <1>8, <1>13, <1>14, <1>15
       DEF KeptInv, UndoesPositive, Entries
  <2>ManifestKept. ManifestKept'
    BY <1>kept, <1>1, <1>13 DEF KeptInv, ManifestKept, NotOlder, AtLeast, Ahead
  <2>UndoesKept. UndoesKept'
    BY <1>kept, <1>2, <1>3, <1>4, <1>5, <1>6, <1>7, <1>8, <1>10, <1>11, <1>13, <1>14, <1>15
       DEF KeptInv, UndoesKept, NotOlder, AtLeast, Ahead
  <2>KeptBounded. KeptBounded'
    BY <1>kept, <1>1, <1>2, <1>3, <1>5, <1>6, <1>7, <1>8, <1>13, <2>0, <1>0
       DEF KeptInv, KeptBounded, FilingInv, Sized, Shaped
  <2>DropFound. DropFound'
    BY <1>kept, <1>2, <1>3, <1>4, <1>5, <1>6, <1>7, <1>8, <1>10, <1>11, <1>13 DEF KeptInv, DropFound
  <2> QED
    BY <2>u, <2>UndoesPositive, <2>ManifestKept, <2>UndoesKept, <2>KeptBounded, <2>DropFound
      DEF KeptInv
<1> QED
  BY <1>kept, <1>t, <1>u, <1>ItemHand, <1>Held, <1>HandsOff, <1>DropHand, <1>PassOld, <1>PassTodo, <1>PassDrops,
     <1>PassDone, <1>PassManifest, <1>PassRules, <1>PassPushes, <1>UndoesFiles, <1>UndoesRules,
     <1>UndoesManifest, <1>OnceEach, <1>RulesTrue, <1>FilesTrue, <1>ManifestTrue, <1>Bounded
     DEF FilingInv

LEMMA GoesWrongKeeps ==
  ASSUME FilingInv, Minds, GoesWrong
  PROVE  FilingInv' /\ (Gaps = {} /\ KeptInv => KeptInv')
<1>0. Typed /\ Shaped
  BY Shapes DEF FilingInv
<1>1. pass.no # 0 /\ pass' \in Passes /\ pass'.at = "undo" /\ pass'.written = pass.written /\ pass'.no = pass.no /\ pass'.todo = pass.todo
     /\ pass'.drops = pass.drops /\ pass'.names = pass.names /\ pass'.defers = pass.defers
     /\ pass'.copy = pass.copy /\ pass'.rows = pass.rows /\ pass'.mirror = pass.mirror
     /\ pass'.stale = pass.stale
  BY <1>0 DEF GoesWrong, Typed, Passes, Writing
<1>2. Stack' = Stack
  BY <1>1, StackSame DEF StackSame
<1>3. UNCHANGED <<rows, mirror, stale, files, manifest, rules, last, tidy, promote, walk, unflushed, up,
                  crashes, kept, torn, struck, unread>>
  BY DEF GoesWrong
<1>t. Typed'
  BY <1>0, <1>1, <1>2, <1>3 DEF Typed
<1>s. Shaped'
  BY <1>t, ShapesNext
<1>u. (TidyHand /\ PromoteHand /\ WalkHand /\ HandsOff /\ ItemHand /\ CopyHand /\ PassOld /\ PassTodo /\
       PassDrops /\ UndoesFiles /\ UndoesRules /\ UndoesManifest /\ OnceEach /\ RulesTrue /\
       FilesTrue /\ Unghosted /\ Bounded)'
  BY <1>1, <1>2, <1>3
     DEF FilingInv, TidyHand, PromoteHand, WalkHand, HandsOff, Stacked, ItemHand, CopyHand, PassOld,
        PassTodo, There, PassDrops, UndoesFiles, UndoesRules, UndoesManifest, Fits, Item, OnceEach,
        RulesTrue, FilesTrue, Unghosted, Bounded
<1>Held. Held'
  BY <1>1, <1>2, <1>3 DEF FilingInv, Held, Opening, Writing
<1>DropHand. DropHand'
  BY <1>1, <1>3 DEF FilingInv, DropHand
<1>PassDone. PassDone'
  BY <1>1, <1>2, <1>3 DEF FilingInv, PassDone, Stacked, There
<1>PassManifest. PassManifest'
  BY <1>1, <1>2, <1>3 DEF FilingInv, PassManifest, Stacked
<1>PassRules. PassRules'
  BY <1>1, <1>2, <1>3 DEF FilingInv, PassRules, Stacked
<1>PassPushes. PassPushes'
  BY <1>1, <1>3 DEF FilingInv, PassPushes
<1>ManifestTrue. ManifestTrue'
  BY <1>1, <1>2, <1>3 DEF FilingInv, ManifestTrue, Stacked, Fits, Item, Held, Opening, Writing
<1>kept. ASSUME Gaps = {}, KeptInv PROVE KeptInv'
  <2>0. Sized /\ Sized'
    BY <1>0, <1>t, Sizes, SizesNext
  <2>u. (RowsPositive /\ FilesPositive /\ WalkPositive /\ EntriesPositive /\ UndoesPositive /\
         RowsKept /\ ItemsKept /\ FilesKept /\ KeptBounded /\ Found /\ TidyFound)'
    BY <1>kept, <1>1, <1>2, <1>3
       DEF KeptInv, RowsPositive, There, FilesPositive, WalkPositive, EntriesPositive, Entries,
          UndoesPositive, RowsKept, ItemsKept, AtLeast, FilesKept, KeptBounded, Found, TidyFound
  <2>ManifestKept. ManifestKept'
    BY <1>kept, <1>1, <1>3
      DEF KeptInv, ManifestKept, NotOlder, AtLeast, Ahead, FilingInv, Held, Writing
  <2>UndoesKept. UndoesKept'
    BY <1>kept, <1>1, <1>2, <1>3
      DEF KeptInv, UndoesKept, NotOlder, AtLeast, Ahead, FilingInv, Held, Writing
  <2>DropFound. DropFound'
    BY <1>kept, <1>1, <1>3 DEF KeptInv, DropFound
  <2> QED
    BY <2>u, <2>ManifestKept, <2>UndoesKept, <2>DropFound DEF KeptInv
<1> QED
  BY <1>kept, <1>t, <1>u, <1>Held, <1>DropHand, <1>PassDone, <1>PassManifest, <1>PassRules,
     <1>PassPushes, <1>ManifestTrue
     DEF FilingInv

LEMMA FilePutKeeps ==
  ASSUME FilingInv, Minds, NEW d \in Docs, FilePut(d)
  PROVE  FilingInv' /\ (Gaps = {} /\ KeptInv => KeptInv')
<1>0. Typed /\ Shaped
  BY Shapes DEF FilingInv
<1>1. pass.at = "docs" /\ d \in pass.todo /\ pass.no # 0 /\ rows[d].kind = "file"
  BY DEF FilePut, FilingInv, Held, Writing, Opening
<1>2. pass.rows[d] = rows[d] /\ ~Stacked(d) /\ d \notin pass.drops /\ d \notin promote.docs \cup walk.docs
  BY <1>1 DEF FilingInv, PassTodo, PassDrops, HandsOff
<1>3. /\ Beyond(d, pass.defers) \in {"docs", "merge", "rules", "commit"}
      /\ Beyond(d, pass.defers) = "merge" => pass.defers
      /\ Beyond(d, pass.defers) \in {"rules", "commit"} => ~pass.defers
      /\ Beyond(d, pass.defers) = "commit" => ~pass.names
  BY DEF Beyond, After
<1>4. /\ Refiled(d) \in [Docs -> AnyRow] /\ (\A c \in Docs \ {d} : Refiled(d)[c] = pass.rows[c])
      /\ Refiled(d)[d] = [kind |-> rows[d].kind, filing |-> pass.no, seen |-> rows[d].seen]
  BY <1>0 DEF Refiled, Typed, Passes, AnyRow
<1>5. [of |-> d, was |-> files[d]] \in Undoes
  BY <1>0 DEF Undoes, Typed
<1>6. /\ pass'.at = Beyond(d, pass.defers) /\ pass'.rows = Refiled(d) /\ pass'.todo = pass.todo \ {d}
      /\ pass'.written = Append(pass.written, [of |-> d, was |-> files[d]])
  BY <1>0 DEF FilePut, Typed, Passes
<1>7. /\ pass'.at \in {"docs", "merge", "rules", "commit"} /\ pass'.todo = pass.todo \ {d}
      /\ pass'.at = "merge" => pass.defers
      /\ pass'.at \in {"rules", "commit"} => ~pass.defers
      /\ pass'.at = "commit" => ~pass.names
  BY <1>3, <1>6
<1>8. pass'.no = pass.no /\ pass'.drops = pass.drops /\ pass'.names = pass.names /\ pass'.defers = pass.defers
     /\ pass'.copy = pass.copy /\ pass'.mirror = pass.mirror /\ pass'.stale = pass.stale
  BY <1>0 DEF FilePut, Typed, Passes
<1>9. pass'.written \in Seq(Undoes) /\ Stack' = Stack \cup {[of |-> d, was |-> files[d]]} /\ OnceEach'
  BY <1>0, <1>2, <1>5, <1>6, Pushed DEF FilingInv
<1>10. Stack' = Stack \cup {[of |-> d, was |-> files[d]]}
  BY <1>9
<1>11. /\ \A c \in Docs \ {d} : pass'.rows[c] = pass.rows[c]
       /\ pass'.rows[d] = [kind |-> rows[d].kind, filing |-> pass.no, seen |-> rows[d].seen]
  BY <1>4, <1>6
<1>12. /\ files' \in [Docs -> Nat] /\ files'[d] = pass.no
       /\ \A c \in Docs \ {d} : files'[c] = files[c]
  BY <1>0 DEF FilePut, Typed, Passes
<1>13. pass' \in Passes
  BY <1>0, <1>3, <1>4, <1>6, <1>8, <1>9 DEF FilePut, Typed, Passes, Writing
<1>14. UNCHANGED <<rows, mirror, stale, manifest, rules, last, tidy, promote, walk, unflushed, up,
                   crashes, kept, torn, struck, unread>>
  BY DEF FilePut
<1>t. Typed'
  BY <1>0, <1>1, <1>2, <1>7, <1>8, <1>10, <1>11, <1>12, <1>13, <1>14 DEF Typed
<1>s. Shaped'
  BY <1>t, ShapesNext
<1>u. (TidyHand /\ ItemHand /\ CopyHand /\ PassOld /\ Unghosted)'
  BY <1>8, <1>14 DEF FilingInv, TidyHand, ItemHand, CopyHand, PassOld, Unghosted
<1>Held. Held'
  BY <1>1, <1>2, <1>7, <1>8, <1>10, <1>13, <1>14 DEF FilingInv, Held, Opening, Writing
<1>PromoteHand. PromoteHand'
  BY <1>1, <1>2, <1>12, <1>13, <1>14, <1>s DEF FilingInv, PromoteHand, Shaped
<1>WalkHand. WalkHand'
  BY <1>1, <1>2, <1>12, <1>13, <1>14, <1>s DEF FilingInv, WalkHand, Shaped
<1>HandsOff. HandsOff'
  BY <1>1, <1>2, <1>7, <1>8, <1>10, <1>11, <1>13, <1>14, <1>s
    DEF FilingInv, HandsOff, Stacked, Shaped
<1>DropHand. DropHand'
  BY <1>1, <1>2, <1>7, <1>8, <1>13, <1>14 DEF FilingInv, DropHand
<1>PassTodo. PassTodo'
  BY <1>1, <1>2, <1>7, <1>8, <1>10, <1>11, <1>13, <1>14, <1>s
    DEF FilingInv, PassTodo, Stacked, There, Shaped
<1>PassDrops. PassDrops'
  BY <1>1, <1>2, <1>7, <1>8, <1>10, <1>11, <1>13, <1>14, <1>s
     DEF FilingInv, PassDrops, Stacked, There, Shaped
<1>PassDone. PassDone'
  <2>1. \A e \in {[of |-> d, was |-> files[d]]} : e.of = d
    OBVIOUS
  <2>2. \A c \in Docs : Stacked(c)' <=> Stacked(c) \/ c = d
    BY <1>10, <2>1 DEF Stacked
  <2>3. ASSUME NEW c \in Docs, c # d, c \notin pass.drops
        PROVE  \/ pass'.rows[c] = rows'[c] /\ ~Stacked(c)'
               \/ /\ pass'.rows[c] = [kind |-> rows'[c].kind, filing |-> pass'.no, seen |-> rows'[c].seen]
                  /\ \/ rows'[c].kind = "file" /\ Stacked(c)' /\ files'[c] = pass'.no
                     \/ rows'[c].kind = "pointer" /\ ~Stacked(c)' /\ pass'.defers
    BY <2>2, <2>3, <1>1, <1>8, <1>11, <1>12, <1>14 DEF FilingInv, PassDone
  <2>4. pass'.rows[d] = [kind |-> rows'[d].kind, filing |-> pass'.no, seen |-> rows'[d].seen]
    BY <1>8, <1>11, <1>14
  <2>5. Stacked(d)'
    BY <2>2
  <2>6. rows'[d].kind = "file" /\ files'[d] = pass'.no
    BY <1>1, <1>8, <1>12, <1>14
  <2> QED
    BY <2>3, <2>4, <2>5, <2>6, <1>8 DEF PassDone
<1>PassManifest. PassManifest'
  BY <1>1, <1>2, <1>7, <1>8, <1>10, <1>11, <1>13, <1>14, Plain DEF FilingInv, PassManifest, Stacked
<1>PassRules. PassRules'
  BY <1>1, <1>2, <1>7, <1>8, <1>10, <1>13, <1>14, Plain
    DEF FilingInv, PassRules, Stacked, RulesTrue, Held
<1>PassPushes. PassPushes'
  BY <1>1, <1>2, <1>7, <1>8, <1>11, <1>13, <1>14 DEF FilingInv, PassPushes
<1>UndoesFiles. UndoesFiles'
  <2>1. files[d] = rows[d].filing \/ d \in torn
    BY <1>1, <1>2 DEF FilingInv, FilesTrue
  <2>2. \A e \in {[of |-> d, was |-> files[d]]} : e.of = d /\ e.was = files[d]
    OBVIOUS
  <2> QED
    BY <2>1, <2>2, <1>1, <1>10, <1>14 DEF FilingInv, UndoesFiles
<1>UndoesRules. UndoesRules'
  BY <1>1, <1>2, <1>10, <1>13, <1>14, Plain DEF FilingInv, UndoesRules
<1>UndoesManifest. UndoesManifest'
  BY <1>1, <1>2, <1>10, <1>13, <1>14, Plain DEF FilingInv, UndoesManifest, Stacked, Fits, Item
<1>OnceEach. OnceEach'
  BY <1>9
<1>RulesTrue. RulesTrue'
  BY <1>1, <1>2, <1>10, <1>13, <1>14 DEF FilingInv, RulesTrue, Stacked
<1>FilesTrue. FilesTrue'
  <2>1. \A e \in {[of |-> d, was |-> files[d]]} : e.of = d
    OBVIOUS
  <2>2. \A c \in Docs : Stacked(c)' <=> Stacked(c) \/ c = d
    BY <1>10, <2>1 DEF Stacked
  <2> QED
    BY <2>2, <1>12, <1>14 DEF FilingInv, FilesTrue
<1>ManifestTrue. ManifestTrue'
  BY <1>1, <1>2, <1>7, <1>10, <1>13, <1>14 DEF FilingInv, ManifestTrue, Stacked, Fits, Item, Opening
<1>Bounded. Bounded'
  BY <1>1, <1>2, <1>10, <1>12, <1>13, <1>14, Plain DEF FilingInv, Bounded, Held
<1>kept. ASSUME Gaps = {}, KeptInv PROVE KeptInv'
  <2>0. Sized /\ Sized'
    BY <1>0, <1>t, Sizes, SizesNext
  <2>1. files[d] > 0 /\ files[d] >= kept[d].filing
    BY <1>1, <1>kept DEF KeptInv, FilesPositive, FilesKept
  <2>2. \A e \in Stack' : e \in Stack \/ (e.of = d /\ e.was = files[d])
    BY <1>10
  <2>u. (RowsPositive /\ WalkPositive /\ EntriesPositive /\ RowsKept /\ ItemsKept /\ KeptBounded)'
    BY <1>kept, <1>8, <1>14
       DEF KeptInv, RowsPositive, There, WalkPositive, EntriesPositive, Entries, RowsKept, ItemsKept, AtLeast,
           KeptBounded
  <2>FilesPositive. FilesPositive'
    BY <1>kept, <1>1, <1>2, <1>12, <1>13, <1>14, <2>1, <2>2 DEF KeptInv, FilesPositive
  <2>UndoesPositive. UndoesPositive'
    BY <1>kept, <1>1, <1>2, <1>10, <1>13, <1>14, <2>1, <2>2, Plain
      DEF KeptInv, UndoesPositive, Entries
  <2>ManifestKept. ManifestKept'
    BY <1>kept, <1>1, <1>2, <1>7, <1>13, <1>14, <2>1, <2>2
       DEF KeptInv, ManifestKept, NotOlder, AtLeast, Ahead
  <2>FilesKept. FilesKept'
    BY <1>kept, <1>1, <1>2, <1>12, <1>13, <1>14, <2>1, <2>2
      DEF KeptInv, FilesKept, FilingInv, Held, KeptBounded
  <2>UndoesKept. UndoesKept'
    BY <1>kept, <1>1, <1>2, <1>7, <1>10, <1>13, <1>14, <2>1, <2>2, Plain
       DEF KeptInv, UndoesKept, NotOlder, AtLeast, Ahead, FilingInv
  <2>Found. Found'
    BY <1>kept, <1>1, <1>2, <1>12, <1>13, <1>14, <2>1, <2>2 DEF KeptInv, Found, There
  <2>TidyFound. TidyFound'
    BY <1>kept, <1>1, <1>2, <1>12, <1>13, <1>14, <2>1, <2>2, <1>s
      DEF KeptInv, TidyFound, FilingInv, Shaped
  <2>DropFound. DropFound'
    BY <1>kept, <1>1, <1>2, <1>7, <1>8, <1>13, <1>14, <2>1, <2>2 DEF KeptInv, DropFound
  <2> QED
    BY <2>u, <2>FilesPositive, <2>UndoesPositive, <2>ManifestKept, <2>FilesKept, <2>UndoesKept,
       <2>Found, <2>TidyFound, <2>DropFound
       DEF KeptInv
<1> QED
  BY <1>kept, <1>t, <1>u, <1>Held, <1>PromoteHand, <1>WalkHand, <1>HandsOff, <1>DropHand,
     <1>PassTodo,
     <1>PassDrops, <1>PassDone, <1>PassManifest, <1>PassRules, <1>PassPushes, <1>UndoesFiles,
     <1>UndoesRules, <1>UndoesManifest, <1>OnceEach, <1>RulesTrue, <1>FilesTrue, <1>ManifestTrue,
     <1>Bounded
     DEF FilingInv

LEMMA PointerPutKeeps ==
  ASSUME FilingInv, Minds, NEW d \in Docs, PointerPut(d)
  PROVE  FilingInv' /\ (Gaps = {} /\ KeptInv => KeptInv')
<1>0. Typed /\ Shaped
  BY Shapes DEF FilingInv
<1>1. pass.at = "docs" /\ d \in pass.todo /\ pass.no # 0 /\ rows[d].kind = "pointer"
  BY DEF PointerPut, FilingInv, Held, Writing, Opening
<1>2. pass.rows[d] = rows[d] /\ ~Stacked(d) /\ d \notin pass.drops /\ d \notin promote.docs \cup walk.docs
  BY <1>1 DEF FilingInv, PassTodo, PassDrops, HandsOff
<1>3. Beyond(d, TRUE) \in {"docs", "merge"}
  BY DEF Beyond, After
<1>4. /\ Refiled(d) \in [Docs -> AnyRow] /\ (\A c \in Docs \ {d} : Refiled(d)[c] = pass.rows[c])
      /\ Refiled(d)[d] = [kind |-> rows[d].kind, filing |-> pass.no, seen |-> rows[d].seen]
  BY <1>0 DEF Refiled, Typed, Passes, AnyRow
<1>5. /\ pass'.at = Beyond(d, TRUE) /\ pass'.rows = Refiled(d) /\ pass'.todo = pass.todo \ {d}
      /\ pass'.written = pass.written
  BY <1>0 DEF PointerPut, Typed, Passes
<1>6. /\ pass'.at \in {"docs", "merge"} /\ pass'.todo = pass.todo \ {d} /\ pass'.written = pass.written
  BY <1>3, <1>5
<1>7. pass'.defers = TRUE /\ pass'.no = pass.no /\ pass'.drops = pass.drops /\ pass'.names = pass.names
     /\ pass'.copy = pass.copy /\ pass'.mirror = pass.mirror /\ pass'.stale = pass.stale
  BY <1>0 DEF PointerPut, Typed, Passes
<1>8. Stack' = Stack
  BY <1>6, StackSame
<1>9. /\ \A c \in Docs \ {d} : pass'.rows[c] = pass.rows[c]
      /\ pass'.rows[d] = [kind |-> rows[d].kind, filing |-> pass.no, seen |-> rows[d].seen]
  BY <1>4, <1>5
<1>10. pass' \in Passes
  BY <1>0, <1>3, <1>4, <1>5 DEF PointerPut, Typed, Passes, Writing
<1>11. UNCHANGED <<rows, mirror, stale, files, manifest, rules, last, tidy, promote, walk, unflushed,
                   up, crashes, kept, torn, struck, unread>>
  BY DEF PointerPut
<1>t. Typed'
  BY <1>0, <1>1, <1>2, <1>6, <1>7, <1>8, <1>9, <1>10, <1>11 DEF Typed
<1>s. Shaped'
  BY <1>t, ShapesNext
<1>Held. Held'
  BY <1>1, <1>2, <1>6, <1>7, <1>8, <1>10, <1>11 DEF FilingInv, Held, Opening, Writing
<1>TidyHand. TidyHand'
  BY <1>1, <1>2, <1>10, <1>11 DEF FilingInv, TidyHand
<1>PromoteHand. PromoteHand'
  BY <1>1, <1>2, <1>10, <1>11 DEF FilingInv, PromoteHand
<1>WalkHand. WalkHand'
  BY <1>1, <1>2, <1>10, <1>11 DEF FilingInv, WalkHand
<1>HandsOff. HandsOff'
  BY <1>1, <1>2, <1>6, <1>7, <1>8, <1>9, <1>10, <1>11, <1>s DEF FilingInv, HandsOff, Stacked, Shaped
<1>DropHand. DropHand'
  BY <1>1, <1>2, <1>6, <1>7, <1>10, <1>11 DEF FilingInv, DropHand
<1>ItemHand. ItemHand'
  BY <1>1, <1>2, <1>10, <1>11 DEF FilingInv, ItemHand
<1>CopyHand. CopyHand'
  BY <1>1, <1>2, <1>10, <1>11 DEF FilingInv, CopyHand
<1>PassOld. PassOld'
  BY <1>1, <1>2, <1>7, <1>10, <1>11 DEF FilingInv, PassOld
<1>PassTodo. PassTodo'
  BY <1>1, <1>2, <1>6, <1>7, <1>8, <1>9, <1>10, <1>11, <1>s
    DEF FilingInv, PassTodo, Stacked, There, Shaped
<1>PassDrops. PassDrops'
  BY <1>1, <1>2, <1>6, <1>7, <1>8, <1>9, <1>10, <1>11, <1>s
    DEF FilingInv, PassDrops, Stacked, There, Shaped
<1>PassDone. PassDone'
  BY <1>1, <1>2, <1>6, <1>7, <1>8, <1>9, <1>10, <1>11 DEF FilingInv, PassDone, Stacked, There
<1>PassManifest. PassManifest'
  BY <1>1, <1>2, <1>6, <1>7, <1>8, <1>9, <1>10, <1>11 DEF FilingInv, PassManifest, Stacked
<1>PassRules. PassRules'
  BY <1>1, <1>2, <1>6, <1>7, <1>8, <1>10, <1>11 DEF FilingInv, PassRules, Stacked
<1>PassPushes. PassPushes'
  BY <1>1, <1>2, <1>6, <1>7, <1>9, <1>10, <1>11 DEF FilingInv, PassPushes
<1>UndoesFiles. UndoesFiles'
  BY <1>1, <1>2, <1>6, <1>8, <1>10, <1>11 DEF FilingInv, UndoesFiles, Stacked
<1>UndoesRules. UndoesRules'
  BY <1>1, <1>2, <1>6, <1>8, <1>10, <1>11 DEF FilingInv, UndoesRules
<1>UndoesManifest. UndoesManifest'
  BY <1>1, <1>2, <1>6, <1>8, <1>10, <1>11 DEF FilingInv, UndoesManifest, Stacked, Fits, Item
<1>OnceEach. OnceEach'
  BY <1>1, <1>2, <1>6, <1>8, <1>10, <1>11 DEF FilingInv, OnceEach, Stacked
<1>RulesTrue. RulesTrue'
  BY <1>1, <1>2, <1>6, <1>8, <1>10, <1>11 DEF FilingInv, RulesTrue, Stacked
<1>FilesTrue. FilesTrue'
  BY <1>1, <1>2, <1>6, <1>8, <1>10, <1>11 DEF FilingInv, FilesTrue, Stacked
<1>ManifestTrue. ManifestTrue'
  BY <1>1, <1>2, <1>6, <1>8, <1>10, <1>11 DEF FilingInv, ManifestTrue, Stacked, Fits, Item, Opening
<1>Unghosted. Unghosted'
  BY <1>1, <1>2, <1>10, <1>11 DEF FilingInv, Unghosted
<1>Bounded. Bounded'
  BY <1>1, <1>2, <1>6, <1>8, <1>10, <1>11 DEF FilingInv, Bounded
<1>kept. ASSUME Gaps = {}, KeptInv PROVE KeptInv'
  <2>0. Sized /\ Sized'
    BY <1>0, <1>t, Sizes, SizesNext
  <2>u. (RowsPositive /\ FilesPositive /\ WalkPositive /\ EntriesPositive /\ UndoesPositive /\
         RowsKept /\ ItemsKept /\ FilesKept /\ KeptBounded /\ Found /\ TidyFound)'
    BY <1>kept, <1>7, <1>8, <1>11
       DEF KeptInv, RowsPositive, There, FilesPositive, WalkPositive, EntriesPositive, Entries,
          UndoesPositive, RowsKept, ItemsKept, AtLeast, FilesKept, KeptBounded, Found, TidyFound
  <2>ManifestKept. ManifestKept'
    BY <1>kept, <1>1, <1>2, <1>6, <1>10, <1>11 DEF KeptInv, ManifestKept, NotOlder, AtLeast, Ahead
  <2>UndoesKept. UndoesKept'
    BY <1>kept, <1>1, <1>2, <1>6, <1>8, <1>10, <1>11
      DEF KeptInv, UndoesKept, NotOlder, AtLeast, Ahead
  <2>DropFound. DropFound'
    BY <1>kept, <1>1, <1>2, <1>6, <1>7, <1>10, <1>11 DEF KeptInv, DropFound
  <2> QED
    BY <2>u, <2>ManifestKept, <2>UndoesKept, <2>DropFound DEF KeptInv
<1> QED
  BY <1>kept, <1>t, <1>Held, <1>TidyHand, <1>PromoteHand, <1>WalkHand, <1>HandsOff, <1>DropHand,
     <1>ItemHand, <1>CopyHand, <1>PassOld, <1>PassTodo, <1>PassDrops, <1>PassDone, <1>PassManifest,
     <1>PassRules, <1>PassPushes, <1>UndoesFiles, <1>UndoesRules, <1>UndoesManifest, <1>OnceEach,
     <1>RulesTrue, <1>FilesTrue, <1>ManifestTrue, <1>Unghosted, <1>Bounded
     DEF FilingInv

LEMMA MergeManifestKeeps ==
  ASSUME FilingInv, Minds, MergeManifest
  PROVE  FilingInv' /\ (Gaps = {} /\ KeptInv => KeptInv')
<1>0. Typed /\ Shaped
  BY Shapes DEF FilingInv
<1>1. pass.at = "merge" /\ tidy.at # "write"
  BY DEF MergeManifest, Alone, Minds
<1>m. PICK m \in {manifest, NoItems} :
        Reading(pass.rows, m) /\ pass' = [pass EXCEPT !.at = "push", !.copy = Merged(pass.rows, m)]
  BY DEF MergeManifest, Readings
<1>2. pass' \in Passes /\ pass'.at = "push" /\ pass'.no = pass.no /\ pass'.todo = pass.todo /\ pass'.drops = pass.drops
     /\ pass'.names = pass.names /\ pass'.defers = pass.defers /\ pass'.rows = pass.rows
     /\ pass'.mirror = pass.mirror /\ pass'.stale = pass.stale
  BY <1>0, <1>m, MergedShape, NoItemsShape DEF Typed, Passes, Writing
<1>3. pass'.copy = Merged(pass.rows, m)
  BY <1>0, <1>m DEF Typed, Passes
<1>4. pass'.written = pass.written
  BY <1>0, <1>m DEF Typed, Passes
<1>5. Stack' = Stack
  BY <1>0, <1>4, StackSame DEF StackSame
<1>6. UNCHANGED <<rows, mirror, stale, files, manifest, rules, last, tidy, promote, walk, unflushed, up,
                  crashes, kept, torn, struck>>
  BY DEF MergeManifest
<1>7. unread \subseteq unread' /\ unread' \subseteq Docs
  BY <1>0, <1>m DEF Reading, Typed
<1>t. Typed'
  BY <1>0, <1>2, <1>3, <1>4, <1>5, <1>6, <1>7 DEF Typed
<1>s. Shaped'
  BY <1>t, ShapesNext
<1>Held. Held'
  BY <1>1, <1>2, <1>4, <1>5, <1>6 DEF FilingInv, Held, Opening, Writing
<1>TidyHand. TidyHand'
  BY <1>1, <1>6 DEF FilingInv, TidyHand
<1>PromoteHand. PromoteHand'
  BY <1>1, <1>6 DEF FilingInv, PromoteHand
<1>WalkHand. WalkHand'
  BY <1>1, <1>6 DEF FilingInv, WalkHand
<1>HandsOff. HandsOff'
  BY <1>1, <1>2, <1>4, <1>5, <1>6 DEF FilingInv, HandsOff, Stacked
<1>DropHand. DropHand'
  BY <1>1, <1>2, <1>6 DEF FilingInv, DropHand
<1>ItemHand. ItemHand'
  BY <1>1, <1>6 DEF FilingInv, ItemHand
<1>CopyHand. CopyHand'
  BY <1>1, <1>6 DEF FilingInv, CopyHand
<1>PassOld. PassOld'
  BY <1>1, <1>2, <1>6 DEF FilingInv, PassOld
<1>PassTodo. PassTodo'
  BY <1>1, <1>2, <1>4, <1>5, <1>6 DEF FilingInv, PassTodo, Stacked, There
<1>PassDrops. PassDrops'
  BY <1>1, <1>2, <1>4, <1>5, <1>6 DEF FilingInv, PassDrops, Stacked, There
<1>PassDone. PassDone'
  BY <1>1, <1>2, <1>4, <1>5, <1>6 DEF FilingInv, PassDone, Stacked, There
<1>PassManifest. PassManifest'
  BY <1>1, <1>2, <1>4, <1>5, <1>6 DEF FilingInv, PassManifest, Stacked
<1>PassRules. PassRules'
  BY <1>1, <1>2, <1>4, <1>5, <1>6 DEF FilingInv, PassRules, Stacked
<1>PassPushes. PassPushes'
  BY <1>1, <1>2, <1>3, <1>6, <1>m DEF FilingInv, PassPushes, Reading, Held, Opening
<1>UndoesFiles. UndoesFiles'
  BY <1>1, <1>4, <1>5, <1>6 DEF FilingInv, UndoesFiles, Stacked
<1>UndoesRules. UndoesRules'
  BY <1>1, <1>4, <1>5, <1>6 DEF FilingInv, UndoesRules
<1>UndoesManifest. UndoesManifest'
  BY <1>1, <1>4, <1>5, <1>6 DEF FilingInv, UndoesManifest, Stacked, Fits, Item
<1>OnceEach. OnceEach'
  BY <1>1, <1>4, <1>5, <1>6 DEF FilingInv, OnceEach, Stacked
<1>RulesTrue. RulesTrue'
  BY <1>1, <1>4, <1>5, <1>6 DEF FilingInv, RulesTrue, Stacked
<1>FilesTrue. FilesTrue'
  BY <1>1, <1>4, <1>5, <1>6 DEF FilingInv, FilesTrue, Stacked
<1>ManifestTrue. ManifestTrue'
  BY <1>1, <1>2, <1>4, <1>5, <1>6 DEF FilingInv, ManifestTrue, Stacked, Fits, Item, Opening
<1>Unghosted. Unghosted'
  BY <1>1, <1>6 DEF FilingInv, Unghosted
<1>Bounded. Bounded'
  BY <1>1, <1>4, <1>5, <1>6 DEF FilingInv, Bounded
<1>kept. ASSUME Gaps = {}, KeptInv PROVE KeptInv'
  <2>0. Sized /\ Sized'
    BY <1>0, <1>t, Sizes, SizesNext
  <2>u. (RowsPositive /\ FilesPositive /\ WalkPositive /\ EntriesPositive /\ UndoesPositive /\
         RowsKept /\ ItemsKept /\ FilesKept /\ KeptBounded /\ Found /\ TidyFound)'
    BY <1>kept, <1>2, <1>5, <1>6, <1>7
       DEF KeptInv, RowsPositive, There, FilesPositive, WalkPositive, EntriesPositive, Entries,
          UndoesPositive, RowsKept, ItemsKept, AtLeast, FilesKept, KeptBounded, Found, TidyFound
  <2>ManifestKept. ManifestKept'
    BY <1>kept, <1>1, <1>2, <1>6, <1>7 DEF KeptInv, ManifestKept, NotOlder, AtLeast, Ahead
  <2>UndoesKept. UndoesKept'
    BY <1>kept, <1>1, <1>2, <1>4, <1>5, <1>6, <1>7 DEF KeptInv, UndoesKept, NotOlder, AtLeast, Ahead
  <2>DropFound. DropFound'
    BY <1>kept, <1>1, <1>2, <1>6 DEF KeptInv, DropFound
  <2> QED
    BY <2>u, <2>ManifestKept, <2>UndoesKept, <2>DropFound DEF KeptInv
<1> QED
  BY <1>kept, <1>t, <1>Held, <1>TidyHand, <1>PromoteHand, <1>WalkHand, <1>HandsOff, <1>DropHand,
     <1>ItemHand, <1>CopyHand, <1>PassOld, <1>PassTodo, <1>PassDrops, <1>PassDone, <1>PassManifest,
     <1>PassRules, <1>PassPushes, <1>UndoesFiles, <1>UndoesRules, <1>UndoesManifest, <1>OnceEach,
     <1>RulesTrue, <1>FilesTrue, <1>ManifestTrue, <1>Unghosted, <1>Bounded
     DEF FilingInv

LEMMA PushPutKeeps ==
  ASSUME FilingInv, Minds, PushPut
  PROVE  FilingInv' /\ (Gaps = {} /\ KeptInv => KeptInv')
<1>0. Typed /\ Shaped
  BY Shapes DEF FilingInv
<1>1. pass.at = "push" /\ pass.no # 0 /\ pass.at \notin Opening /\ pass.at \in Writing /\ up
  BY DEF PushPut, FilingInv, Held, Opening, Writing
<1>m. PICK m \in {manifest, NoItems} :
        /\ pass.copy = Merged(pass.rows, m)
        /\ \A c \in Docs : pass.rows[c].kind = "none" /\ m[c] # manifest[c] => c \in unread
  BY <1>1 DEF FilingInv, PassPushes
<1>n. m \in [Docs -> AnyItem] /\ \A c \in Docs : m[c] \in {Nothing, manifest[c]}
  BY <1>0, <1>m, NoItemsShape DEF Typed
<1>2. manifest' = Merged(pass.rows, m)
  BY <1>m DEF PushPut
<1>3. pass.defers /\ tidy.at # "write" /\ ~Stacked("manifest") /\ ~Stacked("rules")
  BY <1>1 DEF FilingInv, PassPushes, PassManifest, PassRules
<1>4. manifest' = [c \in Docs |-> IF pass.rows[c].kind = "pointer" THEN Item(pass.rows[c]) ELSE m[c]]
  BY <1>2 DEF Merged
<1>5. /\ manifest' \in [Docs -> AnyItem]
      /\ \A c \in Docs : manifest'[c] = IF pass.rows[c].kind = "pointer" THEN Item(pass.rows[c]) ELSE m[c]
  BY <1>0, <1>4, <1>n DEF Typed, Passes, AnyRow, AnyItem, Item
<1>6. /\ \A c \in pass.drops : pass.rows[c].kind = "none"
      /\ \A c \in Docs \ pass.drops : pass.rows[c].kind = rows[c].kind
  <2>1. \A c \in pass.drops : pass.rows[c].kind = "none"
    BY <1>1 DEF FilingInv, PassDrops, NoRow
  <2>2. ASSUME NEW c \in Docs \ pass.drops PROVE pass.rows[c].kind = rows[c].kind
    <3>1. \/ pass.rows[c] = rows[c]
          \/ pass.rows[c] = [kind |-> rows[c].kind, filing |-> pass.no, seen |-> rows[c].seen]
      BY <1>1 DEF FilingInv, PassDone
    <3>2. CASE pass.rows[c] = rows[c]
      BY <3>2
    <3>3. CASE pass.rows[c] = [kind |-> rows[c].kind, filing |-> pass.no, seen |-> rows[c].seen]
      BY <3>3
    <3> QED
      BY <3>1, <3>2, <3>3
  <2> QED
    BY <2>1, <2>2
<1>7. \A c \in Docs : pass.rows[c].kind = "pointer" => pass.rows[c].filing <= last
  <2> SUFFICES ASSUME NEW c \in Docs, pass.rows[c].kind = "pointer" PROVE pass.rows[c].filing <= last
    OBVIOUS
  <2>1. pass.no <= last /\ rows[c].filing <= last /\ c \notin pass.drops
    BY <1>0, <1>1, <1>6 DEF FilingInv, Held, Bounded, Shaped
  <2>2. \/ pass.rows[c] = rows[c]
        \/ pass.rows[c] = [kind |-> rows[c].kind, filing |-> pass.no, seen |-> rows[c].seen]
    BY <1>1, <2>1 DEF FilingInv, PassDone
  <2>3. CASE pass.rows[c] = rows[c]
    BY <2>1, <2>3
  <2>4. CASE pass.rows[c] = [kind |-> rows[c].kind, filing |-> pass.no, seen |-> rows[c].seen]
    BY <2>1, <2>4
  <2> QED
    BY <2>2, <2>3, <2>4
<1>8. [of |-> "manifest", was |-> manifest] \in Undoes /\ NoItems \in [Docs -> AnyItem]
  BY <1>0 DEF Undoes, Typed, NoItems, Nothing, AnyItem
<1>9. \A c \in Docs :
        /\ rows[c].kind # "pointer" => manifest'[c] \in {Nothing, manifest[c]}
        /\ \/ manifest'[c] = manifest[c] \/ pass.rows[c].kind = "pointer"
           \/ manifest'[c] = Nothing /\ (c \in unread \/ rows[c].kind = "file")
  <2> SUFFICES ASSUME NEW c \in Docs
               PROVE  /\ rows[c].kind # "pointer" => manifest'[c] \in {Nothing, manifest[c]}
                      /\ \/ manifest'[c] = manifest[c] \/ pass.rows[c].kind = "pointer"
                         \/ manifest'[c] = Nothing /\ (c \in unread \/ rows[c].kind = "file")
    OBVIOUS
  <2>1. CASE pass.rows[c].kind = "pointer"
    BY <1>6, <2>1
  <2>2. CASE pass.rows[c].kind # "pointer"
    <3>1. manifest'[c] = m[c] /\ m[c] \in {Nothing, manifest[c]}
      BY <1>5, <1>n, <2>2
    <3>2. pass.rows[c].kind = "none" \/ rows[c].kind = "file"
      BY <1>0, <1>6, <2>2 DEF Shaped
    <3> QED
      BY <1>m, <3>1, <3>2
  <2> QED
    BY <2>1, <2>2
<1>10. /\ pass'.at \in {"rules", "commit"} /\ (pass'.at = "commit" => ~pass.names) /\ pass'.stale = FALSE
       /\ pass'.written = Append(pass.written, [of |-> "manifest", was |-> manifest])
       /\ pass'.no = pass.no /\ pass'.todo = pass.todo /\ pass'.drops = pass.drops
      /\ pass'.names = pass.names /\ pass'.defers = pass.defers /\ pass'.rows = pass.rows
      /\ pass'.mirror = pass.mirror
  BY <1>0 DEF PushPut, Typed, Passes
<1>11. /\ pass'.at \in {"rules", "commit"} /\ (pass'.at = "commit" => ~pass.names) /\ pass'.stale = FALSE
       /\ pass'.no = pass.no /\ pass'.todo = pass.todo /\ pass'.drops = pass.drops
      /\ pass'.names = pass.names /\ pass'.defers = pass.defers /\ pass'.rows = pass.rows
      /\ pass'.mirror = pass.mirror
  BY <1>10
<1>12. /\ pass'.written \in Seq(Undoes) /\ OnceEach'
       /\ Stack' = Stack \cup {[of |-> "manifest", was |-> manifest]}
  BY <1>0, <1>3, <1>8, <1>10, Pushed DEF FilingInv
<1>13. pass' \in Passes
  BY <1>0, <1>8, <1>10, <1>12 DEF PushPut, Typed, Passes, Writing
<1>14. \A e \in {[of |-> "manifest", was |-> manifest]} : e.of = "manifest"
  OBVIOUS
<1>15. \A x : Stacked(x)' <=> (Stacked(x) \/ x = "manifest")
  BY <1>12, <1>14 DEF Stacked
<1>16. UNCHANGED <<rows, mirror, stale, files, rules, last, tidy, promote, walk, unflushed, up, crashes,
                   kept, torn, struck, unread>>
  BY DEF PushPut
<1>t. Typed'
  BY <1>0, <1>1, <1>3, <1>5, <1>7, <1>9, <1>11, <1>12, <1>13, <1>14, <1>15, <1>16 DEF Typed
<1>s. Shaped'
  BY <1>t, ShapesNext
<1>u. (TidyHand /\ PromoteHand /\ WalkHand /\ PassOld)'
  BY <1>11, <1>16 DEF FilingInv, TidyHand, PromoteHand, WalkHand, PassOld
<1>Held. Held'
  BY <1>1, <1>3, <1>7, <1>11, <1>12, <1>13, <1>14, <1>15, <1>16
    DEF FilingInv, Held, Opening, Writing
<1>HandsOff. HandsOff'
  BY <1>1, <1>3, <1>7, <1>11, <1>12, <1>13, <1>14, <1>15, <1>16, <1>s, Plain
     DEF FilingInv, HandsOff, Stacked, Shaped
<1>DropHand. DropHand'
  BY <1>1, <1>3, <1>7, <1>11, <1>13, <1>14, <1>16 DEF FilingInv, DropHand
<1>ItemHand. ItemHand'
  BY <1>1, <1>3, <1>5, <1>7, <1>9, <1>13, <1>14, <1>16 DEF FilingInv, ItemHand
<1>CopyHand. CopyHand'
  BY <1>1, <1>3, <1>5, <1>7, <1>9, <1>13, <1>14, <1>16 DEF FilingInv, CopyHand
<1>PassTodo. PassTodo'
  <2> SUFFICES ASSUME pass.no # 0, NEW c \in pass.todo
               PROVE  There(c) /\ pass.rows[c] = rows[c] /\ ~Stacked(c)'
    BY <1>11, <1>16 DEF PassTodo, There
  <2>1. There(c) /\ pass.rows[c] = rows[c] /\ ~Stacked(c)
    BY DEF FilingInv, PassTodo
  <2>2. c \in Docs
    BY <1>0 DEF Typed, Passes
  <2> QED
    BY <2>1, <2>2, <1>15, Plain
<1>PassDrops. PassDrops'
  BY <1>0, <1>s, Plain, <1>7, <1>9, <1>11, <1>12, <1>13, <1>16
     DEF FilingInv, PassDrops, Stacked, There, Held, Opening, Writing, Shaped
<1>PassDone. PassDone'
  BY Plain, <1>1, <1>11, <1>15, <1>16 DEF FilingInv, PassDone, Stacked, There
<1>PassManifest. PassManifest'
  BY <1>1, <1>3, <1>5, <1>7, <1>9, <1>11, <1>12, <1>13, <1>14, <1>15, <1>16
     DEF FilingInv, PassManifest, Stacked
<1>PassRules. PassRules'
  BY <1>1, <1>3, <1>7, <1>11, <1>12, <1>13, <1>14, <1>15, <1>16
    DEF FilingInv, PassRules, Stacked, RulesTrue
<1>PassPushes. PassPushes'
  BY <1>1, <1>3, <1>5, <1>7, <1>9, <1>11, <1>13, <1>14, <1>16 DEF FilingInv, PassPushes
<1>UndoesFiles. UndoesFiles'
  BY <1>1, <1>3, <1>7, <1>12, <1>13, <1>14, <1>15, <1>16, Plain DEF FilingInv, UndoesFiles, Stacked
<1>UndoesRules. UndoesRules'
  BY <1>1, <1>3, <1>7, <1>12, <1>13, <1>14, <1>15, <1>16 DEF FilingInv, UndoesRules
<1>UndoesManifest. UndoesManifest'
  BY <1>1, <1>3, <1>5, <1>7, <1>9, <1>12, <1>13, <1>14, <1>15, <1>16
     DEF FilingInv, UndoesManifest, Stacked, Fits, Item, ManifestTrue, Unghosted, ItemHand
<1>OnceEach. OnceEach'
  BY <1>12
<1>RulesTrue. RulesTrue'
  BY <1>1, <1>3, <1>7, <1>12, <1>13, <1>14, <1>15, <1>16 DEF FilingInv, RulesTrue, Stacked
<1>FilesTrue. FilesTrue'
  BY <1>1, <1>3, <1>7, <1>12, <1>13, <1>14, <1>15, <1>16 DEF FilingInv, FilesTrue, Stacked
<1>ManifestTrue. ManifestTrue'
  BY <1>1, <1>3, <1>5, <1>7, <1>9, <1>11, <1>12, <1>13, <1>14, <1>15, <1>16
     DEF FilingInv, ManifestTrue, Stacked, Fits, Item
<1>Unghosted. Unghosted'
  BY <1>1, <1>3, <1>5, <1>7, <1>9, <1>13, <1>14, <1>16, <1>s DEF FilingInv, Unghosted, Shaped
<1>Bounded. Bounded'
  <2>1. \A c \in Docs : manifest'[c].filing <= last
    <3>1. \A c \in Docs : m[c].filing <= last
      <4>1. last \in Nat /\ Nothing.filing = 0 /\ \A c \in Docs : manifest[c].filing <= last
        BY DEF FilingInv, Typed, Bounded, Nothing
      <4>2. ASSUME NEW c \in Docs PROVE m[c].filing <= last
        <5>1. CASE m[c] = manifest[c]
          BY <4>1, <5>1
        <5>2. CASE m[c] = Nothing
          <6>1. m[c].filing = 0 /\ last \in Nat
            BY <4>1, <5>2
          <6> QED
            BY <6>1
        <5> QED
          BY <1>n, <5>1, <5>2
      <4> QED
        BY <4>2
    <3> QED
      BY <1>5, <1>7, <3>1 DEF Item
  <2>2. \A e \in Stack' :
           (e.of \in Docs => e.was <= last) /\ (e.of = "manifest" => \A c \in Docs : e.was[c].filing <= last)
    BY <1>12, Plain DEF FilingInv, Bounded
  <2> QED
    BY <2>1, <2>2, <1>16 DEF FilingInv, Bounded
<1>kept. ASSUME Gaps = {}, KeptInv PROVE KeptInv'
  <2>0. Sized /\ Sized'
    BY <1>0, <1>t, Sizes, SizesNext
  <2>1. \A c \in Docs : pass.rows[c].kind = "pointer" =>
          pass.rows[c].filing >= rows[c].filing /\ pass.rows[c].seen = rows[c].seen
    <3> SUFFICES ASSUME NEW c \in Docs, pass.rows[c].kind = "pointer"
                 PROVE  pass.rows[c].filing >= rows[c].filing /\ pass.rows[c].seen = rows[c].seen
      OBVIOUS
    <3>1. c \notin pass.drops /\ pass.no > rows[c].filing
      BY <1>0, <1>1, <1>6 DEF FilingInv, PassOld
    <3>2. \/ pass.rows[c] = rows[c]
          \/ pass.rows[c] = [kind |-> rows[c].kind, filing |-> pass.no, seen |-> rows[c].seen]
      BY <1>1, <3>1 DEF FilingInv, PassDone
    <3>3. CASE pass.rows[c] = rows[c]
      BY <3>3, <2>0 DEF Sized
    <3>4. CASE pass.rows[c] = [kind |-> rows[c].kind, filing |-> pass.no, seen |-> rows[c].seen]
      BY <3>1, <3>4, <1>0, <2>0 DEF Shaped, Sized
    <3> QED
      BY <3>2, <3>3, <3>4
  <2>2. \A c \in Docs : pass.rows[c].kind = "pointer" =>
          rows[c].kind = "pointer" /\ AtLeast(pass.rows[c], kept[c]) /\ pass.rows[c].filing > 0
    <3>1. \A c \in Docs : pass.rows[c].kind = "pointer" => rows[c].kind = "pointer"
      BY <1>6
    <3>2. \A c \in Docs : rows[c].kind = "pointer" =>
            rows[c].filing >= kept[c].filing /\ rows[c].filing > 0 /\ rows[c].seen >= kept[c].seen
      BY <1>kept DEF KeptInv, RowsKept, RowsPositive, There
    <3>3. \A c \in Docs : pass.rows[c].filing \in Nat /\ rows[c].filing \in Nat /\ kept[c].filing \in Nat
      BY <1>0, <2>0 DEF Shaped, Sized
    <3>4. \A x, y, z \in Nat : x >= y /\ y >= z /\ y > 0 => x >= z /\ x > 0
      OBVIOUS
    <3>5. \A c \in Docs : pass.rows[c].kind = "pointer" =>
            pass.rows[c].filing >= kept[c].filing /\ pass.rows[c].filing > 0
      BY <2>1, <3>1, <3>2, <3>3, <3>4
    <3>6. \A c \in Docs : pass.rows[c].kind = "pointer" => pass.rows[c].seen >= kept[c].seen
      BY <2>1, <3>1, <3>2
    <3> QED
      BY <3>1, <3>5, <3>6 DEF AtLeast
  <2>3. \A c \in Docs : pass.rows[c].kind = "pointer" =>
          /\ Item(pass.rows[c]) # Nothing /\ Item(pass.rows[c]).filing > 0
          /\ AtLeast(Item(pass.rows[c]), kept[c])
    BY <2>2 DEF Item, Nothing, AtLeast
  <2>4. \A c \in Docs :
          \/ manifest'[c] = manifest[c]
          \/ manifest'[c] = Nothing /\ (c \in unread \/ rows[c].kind = "file")
          \/ rows[c].kind = "pointer" /\ manifest'[c] # Nothing /\ manifest'[c].filing > 0 /\ AtLeast(manifest'[c], kept[c])
    BY <1>5, <1>9, <2>2, <2>3
  <2>u. (RowsPositive /\ FilesPositive /\ WalkPositive /\ RowsKept /\ FilesKept /\ KeptBounded /\ TidyFound)'
    BY <1>kept, <1>11, <1>16
       DEF KeptInv, RowsPositive, There, FilesPositive, WalkPositive, RowsKept, FilesKept, KeptBounded, TidyFound
  <2>ItemsKept. ItemsKept'
    <3>1. \A c \in Docs : rows[c].kind = "none" /\ manifest'[c] = Nothing => manifest[c] = Nothing \/ c \in unread
      BY <1>6, <1>9
    <3> QED
      BY <1>kept, <1>16, <3>1 DEF KeptInv, ItemsKept, AtLeast
  <2>EntriesPositive. EntriesPositive'
    BY <1>kept, <1>1, <1>3, <1>5, <1>7, <1>9, <1>13, <1>14, <1>16, <2>4
       DEF KeptInv, EntriesPositive, Entries, FilingInv
  <2>UndoesPositive. UndoesPositive'
    BY <1>kept, <1>1, <1>3, <1>5, <1>7, <1>9, <1>12, <1>13, <1>14, <1>15, <1>16, <2>4, Plain
       DEF KeptInv, UndoesPositive, Entries, EntriesPositive
  <2>ManifestKept. ManifestKept'
    BY <1>kept, <1>1, <1>3, <1>5, <1>7, <1>9, <1>11, <1>13, <1>14, <1>16, <2>4
       DEF KeptInv, ManifestKept, NotOlder, AtLeast, Ahead, FilingInv
  <2>UndoesKept. UndoesKept'
    BY <1>kept, <1>1, <1>3, <1>5, <1>7, <1>9, <1>11, <1>12, <1>13, <1>14, <1>15, <1>16, <2>4, Plain
       DEF KeptInv, UndoesKept, NotOlder, AtLeast, Ahead, ManifestKept
  <2>Found. Found'
    BY <1>kept, <1>1, <1>3, <1>5, <1>7, <1>9, <1>13, <1>14, <1>16, <2>4 DEF KeptInv, Found, There
  <2>DropFound. DropFound'
    BY <1>kept, <1>1, <1>3, <1>7, <1>11, <1>13, <1>14, <1>16, <2>4 DEF KeptInv, DropFound
  <2> QED
    BY <2>u, <2>ItemsKept, <2>EntriesPositive, <2>UndoesPositive, <2>ManifestKept, <2>UndoesKept, <2>Found,
       <2>DropFound
       DEF KeptInv
<1> QED
  BY <1>kept, <1>t, <1>u, <1>Held, <1>HandsOff, <1>DropHand, <1>ItemHand, <1>CopyHand, <1>PassTodo,
     <1>PassDrops, <1>PassDone, <1>PassManifest, <1>PassRules, <1>PassPushes, <1>UndoesFiles,
     <1>UndoesRules, <1>UndoesManifest, <1>OnceEach, <1>RulesTrue, <1>FilesTrue, <1>ManifestTrue,
     <1>Unghosted, <1>Bounded
     DEF FilingInv

LEMMA RulesPutKeeps ==
  ASSUME FilingInv, Minds, RulesPut
  PROVE  FilingInv' /\ (Gaps = {} /\ KeptInv => KeptInv')
<1>0. Typed /\ Shaped
  BY Shapes DEF FilingInv
<1>1. pass.at = "rules" /\ pass.no # 0 /\ pass.at \notin Opening /\ up /\ rules' = pass.mirror
  BY DEF RulesPut, FilingInv, Held, Opening, Writing
<1>2. ~Stacked("rules") /\ (rules = mirror \/ "rules" \in torn)
  BY <1>1 DEF FilingInv, PassRules, RulesTrue
<1>3. [of |-> "rules", was |-> rules] \in Undoes /\ pass.mirror \in Nat
  BY <1>0 DEF Undoes, Typed, Passes
<1>4. pass'.at = "commit" /\ pass'.no = pass.no /\ pass'.todo = pass.todo /\ pass'.drops = pass.drops
     /\ pass'.names = pass.names /\ pass'.defers = pass.defers /\ pass'.rows = pass.rows
     /\ pass'.mirror = pass.mirror /\ pass'.stale = pass.stale
  BY <1>0 DEF RulesPut, Typed, Passes
<1>5. pass'.written = Append(pass.written, [of |-> "rules", was |-> rules])
  BY <1>0 DEF RulesPut, Typed, Passes
<1>6. /\ pass'.written \in Seq(Undoes) /\ OnceEach'
      /\ Stack' = Stack \cup {[of |-> "rules", was |-> rules]}
  BY <1>0, <1>2, <1>3, <1>5, Pushed DEF FilingInv
<1>7. pass' \in Passes
  BY <1>0, <1>4, <1>5, <1>6 DEF RulesPut, Typed, Passes, Writing
<1>8. \A e \in {[of |-> "rules", was |-> rules]} : e.of = "rules"
  OBVIOUS
<1>9. \A x : Stacked(x)' <=> (Stacked(x) \/ x = "rules")
  BY <1>6, <1>8 DEF Stacked
<1>10. rules = mirror \/ "rules" \in torn
  BY <1>2
<1>11. UNCHANGED <<rows, mirror, stale, files, manifest, last, tidy, promote, walk, unflushed, up,
                   crashes, kept, torn, struck, unread>>
  BY DEF RulesPut
<1>t. Typed'
  BY <1>0, <1>1, <1>3, <1>4, <1>6, <1>7, <1>8, <1>9, <1>10, <1>11 DEF Typed
<1>s. Shaped'
  BY <1>t, ShapesNext
<1>u. (TidyHand /\ PromoteHand /\ WalkHand /\ ItemHand /\ CopyHand /\ PassOld /\ Unghosted)'
  BY <1>4, <1>11
    DEF FilingInv, TidyHand, PromoteHand, WalkHand, ItemHand, CopyHand, PassOld, Unghosted
<1>Held. Held'
  BY <1>1, <1>3, <1>4, <1>6, <1>7, <1>8, <1>9, <1>10, <1>11 DEF FilingInv, Held, Opening, Writing
<1>HandsOff. HandsOff'
  BY <1>3, <1>4, <1>6, <1>7, <1>8, <1>9, <1>10, <1>11, <1>s, Plain
    DEF FilingInv, HandsOff, Stacked, Shaped
<1>DropHand. DropHand'
  BY <1>3, <1>4, <1>7, <1>8, <1>10, <1>11 DEF FilingInv, DropHand
<1>PassTodo. PassTodo'
  BY <1>s, Plain, <1>1, <1>3, <1>4, <1>6, <1>7, <1>10, <1>11
     DEF FilingInv, PassTodo, Stacked, There, Writing, Shaped
<1>PassDrops. PassDrops'
  BY <1>s, Plain, <1>1, <1>3, <1>4, <1>6, <1>7, <1>10, <1>11
     DEF FilingInv, PassDrops, Stacked, There, Writing, Shaped
<1>PassDone. PassDone'
  <2> SUFFICES ASSUME NEW c \in Docs \ pass.drops
               PROVE  \/ pass.rows[c] = rows[c] /\ ~Stacked(c)'
                      \/ /\ pass.rows[c] = [kind |-> rows[c].kind, filing |-> pass.no, seen |-> rows[c].seen]
                         /\ \/ rows[c].kind = "file" /\ Stacked(c)' /\ files[c] = pass.no
                            \/ rows[c].kind = "pointer" /\ ~Stacked(c)' /\ pass.defers
    BY <1>4, <1>11 DEF PassDone
  <2>1. Stacked(c)' <=> Stacked(c)
    BY <1>9, Plain
  <2>2. \/ pass.rows[c] = rows[c] /\ ~Stacked(c)
        \/ /\ pass.rows[c] = [kind |-> rows[c].kind, filing |-> pass.no, seen |-> rows[c].seen]
           /\ \/ rows[c].kind = "file" /\ Stacked(c) /\ files[c] = pass.no
              \/ rows[c].kind = "pointer" /\ ~Stacked(c) /\ pass.defers
    BY <1>1 DEF FilingInv, PassDone
  <2> QED
    BY <2>1, <2>2
<1>PassManifest. PassManifest'
  BY <1>1, <1>3, <1>4, <1>6, <1>7, <1>8, <1>9, <1>10, <1>11 DEF FilingInv, PassManifest, Stacked
<1>PassRules. PassRules'
  BY <1>1, <1>4, <1>11 DEF FilingInv, PassRules
<1>PassPushes. PassPushes'
  BY <1>3, <1>4, <1>7, <1>8, <1>10, <1>11 DEF FilingInv, PassPushes
<1>UndoesFiles. UndoesFiles'
  BY <1>3, <1>6, <1>7, <1>8, <1>9, <1>10, <1>11, Plain DEF FilingInv, UndoesFiles, Stacked
<1>UndoesRules. UndoesRules'
  BY <1>1, <1>3, <1>6, <1>7, <1>8, <1>9, <1>10, <1>11 DEF FilingInv, UndoesRules
<1>UndoesManifest. UndoesManifest'
  BY <1>3, <1>6, <1>7, <1>8, <1>9, <1>10, <1>11 DEF FilingInv, UndoesManifest, Stacked, Fits, Item
<1>OnceEach. OnceEach'
  BY <1>6
<1>RulesTrue. RulesTrue'
  BY <1>1, <1>3, <1>6, <1>7, <1>8, <1>9, <1>10, <1>11 DEF FilingInv, RulesTrue, Stacked
<1>FilesTrue. FilesTrue'
  BY <1>3, <1>6, <1>7, <1>8, <1>9, <1>10, <1>11 DEF FilingInv, FilesTrue, Stacked
<1>ManifestTrue. ManifestTrue'
  BY <1>1, <1>9, <1>11 DEF FilingInv, ManifestTrue, Stacked, Fits, Item
<1>Bounded. Bounded'
  BY <1>3, <1>6, <1>7, <1>8, <1>9, <1>10, <1>11, Plain DEF FilingInv, Bounded
<1>kept. ASSUME Gaps = {}, KeptInv PROVE KeptInv'
  <2>0. Sized /\ Sized'
    BY <1>0, <1>t, Sizes, SizesNext
  <2>u. (RowsPositive /\ FilesPositive /\ WalkPositive /\ EntriesPositive /\ RowsKept /\ ItemsKept /\ FilesKept /\
         KeptBounded /\ Found /\ TidyFound)'
    BY <1>kept, <1>4, <1>11
       DEF KeptInv, RowsPositive, There, FilesPositive, WalkPositive, EntriesPositive, Entries,
           RowsKept, ItemsKept, AtLeast,
          FilesKept, KeptBounded, Found, TidyFound
  <2>UndoesPositive. UndoesPositive'
    BY <1>kept, <1>3, <1>6, <1>7, <1>8, <1>9, <1>10, <1>11, Plain
      DEF KeptInv, UndoesPositive, Entries
  <2>ManifestKept. ManifestKept'
    BY <1>kept, <1>1, <1>11 DEF KeptInv, ManifestKept, NotOlder, AtLeast, Ahead
  <2>UndoesKept. UndoesKept'
    BY <1>kept, Plain, <1>1, <1>6, <1>11 DEF KeptInv, UndoesKept, NotOlder, AtLeast, Ahead
  <2>DropFound. DropFound'
    BY <1>kept, <1>3, <1>4, <1>7, <1>8, <1>10, <1>11 DEF KeptInv, DropFound
  <2> QED
    BY <2>u, <2>UndoesPositive, <2>ManifestKept, <2>UndoesKept, <2>DropFound DEF KeptInv
<1> QED
  BY <1>kept, <1>t, <1>u, <1>Held, <1>HandsOff, <1>DropHand, <1>PassTodo, <1>PassDrops, <1>PassDone,
     <1>PassManifest, <1>PassRules, <1>PassPushes, <1>UndoesFiles, <1>UndoesRules, <1>UndoesManifest,
     <1>OnceEach, <1>RulesTrue, <1>FilesTrue, <1>ManifestTrue, <1>Bounded
     DEF FilingInv

LEMMA CommitPutKeeps ==
  ASSUME FilingInv, Minds, CommitPut
  PROVE  FilingInv' /\ (Gaps = {} /\ KeptInv => KeptInv')
<1>0. Typed /\ Shaped
  BY Shapes DEF FilingInv
<1>1. pass.at = "commit" /\ pass.no # 0 /\ pass.at \notin Opening /\ up
  BY DEF CommitPut, FilingInv, Held, Opening, Writing
<1>2. rows' = pass.rows /\ mirror' = pass.mirror /\ stale' = pass.stale /\ torn' = torn \ Mended
  BY DEF CommitPut
<1>3. /\ rows' \in [Docs -> AnyRow] /\ mirror' \in Nat /\ stale' \in BOOLEAN /\ torn' \subseteq torn
      /\ \A c \in Docs : rows'[c] = pass.rows[c] /\ (c \in torn /\ c \notin torn' => pass.rows[c].filing = pass.no \/ c \in pass.drops)
  BY <1>0, <1>2, Plain DEF Typed, Passes, Filed, Mended
<1>4. kept' \in [Docs -> AnyItem]
  BY <1>0 DEF CommitPut, Typed, Passes, AnyItem, Nothing
<1>5. /\ [Idle EXCEPT !.at = "drop", !.drops = pass.drops] \in Passes
  BY <1>0, IdleShape DEF Passes, Typed
<1>6. /\ pass' \in Passes /\ pass'.no = 0 /\ pass'.todo = {} /\ pass'.written = <<>> /\ pass'.drops = pass.drops
      /\ pass'.at = "drop" \/ (pass'.at = "idle" /\ pass.drops = {})
  BY <1>5, IdleShape DEF CommitPut, Passes
<1>7. Stack' = {}
  BY <1>6, StackNoneNext
<1>8. /\ mirror' = rules \/ "rules" \in torn'
      /\ stale' = pass.stale /\ ("manifest" \in torn => "manifest" \in torn' \/ pass.defers)
  <2>1. Filed \subseteq Docs /\ pass.drops \subseteq Docs
    BY <1>0 DEF Filed, Shaped
  <2>2. "rules" \in torn /\ ~pass.names => "rules" \in torn'
    BY <1>2, <2>1, Plain DEF Mended
  <2>3. "manifest" \in torn => "manifest" \in torn' \/ pass.defers
    BY <1>2, <2>1, Plain DEF Mended
  <2> QED
    BY <1>1, <1>2, <2>2, <2>3 DEF FilingInv, PassRules
<1>9. \A c \in pass.drops : rows'[c].kind = "none" /\ rows'[c].filing = 0 /\ rows'[c].seen = 0
  BY <1>0, <1>1, <1>3 DEF FilingInv, PassDrops, NoRow, Shaped
<1>10. \A c \in Docs \ pass.drops :
         /\ rows'[c].kind = rows[c].kind
         /\ \/ rows'[c] = rows[c] /\ ~Stacked(c)
            \/ /\ rows'[c].filing = pass.no
               /\ rows[c].kind = "file" => files[c] = pass.no
               /\ rows[c].kind # "file" => rows[c].kind = "pointer" /\ pass.defers
  <2> SUFFICES ASSUME NEW c \in Docs \ pass.drops
               PROVE  /\ rows'[c].kind = rows[c].kind
                      /\ \/ rows'[c] = rows[c] /\ ~Stacked(c)
                         \/ /\ rows'[c].filing = pass.no
                            /\ rows[c].kind = "file" => files[c] = pass.no
                            /\ rows[c].kind # "file" => rows[c].kind = "pointer" /\ pass.defers
    OBVIOUS
  <2> DEFINE refiled == [kind |-> rows[c].kind, filing |-> pass.no, seen |-> rows[c].seen]
  <2>1. \/ pass.rows[c] = rows[c] /\ ~Stacked(c)
        \/ /\ pass.rows[c] = refiled
           /\ \/ rows[c].kind = "file" /\ files[c] = pass.no
              \/ rows[c].kind = "pointer" /\ pass.defers
    BY <1>1 DEF FilingInv, PassDone
  <2>2. refiled.kind = rows[c].kind /\ refiled.filing = pass.no
    OBVIOUS
  <2>3. rows'[c] = pass.rows[c]
    BY <1>3
  <2> HIDE DEF refiled
  <2> QED
    BY <2>1, <2>2, <2>3
<1>11. /\ pass.defers => stale' = FALSE /\ \A c \in Docs : rows'[c].kind = "pointer" => manifest[c] = Item(rows'[c])
       /\ ~pass.defers => stale' = stale /\ ~Stacked("manifest")
  BY <1>1, <1>2, <1>3 DEF FilingInv, PassManifest
<1>12. UNCHANGED <<files, manifest, rules, last, tidy, promote, walk, unflushed, up, crashes, struck, unread>>
  BY DEF CommitPut
<1>t. Typed'
  BY <1>0, <1>3, <1>4, <1>6, <1>7, <1>8, <1>9, <1>10, <1>11, <1>12 DEF Typed
<1>s. Shaped'
  BY <1>t, ShapesNext
<1>u. (WalkHand /\ CopyHand)'
  BY <1>12 DEF FilingInv, WalkHand, CopyHand
<1>Held. Held'
  BY <1>1, <1>5, <1>6, <1>7, <1>12 DEF FilingInv, Held, Opening
<1>TidyHand. TidyHand'
  BY <1>0, <1>1, <1>9, <1>10, <1>12 DEF FilingInv, TidyHand, DropHand, Shaped
<1>PromoteHand. PromoteHand'
  BY <1>1, <1>3, <1>5, <1>9, <1>10, <1>11, <1>12, <1>s DEF FilingInv, PromoteHand, HandsOff, Shaped
<1>HandsOff. HandsOff'
  BY <1>1, <1>3, <1>5, <1>6, <1>7, <1>9, <1>10, <1>11, <1>12 DEF FilingInv, HandsOff, Stacked
<1>DropHand. DropHand'
  BY <1>1, <1>3, <1>5, <1>6, <1>9, <1>10, <1>11, <1>12 DEF FilingInv, DropHand
<1>ItemHand. ItemHand'
  BY <1>1, <1>3, <1>5, <1>9, <1>10, <1>11, <1>12 DEF FilingInv, ItemHand, DropHand
<1>PassOld. PassOld'
  BY <1>1, <1>3, <1>5, <1>6, <1>9, <1>10, <1>11, <1>12 DEF FilingInv, PassOld
<1>PassTodo. PassTodo'
  BY <1>1, <1>3, <1>5, <1>6, <1>7, <1>9, <1>10, <1>11, <1>12 DEF FilingInv, PassTodo, Stacked, There
<1>PassDrops. PassDrops'
  BY <1>1, <1>3, <1>5, <1>6, <1>7, <1>9, <1>10, <1>11, <1>12
    DEF FilingInv, PassDrops, Stacked, There
<1>PassDone. PassDone'
  BY <1>1, <1>3, <1>5, <1>6, <1>7, <1>9, <1>10, <1>11, <1>12 DEF FilingInv, PassDone, Stacked, There
<1>PassManifest. PassManifest'
  BY <1>1, <1>3, <1>5, <1>6, <1>7, <1>8, <1>11, <1>12 DEF FilingInv, PassManifest, Stacked
<1>PassRules. PassRules'
  BY <1>1, <1>3, <1>5, <1>6, <1>7, <1>8, <1>12 DEF FilingInv, PassRules, Stacked
<1>PassPushes. PassPushes'
  BY <1>1, <1>3, <1>5, <1>6, <1>9, <1>10, <1>11, <1>12 DEF FilingInv, PassPushes
<1>UndoesFiles. UndoesFiles'
  BY <1>1, <1>3, <1>5, <1>6, <1>7, <1>9, <1>10, <1>11, <1>12 DEF FilingInv, UndoesFiles, Stacked
<1>UndoesRules. UndoesRules'
  BY <1>1, <1>3, <1>5, <1>6, <1>7, <1>8, <1>12 DEF FilingInv, UndoesRules
<1>UndoesManifest. UndoesManifest'
  BY <1>1, <1>3, <1>5, <1>6, <1>7, <1>8, <1>9, <1>10, <1>11, <1>12
     DEF FilingInv, UndoesManifest, Stacked, Fits, Item
<1>OnceEach. OnceEach'
  BY <1>1, <1>5, <1>6, <1>7, <1>12 DEF FilingInv, OnceEach, Stacked
<1>RulesTrue. RulesTrue'
  BY <1>1, <1>3, <1>5, <1>6, <1>7, <1>8, <1>12 DEF FilingInv, RulesTrue, Stacked
<1>FilesTrue. FilesTrue'
  BY <1>1, <1>3, <1>5, <1>6, <1>7, <1>9, <1>10, <1>11, <1>12, <1>s
     DEF FilingInv, FilesTrue, Stacked, PassOld, Shaped
<1>ManifestTrue. ManifestTrue'
  BY <1>1, <1>3, <1>5, <1>6, <1>7, <1>8, <1>9, <1>10, <1>11, <1>12
     DEF FilingInv, ManifestTrue, Stacked, Fits, Item
<1>Unghosted. Unghosted'
  BY <1>1, <1>3, <1>5, <1>9, <1>10, <1>11, <1>12, <1>s
    DEF FilingInv, Unghosted, DropHand, ItemHand, Shaped
<1>Bounded. Bounded'
  BY <1>1, <1>3, <1>5, <1>6, <1>7, <1>9, <1>10, <1>11, <1>12, <1>s
    DEF FilingInv, Bounded, Held, Shaped
<1>kept. ASSUME Gaps = {}, KeptInv PROVE KeptInv'
  <2>0. Sized /\ Sized'
    BY <1>0, <1>t, Sizes, SizesNext
  <2>1. kept' = [c \in Docs |-> IF c \in pass.drops THEN Nothing ELSE IF c \in Filed THEN [kept[c] EXCEPT !.filing = pass.no] ELSE kept[c]]
    BY DEF CommitPut
  <2>2. \A c \in pass.drops : kept'[c] = Nothing /\ kept'[c].filing = 0 /\ kept'[c].seen = 0
    BY <1>0, <2>1 DEF Typed, Passes, Nothing
  <2>3. \A c \in Docs \ pass.drops :
          /\ kept'[c].seen = kept[c].seen
          /\ \/ kept'[c].filing = pass.no /\ rows'[c].filing = pass.no
             \/ kept'[c] = kept[c] /\ rows'[c].filing # pass.no
    BY <1>0, <1>3, <2>1 DEF Typed, AnyItem, Filed
  <2>4. \A c \in Docs \ pass.drops : rows'[c].kind = "pointer" => rows'[c].seen = rows[c].seen
    <3>1. \A c \in Docs : pass.rows[c].kind = "pointer" =>
            pass.rows[c].filing >= rows[c].filing /\ pass.rows[c].seen = rows[c].seen
      <4> SUFFICES ASSUME NEW c \in Docs, pass.rows[c].kind = "pointer"
                   PROVE  pass.rows[c].filing >= rows[c].filing /\ pass.rows[c].seen = rows[c].seen
        OBVIOUS
      <4>1. c \notin pass.drops /\ pass.no > rows[c].filing
        BY <1>0, <1>1, <1>3, <1>9 DEF FilingInv, PassOld
      <4>2. \/ pass.rows[c] = rows[c]
            \/ pass.rows[c] = [kind |-> rows[c].kind, filing |-> pass.no, seen |-> rows[c].seen]
        BY <1>1, <4>1 DEF FilingInv, PassDone
      <4>3. CASE pass.rows[c] = rows[c]
        BY <4>3, <2>0 DEF Sized
      <4>4. CASE pass.rows[c] = [kind |-> rows[c].kind, filing |-> pass.no, seen |-> rows[c].seen]
        BY <4>1, <4>4, <1>0, <2>0 DEF Shaped, Sized
      <4> QED
        BY <4>2, <4>3, <4>4
    <3> QED
      BY <1>3, <3>1
  <2>5. \A c \in Docs \ pass.drops :
          rows[c].kind = "none" \/ rows'[c] = rows[c] => rows'[c] = rows[c] /\ kept'[c] = kept[c]
    BY <1>0, <1>1, <1>10, <2>3 DEF FilingInv, PassOld, Shaped
  <2>u. (WalkPositive /\ EntriesPositive)'
    BY <1>kept, <1>12 DEF KeptInv, WalkPositive, EntriesPositive, Entries
  <2>RowsPositive. RowsPositive'
    BY <1>kept, <1>1, <1>3, <1>5, <1>9, <1>10, <1>11, <1>12, <2>2, <2>3, <2>4, <2>5, <2>0
       DEF KeptInv, RowsPositive, There, FilingInv, Sized
  <2>FilesPositive. FilesPositive'
    BY <1>kept, <1>1, <1>3, <1>5, <1>9, <1>10, <1>11, <1>12, <2>2, <2>3, <2>4, <2>5
       DEF KeptInv, FilesPositive
  <2>UndoesPositive. UndoesPositive'
    BY <1>kept, <1>1, <1>5, <1>6, <1>7, <1>12, <2>2, <2>3, <2>4, <2>5
      DEF KeptInv, UndoesPositive, Entries
  <2>RowsKept. RowsKept'
    BY <1>kept, <1>8, <1>9, <1>10, <1>11, <1>12, <2>2, <2>3, <2>4, <2>5
       DEF KeptInv, RowsKept, There, FilingInv, Held, ItemHand, ManifestKept, Typed, AnyRow, AnyItem
  <2>ItemsKept. ItemsKept'
    <3> SUFFICES ASSUME NEW c \in Docs, rows'[c].kind = "none", walk.items[c] # Nothing
                 PROVE  /\ AtLeast(walk.items[c], kept'[c])
                        /\ manifest[c] = Nothing => kept'[c] = Nothing \/ c \in unread
      BY <1>12 DEF ItemsKept
    <3>1. c \notin pass.drops
      BY DEF FilingInv, DropHand
    <3>2. rows[c].kind = "none" /\ kept'[c] = kept[c]
      BY <3>1, <1>10, <2>5
    <3> QED
      BY <3>2, <1>kept DEF KeptInv, ItemsKept
  <2>ManifestKept. ManifestKept'
    <3>1. \A c \in Docs : rows'[c].kind = "pointer" => AtLeast(rows'[c], kept'[c]) /\ rows'[c].filing > 0
      BY <2>RowsKept, <2>RowsPositive DEF RowsKept, RowsPositive, There, AtLeast
    <3>2. \A c \in Docs : Item(rows'[c]).filing = rows'[c].filing /\ Item(rows'[c]).seen = rows'[c].seen
      BY DEF Item
    <3>3. \A c \in Docs : rows'[c].kind = "pointer" =>
            Item(rows'[c]) # Nothing /\ AtLeast(Item(rows'[c]), kept'[c])
      BY <3>1, <3>2 DEF AtLeast, Nothing
    <3>4. ASSUME NEW c \in Docs, rows'[c].kind = "none", manifest[c] # Nothing
          PROVE  AtLeast(manifest[c], kept'[c])
      <4>1. CASE c \in pass.drops
        BY <4>1, <2>0, <2>2 DEF AtLeast, Sized
      <4>2. CASE c \notin pass.drops
        BY <3>4, <4>2, <1>10, <2>5, <1>kept DEF KeptInv, ManifestKept, NotOlder
      <4> QED
        BY <4>1, <4>2
    <3>5. ASSUME NEW c \in Docs, rows'[c].kind = "pointer", ~pass.defers
          PROVE  rows'[c] = rows[c] /\ kept'[c] = kept[c]
      BY <3>5, <1>9, <1>10, <2>5
    <3>6. pass'.at # "mark" /\ pass.at # "mark" /\ manifest' = manifest
      BY <1>1, <1>6, <1>12
    <3>7. CASE pass.defers
      BY <3>3, <3>4, <3>6, <3>7, <1>11 DEF ManifestKept, NotOlder
    <3>8. CASE ~pass.defers
      <4>1. Ahead' <=> Ahead
        BY <3>6, <3>8, <1>11 DEF Ahead
      <4>2. ASSUME NEW c \in Docs, rows'[c].kind = "pointer", ~Ahead
            PROVE  /\ manifest[c] # Nothing => AtLeast(manifest[c], kept'[c])
                   /\ manifest[c] = Nothing => kept'[c] = Nothing \/ c \in unread
        BY <3>5, <3>8, <4>2, <1>kept DEF KeptInv, ManifestKept, NotOlder
      <4> QED
        BY <3>4, <3>6, <4>1, <4>2, <1>12 DEF ManifestKept, NotOlder
    <3> QED
      BY <3>7, <3>8
  <2>FilesKept. FilesKept'
    BY <1>0, <1>1, <1>9, <1>10, <1>12, <2>0, <2>2, <2>3, <1>kept
      DEF KeptInv, FilesKept, FilingInv, PassOld, Sized, Shaped
  <2>UndoesKept. UndoesKept'
    BY <1>kept, <1>1, <1>3, <1>4, <1>5, <1>6, <1>7, <1>8, <1>9, <1>10, <1>11, <1>12, <2>2, <2>3,
       <2>4,
       <2>5
       DEF KeptInv, UndoesKept, NotOlder, AtLeast, Ahead
  <2>KeptBounded. KeptBounded'
    BY <1>0, <1>1, <1>12, <2>0, <2>2, <2>3, <1>kept
      DEF KeptInv, KeptBounded, FilingInv, Held, Shaped
  <2>Found. Found'
    BY <1>10, <1>12, <2>2, <2>5, <1>kept DEF KeptInv, Found, There
  <2>TidyFound. TidyFound'
    BY <1>0, <1>10, <1>12, <2>2, <2>5, <1>kept DEF KeptInv, TidyFound, Shaped
  <2>DropFound. DropFound'
    BY <1>kept, <1>1, <1>4, <1>5, <1>6, <1>12, <2>2, <2>3, <2>4, <2>5
      DEF KeptInv, DropFound, FilingInv
  <2> QED
    BY <2>u, <2>RowsPositive, <2>FilesPositive, <2>UndoesPositive, <2>RowsKept, <2>ItemsKept, <2>ManifestKept,
       <2>FilesKept, <2>UndoesKept, <2>KeptBounded, <2>Found, <2>TidyFound, <2>DropFound
       DEF KeptInv
<1> QED
  BY <1>kept, <1>t, <1>u, <1>Held, <1>TidyHand, <1>PromoteHand, <1>HandsOff, <1>DropHand,
     <1>ItemHand,
     <1>PassOld, <1>PassTodo, <1>PassDrops, <1>PassDone, <1>PassManifest, <1>PassRules, <1>PassPushes,
     <1>UndoesFiles, <1>UndoesRules, <1>UndoesManifest, <1>OnceEach, <1>RulesTrue, <1>FilesTrue,
     <1>ManifestTrue, <1>Unghosted, <1>Bounded
     DEF FilingInv

LEMMA UndoEndKeeps ==
  ASSUME FilingInv, Minds, UndoEnd
  PROVE  FilingInv' /\ (Gaps = {} /\ KeptInv => KeptInv')
<1>0. Typed /\ Shaped
  BY Shapes DEF FilingInv
<1>1. pass.at = "undo" /\ pass.no # 0 /\ pass.at \notin Opening /\ up /\ pass.written = <<>>
  BY DEF UndoEnd, FilingInv, Held, Opening, Writing
<1>2. Stack = {}
  BY <1>1, StackNone
<1>3. pass' \in Passes /\ pass'.at = "idle" /\ pass'.no = 0 /\ pass'.drops = {} /\ pass'.todo = {}
  BY IdleShape DEF UndoEnd
<1>4. UNCHANGED <<rows, mirror, stale, files, manifest, rules, last, tidy, promote, walk, unflushed, up,
                  crashes, kept, torn, struck, unread>>
  BY DEF UndoEnd
<1>5. pass'.written = <<>>
  BY DEF UndoEnd, Idle, Outcomes
<1>6. Stack' = {}
  BY <1>5, StackNoneNext DEF StackNoneNext
<1>t. Typed'
  BY <1>0, <1>3, <1>4, <1>5, <1>6 DEF Typed
<1>s. Shaped'
  BY <1>t, ShapesNext
<1>u. (TidyHand /\ PromoteHand /\ WalkHand /\ ItemHand /\ CopyHand /\ Unghosted)'
  BY <1>4 DEF FilingInv, TidyHand, PromoteHand, WalkHand, ItemHand, CopyHand, Unghosted
<1>Held. Held'
  BY <1>1, <1>2, <1>3, <1>4, <1>5, <1>6 DEF FilingInv, Held, Opening
<1>HandsOff. HandsOff'
  BY <1>1, <1>2, <1>3, <1>4, <1>5, <1>6 DEF FilingInv, HandsOff, Stacked
<1>DropHand. DropHand'
  BY <1>1, <1>2, <1>3, <1>4 DEF FilingInv, DropHand
<1>PassOld. PassOld'
  BY <1>1, <1>2, <1>3, <1>4 DEF FilingInv, PassOld
<1>PassTodo. PassTodo'
  BY <1>1, <1>2, <1>3, <1>4, <1>5, <1>6 DEF FilingInv, PassTodo, Stacked, There
<1>PassDrops. PassDrops'
  BY <1>1, <1>2, <1>3, <1>4, <1>5, <1>6 DEF FilingInv, PassDrops, Stacked, There
<1>PassDone. PassDone'
  BY <1>1, <1>2, <1>3, <1>4, <1>5, <1>6 DEF FilingInv, PassDone, Stacked, There
<1>PassManifest. PassManifest'
  BY <1>1, <1>2, <1>3, <1>4, <1>5, <1>6 DEF FilingInv, PassManifest, Stacked
<1>PassRules. PassRules'
  BY <1>1, <1>2, <1>3, <1>4, <1>5, <1>6 DEF FilingInv, PassRules, Stacked
<1>PassPushes. PassPushes'
  BY <1>1, <1>2, <1>3, <1>4 DEF FilingInv, PassPushes
<1>UndoesFiles. UndoesFiles'
  BY <1>1, <1>2, <1>4, <1>5, <1>6 DEF FilingInv, UndoesFiles, Stacked
<1>UndoesRules. UndoesRules'
  BY <1>1, <1>2, <1>4, <1>5, <1>6 DEF FilingInv, UndoesRules
<1>UndoesManifest. UndoesManifest'
  BY <1>1, <1>2, <1>4, <1>5, <1>6 DEF FilingInv, UndoesManifest, Stacked, Fits, Item
<1>OnceEach. OnceEach'
  BY <1>1, <1>2, <1>4, <1>5, <1>6 DEF FilingInv, OnceEach, Stacked
<1>RulesTrue. RulesTrue'
  BY <1>1, <1>2, <1>4, <1>5, <1>6 DEF FilingInv, RulesTrue, Stacked
<1>FilesTrue. FilesTrue'
  BY <1>1, <1>2, <1>4, <1>5, <1>6 DEF FilingInv, FilesTrue, Stacked
<1>ManifestTrue. ManifestTrue'
  BY <1>1, <1>2, <1>3, <1>4, <1>5, <1>6 DEF FilingInv, ManifestTrue, Stacked, Fits, Item
<1>Bounded. Bounded'
  BY <1>1, <1>2, <1>4, <1>5, <1>6 DEF FilingInv, Bounded
<1>kept. ASSUME Gaps = {}, KeptInv PROVE KeptInv'
  <2>0. Sized /\ Sized'
    BY <1>0, <1>t, Sizes, SizesNext
  <2>u. (RowsPositive /\ FilesPositive /\ WalkPositive /\ EntriesPositive /\ RowsKept /\ ItemsKept /\ FilesKept /\
         KeptBounded /\ Found /\ TidyFound)'
    BY <1>kept, <1>4
       DEF KeptInv, RowsPositive, There, FilesPositive, WalkPositive, EntriesPositive, Entries,
           RowsKept, ItemsKept, AtLeast,
          FilesKept, KeptBounded, Found, TidyFound
  <2>UndoesPositive. UndoesPositive'
    BY <1>kept, <1>1, <1>2, <1>4, <1>5, <1>6 DEF KeptInv, UndoesPositive, Entries
  <2>ManifestKept. ManifestKept'
    BY <1>kept, <1>1, <1>2, <1>3, <1>4 DEF KeptInv, ManifestKept, NotOlder, AtLeast, Ahead
  <2>UndoesKept. UndoesKept'
    BY <1>kept, <1>1, <1>2, <1>3, <1>4, <1>5, <1>6 DEF KeptInv, UndoesKept, NotOlder, AtLeast, Ahead
  <2>DropFound. DropFound'
    BY <1>kept, <1>1, <1>2, <1>3, <1>4 DEF KeptInv, DropFound
  <2> QED
    BY <2>u, <2>UndoesPositive, <2>ManifestKept, <2>UndoesKept, <2>DropFound DEF KeptInv
<1> QED
  BY <1>kept, <1>t, <1>u, <1>Held, <1>HandsOff, <1>DropHand, <1>PassOld, <1>PassTodo, <1>PassDrops,
     <1>PassDone, <1>PassManifest, <1>PassRules, <1>PassPushes, <1>UndoesFiles, <1>UndoesRules,
     <1>UndoesManifest, <1>OnceEach, <1>RulesTrue, <1>FilesTrue, <1>ManifestTrue, <1>Bounded
     DEF FilingInv

LEMMA UndoPutKeeps ==
  ASSUME FilingInv, Minds, NEW e, UndoPut(e)
  PROVE  FilingInv' /\ (Gaps = {} /\ KeptInv => KeptInv')
<1>0. Typed /\ Shaped
  BY Shapes DEF FilingInv
<1>1. pass.at = "undo" /\ pass.no # 0 /\ pass.at \notin Opening /\ up
  BY DEF UndoPut, FilingInv, Held, Opening, Writing
<1>2. pass.written # <<>> /\ e = pass.written[Len(pass.written)] /\ pass'.written = SubSeq(pass.written, 1, Len(pass.written) - 1)
  BY <1>0 DEF UndoPut, Typed, Passes
<1>3. /\ e \in Stack /\ Stack' = Stack \ {e} /\ (\A f \in Stack : f.of = e.of => f = e)
      /\ pass'.written \in Seq(Undoes) /\ OnceEach'
  BY <1>0, <1>2, Popped DEF FilingInv
<1>4. /\ files' = IF e.of \in Docs THEN [files EXCEPT ![e.of] = e.was] ELSE files
      /\ manifest' = IF e.of = "manifest" THEN e.was ELSE manifest
      /\ rules' = IF e.of = "rules" THEN e.was ELSE rules
  BY DEF UndoPut
<1>5. /\ files' \in [Docs -> Nat] /\ rules' \in Nat /\ manifest' \in [Docs -> AnyItem]
  BY <1>0, <1>3, <1>4, Plain DEF Typed, Undoes, Shaped
<1>6. pass' \in Passes /\ pass'.at = pass.at /\ pass'.no = pass.no /\ pass'.todo = pass.todo
     /\ pass'.drops = pass.drops /\ pass'.names = pass.names /\ pass'.defers = pass.defers
     /\ pass'.copy = pass.copy /\ pass'.rows = pass.rows /\ pass'.mirror = pass.mirror
     /\ pass'.stale = pass.stale
  BY <1>0, <1>2, <1>3 DEF UndoPut, Typed, Passes
<1>7. \A x : Stacked(x)' <=> Stacked(x) /\ x # e.of
  BY <1>3 DEF Stacked
<1>8. Stacked(e.of)
  BY <1>3 DEF Stacked
<1>9. \A c \in Docs : files'[c] = IF c = e.of THEN e.was ELSE files[c]
  BY <1>0, <1>4 DEF Typed
<1>10. UNCHANGED <<rows, mirror, stale, last, tidy, promote, walk, unflushed, up, crashes, kept, torn,
                   struck, unread>>
  BY DEF UndoPut
<1>t. Typed'
  BY <1>0, <1>3, <1>4, <1>5, <1>6, <1>7, <1>9, <1>10 DEF Typed
<1>s. Shaped'
  BY <1>t, ShapesNext
<1>u. (TidyHand /\ DropHand /\ PassOld)'
  BY <1>6, <1>10 DEF FilingInv, TidyHand, DropHand, PassOld
<1>Held. Held'
  BY <1>1, <1>3, <1>4, <1>5, <1>6, <1>7, <1>8, <1>10 DEF FilingInv, Held
<1>PromoteHand. PromoteHand'
  BY <1>1, <1>4, <1>5, <1>8, <1>9, <1>10 DEF FilingInv, PromoteHand, HandsOff
<1>WalkHand. WalkHand'
  BY <1>1, <1>4, <1>5, <1>8, <1>9, <1>10 DEF FilingInv, WalkHand, HandsOff
<1>HandsOff. HandsOff'
  BY <1>1, <1>3, <1>6, <1>7, <1>8, <1>10 DEF FilingInv, HandsOff, Stacked
<1>ItemHand. ItemHand'
  BY <1>1, <1>3, <1>4, <1>8, <1>9, <1>10 DEF FilingInv, ItemHand, UndoesManifest, PassPushes
<1>CopyHand. CopyHand'
  BY <1>3, <1>4, <1>8, <1>9, <1>10 DEF FilingInv, CopyHand, PassPushes, UndoesManifest
<1>PassTodo. PassTodo'
  BY <1>1, <1>3, <1>6, <1>7, <1>8, <1>10 DEF FilingInv, PassTodo, Stacked, There
<1>PassDrops. PassDrops'
  BY <1>1, <1>3, <1>6, <1>7, <1>8, <1>10 DEF FilingInv, PassDrops, Stacked, There
<1>PassDone. PassDone'
  BY <1>1, <1>3, <1>4, <1>5, <1>6, <1>7, <1>8, <1>9, <1>10 DEF FilingInv, PassDone, Stacked, There
<1>PassManifest. PassManifest'
  BY <1>1, <1>3, <1>4, <1>5, <1>6, <1>7, <1>8, <1>10 DEF FilingInv, PassManifest, Stacked
<1>PassRules. PassRules'
  BY <1>1, <1>3, <1>4, <1>5, <1>6, <1>7, <1>8, <1>10 DEF FilingInv, PassRules, Stacked
<1>PassPushes. PassPushes'
  BY <1>1, <1>4, <1>5, <1>6, <1>8, <1>10 DEF FilingInv, PassPushes
<1>UndoesFiles. UndoesFiles'
  BY <1>1, <1>3, <1>7, <1>8, <1>10 DEF FilingInv, UndoesFiles, Stacked
<1>UndoesRules. UndoesRules'
  BY <1>1, <1>3, <1>4, <1>5, <1>7, <1>8, <1>10 DEF FilingInv, UndoesRules
<1>UndoesManifest. UndoesManifest'
  BY <1>1, <1>3, <1>4, <1>5, <1>7, <1>8, <1>10 DEF FilingInv, UndoesManifest, Stacked, Fits, Item
<1>OnceEach. OnceEach'
  BY <1>3
<1>RulesTrue. RulesTrue'
  BY <1>1, <1>3, <1>4, <1>5, <1>7, <1>8, <1>10 DEF FilingInv, RulesTrue, Stacked, UndoesRules
<1>FilesTrue. FilesTrue'
  BY <1>1, <1>3, <1>4, <1>5, <1>7, <1>8, <1>9, <1>10 DEF FilingInv, FilesTrue, Stacked, UndoesFiles
<1>ManifestTrue. ManifestTrue'
  BY <1>1, <1>3, <1>4, <1>5, <1>6, <1>7, <1>8, <1>10
     DEF FilingInv, ManifestTrue, Stacked, Fits, Item, UndoesManifest
<1>Unghosted. Unghosted'
  BY <1>0, <1>s, <1>3, <1>4, <1>7, <1>8, <1>9, <1>10
     DEF FilingInv, Unghosted, TidyHand, DropHand, ItemHand, UndoesManifest, PassDrops, Nothing,
         Shaped
<1>Bounded. Bounded'
  BY <1>1, <1>3, <1>4, <1>5, <1>7, <1>8, <1>9, <1>10 DEF FilingInv, Bounded
<1>kept. ASSUME Gaps = {}, KeptInv PROVE KeptInv'
  <2>0. Sized /\ Sized'
    BY <1>0, <1>t, Sizes, SizesNext
  <2>u. (RowsPositive /\ WalkPositive /\ RowsKept /\ KeptBounded /\ DropFound)'
    BY <1>kept, <1>6, <1>10 DEF KeptInv, RowsPositive, There, WalkPositive, RowsKept, KeptBounded, DropFound
  <2>ItemsKept. ItemsKept'
    <3>1. \A c \in Docs : rows[c].kind = "none" /\ manifest'[c] = Nothing => manifest[c] = Nothing
      BY <1>3, <1>4 DEF FilingInv, UndoesManifest
    <3> QED
      BY <1>kept, <1>10, <3>1 DEF KeptInv, ItemsKept, AtLeast
  <2>FilesPositive. FilesPositive'
    BY <1>kept, <1>3, <1>4, <1>10 DEF KeptInv, FilesPositive, Opening, UndoesPositive
  <2>EntriesPositive. EntriesPositive'
    BY <1>kept, <1>3, <1>4, <1>10
       DEF KeptInv, EntriesPositive, Entries, Nothing, NoItems, Item, RowsPositive, UndoesPositive
  <2>UndoesPositive. UndoesPositive'
    BY <1>kept, <1>1, <1>3, <1>4, <1>5, <1>7, <1>8, <1>10 DEF KeptInv, UndoesPositive, Entries
  <2>ManifestKept. ManifestKept'
    BY <1>kept, <1>3, <1>4, <1>5, <1>6, <1>10
       DEF KeptInv, ManifestKept, NotOlder, AtLeast, Ahead, Opening, Writing, Item, Nothing,
           UndoesKept
  <2>FilesKept. FilesKept'
    BY <1>kept, <1>3, <1>7, <1>8, <1>9, <1>10
      DEF KeptInv, FilesKept, Opening, UndoesKept, ManifestKept
  <2>UndoesKept. UndoesKept'
    BY <1>kept, <1>1, <1>3, <1>4, <1>5, <1>6, <1>7, <1>8, <1>10
       DEF KeptInv, UndoesKept, NotOlder, AtLeast, Ahead
  <2>Found. Found'
    BY <1>3, <1>4, <1>9, <1>10, <1>kept, Plain
      DEF FilingInv, UndoesFiles, UndoesManifest, KeptInv, Found, There
  <2>TidyFound. TidyFound'
    BY <1>0, <1>3, <1>4, <1>9, <1>10, <1>kept
      DEF FilingInv, TidyHand, UndoesFiles, KeptInv, TidyFound, Shaped
  <2> QED
    BY <2>u, <2>ItemsKept, <2>FilesPositive, <2>EntriesPositive, <2>UndoesPositive, <2>ManifestKept, <2>FilesKept,
       <2>UndoesKept, <2>Found, <2>TidyFound
       DEF KeptInv
<1> QED
  BY <1>kept, <1>t, <1>u, <1>Held, <1>PromoteHand, <1>WalkHand, <1>HandsOff, <1>ItemHand,
     <1>CopyHand,
     <1>PassTodo, <1>PassDrops, <1>PassDone, <1>PassManifest, <1>PassRules, <1>PassPushes,
     <1>UndoesFiles, <1>UndoesRules, <1>UndoesManifest, <1>OnceEach, <1>RulesTrue, <1>FilesTrue,
     <1>ManifestTrue, <1>Unghosted, <1>Bounded
     DEF FilingInv

LEMMA DropTruthKeeps ==
  ASSUME FilingInv, Minds, NEW d \in Docs, DropTruth(d)
  PROVE  FilingInv' /\ (Gaps = {} /\ KeptInv => KeptInv')
<1>0. Typed /\ Shaped
  BY Shapes DEF FilingInv
<1>1. pass.at = "drop" /\ d \in pass.drops /\ tidy.at # "write" /\ pass.no = 0
  BY DEF DropTruth, Alone, Minds, FilingInv, Held, Writing
<1>2. \/ files' = [files EXCEPT ![d] = 0] /\ manifest' = [manifest EXCEPT ![d] = Nothing] /\ struck' = struck \cup {d}
      \/ UNCHANGED <<files, manifest, struck>>
  BY DEF DropTruth, Outcomes
<1>3. /\ files' \in [Docs -> Nat] /\ struck' \subseteq struck \cup {d}
      /\ \A c \in Docs \ {d} : files'[c] = files[c] /\ manifest'[c] = manifest[c]
      /\ files'[d] \in {0, files[d]} /\ manifest'[d] \in {Nothing, manifest[d]}
      /\ struck' = struck \/ (struck' = struck \cup {d} /\ manifest'[d] = Nothing)
  BY <1>0, <1>2 DEF Typed
<1>4. manifest' \in [Docs -> AnyItem]
  BY <1>0, <1>2 DEF Nothing, Typed, AnyItem
<1>5. [pass EXCEPT !.drops = @ \ {d}] \in Passes
  BY <1>0 DEF Typed, Passes
<1>6. /\ pass' \in Passes
      /\ pass' = [pass EXCEPT !.drops = @ \ {d}] \/ pass' = Idle
  BY <1>5, IdleShape DEF DropTruth
<1>7. \/ pass'.at = "drop" /\ pass'.drops = pass.drops \ {d} /\ pass'.no = pass.no /\ pass'.todo = pass.todo /\ pass'.written = pass.written
      \/ pass'.at = "idle" /\ pass'.drops = {} /\ pass'.no = 0 /\ pass'.todo = {} /\ pass'.written = <<>>
  BY <1>0, <1>1, <1>6, IdleShape DEF Typed, Passes
<1>8. Stack = {} /\ pass.todo = {}
  BY <1>1 DEF FilingInv, Held
<1>9. Stack' = {}
  BY <1>7, <1>8, StackSame, StackNoneNext DEF Stack
<1>10. /\ pass'.no = 0 /\ pass'.todo = {} /\ pass'.at # "push" /\ pass'.at \in {"idle", "drop"} \cup Opening
       /\ pass'.drops = pass.drops \ {d} \/ (pass'.drops = {} /\ pass'.at = "idle")
  BY <1>1, <1>7, <1>8 DEF Opening
<1>11. UNCHANGED <<rows, mirror, stale, rules, last, tidy, promote, walk, unflushed, up, crashes, kept, torn, unread>>
  BY DEF DropTruth
<1>t. Typed'
  BY <1>0, <1>3, <1>4, <1>6, <1>11 DEF Typed
<1>s. Shaped'
  BY <1>t, ShapesNext
<1>Held. Held'
  BY <1>1, <1>7, <1>8, <1>9, <1>10, <1>11 DEF FilingInv, Held, Opening, Writing
<1>TidyHand. TidyHand'
  BY <1>1, <1>6, <1>8, <1>11 DEF FilingInv, TidyHand
<1>PromoteHand. PromoteHand'
  BY <1>1, <1>3, <1>6, <1>8, <1>11, <1>s DEF FilingInv, PromoteHand, HandsOff, Shaped
<1>WalkHand. WalkHand'
  BY <1>1, <1>3, <1>6, <1>8, <1>11, <1>s DEF FilingInv, WalkHand, HandsOff, Shaped
<1>HandsOff. HandsOff'
  BY <1>1, <1>6, <1>8, <1>9, <1>10, <1>11 DEF FilingInv, HandsOff, Stacked
<1>DropHand. DropHand'
  BY <1>1, <1>6, <1>8, <1>10, <1>11 DEF FilingInv, DropHand
<1>ItemHand. ItemHand'
  BY <1>1, <1>3, <1>4, <1>6, <1>8, <1>11 DEF FilingInv, ItemHand, DropHand
<1>CopyHand. CopyHand'
  BY <1>1, <1>3, <1>4, <1>6, <1>8, <1>11 DEF FilingInv, CopyHand
<1>PassOld. PassOld'
  BY <1>1, <1>6, <1>8, <1>10, <1>11 DEF FilingInv, PassOld
<1>PassTodo. PassTodo'
  BY <1>1, <1>6, <1>8, <1>9, <1>10, <1>11 DEF FilingInv, PassTodo, Stacked, There
<1>PassDrops. PassDrops'
  BY <1>1, <1>6, <1>8, <1>9, <1>10, <1>11 DEF FilingInv, PassDrops, Stacked, There
<1>PassDone. PassDone'
  BY <1>1, <1>3, <1>6, <1>8, <1>9, <1>10, <1>11 DEF FilingInv, PassDone, Stacked, There
<1>PassManifest. PassManifest'
  BY <1>1, <1>3, <1>4, <1>6, <1>8, <1>9, <1>10, <1>11 DEF FilingInv, PassManifest, Stacked
<1>PassRules. PassRules'
  BY <1>1, <1>6, <1>8, <1>9, <1>10, <1>11 DEF FilingInv, PassRules, Stacked
<1>PassPushes. PassPushes'
  BY <1>1, <1>3, <1>4, <1>6, <1>8, <1>10, <1>11 DEF FilingInv, PassPushes
<1>UndoesFiles. UndoesFiles'
  BY <1>1, <1>6, <1>8, <1>9, <1>11 DEF FilingInv, UndoesFiles, Stacked
<1>UndoesRules. UndoesRules'
  BY <1>1, <1>6, <1>8, <1>9, <1>11 DEF FilingInv, UndoesRules
<1>UndoesManifest. UndoesManifest'
  BY <1>1, <1>3, <1>4, <1>6, <1>8, <1>9, <1>11 DEF FilingInv, UndoesManifest, Stacked, Fits, Item
<1>OnceEach. OnceEach'
  BY <1>7 DEF FilingInv, OnceEach
<1>RulesTrue. RulesTrue'
  BY <1>1, <1>6, <1>8, <1>9, <1>11 DEF FilingInv, RulesTrue, Stacked
<1>FilesTrue. FilesTrue'
  BY <1>1, <1>3, <1>6, <1>8, <1>9, <1>11 DEF FilingInv, FilesTrue, Stacked, DropHand
<1>ManifestTrue. ManifestTrue'
  BY <1>1, <1>3, <1>4, <1>6, <1>8, <1>9, <1>10, <1>11
     DEF FilingInv, ManifestTrue, Stacked, Fits, Item, Opening
<1>Unghosted. Unghosted'
  BY <1>1, <1>3, <1>4, <1>6, <1>8, <1>11, <1>s DEF FilingInv, Unghosted, DropHand, ItemHand, Shaped
<1>Bounded. Bounded'
  BY <1>1, <1>3, <1>4, <1>6, <1>8, <1>9, <1>11, <1>s DEF FilingInv, Bounded, Nothing, Shaped
<1>kept. ASSUME Gaps = {}, KeptInv PROVE KeptInv'
  <2>0. Sized /\ Sized'
    BY <1>0, <1>t, Sizes, SizesNext
  <2>u. (RowsPositive /\ WalkPositive /\ RowsKept /\ KeptBounded)'
    BY <1>kept, <1>11 DEF KeptInv, RowsPositive, There, WalkPositive, RowsKept, KeptBounded
  <2>ItemsKept. ItemsKept'
    <3>1. walk.items[d] = Nothing
      BY <1>1 DEF FilingInv, DropHand
    <3> QED
      BY <1>kept, <1>3, <1>11, <3>1 DEF KeptInv, ItemsKept, AtLeast
  <2>FilesPositive. FilesPositive'
    BY <1>kept, <1>1, <1>3, <1>6, <1>8, <1>11 DEF KeptInv, FilesPositive, FilingInv, DropHand
  <2>EntriesPositive. EntriesPositive'
    BY <1>kept, <1>1, <1>3, <1>4, <1>6, <1>8, <1>11 DEF KeptInv, EntriesPositive, Entries
  <2>UndoesPositive. UndoesPositive'
    BY <1>kept, <1>1, <1>3, <1>4, <1>6, <1>8, <1>9, <1>11 DEF KeptInv, UndoesPositive, Entries
  <2>ManifestKept. ManifestKept'
    BY <1>kept, <1>1, <1>3, <1>4, <1>6, <1>8, <1>10, <1>11
       DEF KeptInv, ManifestKept, NotOlder, AtLeast, Ahead, DropFound
  <2>FilesKept. FilesKept'
    BY <1>kept, <1>1, <1>3, <1>6, <1>8, <1>11 DEF KeptInv, FilesKept
  <2>UndoesKept. UndoesKept'
    BY <1>kept, <1>1, <1>3, <1>4, <1>6, <1>8, <1>9, <1>10, <1>11
       DEF KeptInv, UndoesKept, NotOlder, AtLeast, Ahead
  <2>Found. Found'
    BY <1>kept, <1>1, <1>3, <1>4, <1>6, <1>8, <1>11 DEF KeptInv, Found, There, DropFound, Nothing
  <2>TidyFound. TidyFound'
    BY <1>kept, <1>1, <1>3, <1>6, <1>8, <1>11, <1>s
       DEF KeptInv, TidyFound, FilingInv, DropFound, Opening, Sized, Shaped
  <2>DropFound. DropFound'
    BY <1>kept, <1>1, <1>6, <1>8, <1>10, <1>11 DEF KeptInv, DropFound
  <2> QED
    BY <2>u, <2>ItemsKept, <2>FilesPositive, <2>EntriesPositive, <2>UndoesPositive, <2>ManifestKept, <2>FilesKept,
       <2>UndoesKept, <2>Found, <2>TidyFound, <2>DropFound
       DEF KeptInv
<1> QED
  BY <1>kept, <1>t, <1>Held, <1>TidyHand, <1>PromoteHand, <1>WalkHand, <1>HandsOff, <1>DropHand,
     <1>ItemHand, <1>CopyHand, <1>PassOld, <1>PassTodo, <1>PassDrops, <1>PassDone, <1>PassManifest,
     <1>PassRules, <1>PassPushes, <1>UndoesFiles, <1>UndoesRules, <1>UndoesManifest, <1>OnceEach,
     <1>RulesTrue, <1>FilesTrue, <1>ManifestTrue, <1>Unghosted, <1>Bounded
     DEF FilingInv

-----------------------------------------------------------------------------
(* The syncs.                                                              *)
LEMMA FindKeeps ==
  ASSUME FilingInv, Minds, NEW d \in Docs, Find(d)
  PROVE  FilingInv' /\ (Gaps = {} /\ KeptInv => KeptInv')
<1>0. Typed /\ Shaped
  BY Shapes DEF FilingInv
<1>1. up /\ pass.at = "idle" /\ rows[d].kind = "none" /\ d \notin struck \cup tidy.docs
  BY DEF Find, GuardFree
<1>2. /\ rows' \in [Docs -> AnyRow]
      /\ rows'[d] = [kind |-> "pointer", filing |-> 1, seen |-> 1]
      /\ \A c \in Docs \ {d} : rows'[c] = rows[c]
  BY <1>0 DEF Find, Typed, AnyRow
<1>3. unflushed' = TRUE
  BY DEF Find
<1>4. UNCHANGED <<mirror, stale, files, manifest, rules, pass, last, tidy, promote, walk, up, crashes,
                  kept, torn, struck, unread>>
  BY DEF Find
<1>5. Stack' = Stack
  BY StackSame DEF Find
<1>t. Typed'
  BY <1>0, <1>2, <1>3, <1>4, <1>5 DEF Typed
<1>s. Shaped'
  BY <1>t, ShapesNext
<1>u. (Held /\ WalkHand /\ CopyHand /\ PassManifest /\ PassRules /\ UndoesRules /\ OnceEach /\
       RulesTrue)'
  BY <1>4, <1>5
     DEF FilingInv, Held, WalkHand, CopyHand, PassManifest, Stacked, PassRules, UndoesRules,
         OnceEach,
        RulesTrue
<1>TidyHand. TidyHand'
  BY <1>1, <1>2, <1>4, <1>s DEF FilingInv, TidyHand, Shaped
<1>PromoteHand. PromoteHand'
  BY <1>1, <1>2, <1>4, <1>s DEF FilingInv, PromoteHand, Shaped
<1>HandsOff. HandsOff'
  BY <1>1, <1>2, <1>4, <1>5 DEF FilingInv, HandsOff, Stacked, Held, Writing
<1>DropHand. DropHand'
  BY <1>1, <1>2, <1>4 DEF FilingInv, DropHand
<1>ItemHand. ItemHand'
  BY <1>1, <1>2, <1>4 DEF FilingInv, ItemHand
<1>PassOld. PassOld'
  BY <1>1, <1>2, <1>4 DEF FilingInv, PassOld, Held, Writing
<1>PassTodo. PassTodo'
  BY <1>1, <1>2, <1>4, <1>5 DEF FilingInv, PassTodo, Stacked, There, Held, Writing
<1>PassDrops. PassDrops'
  BY <1>1, <1>2, <1>4, <1>5 DEF FilingInv, PassDrops, Stacked, There, Held, Writing
<1>PassDone. PassDone'
  BY <1>1, <1>2, <1>4, <1>5 DEF FilingInv, PassDone, Stacked, There, Held, Writing
<1>PassPushes. PassPushes'
  BY <1>1, <1>2, <1>4 DEF FilingInv, PassPushes
<1>UndoesFiles. UndoesFiles'
  BY <1>1, <1>2, <1>4, <1>5 DEF FilingInv, UndoesFiles, Stacked
<1>UndoesManifest. UndoesManifest'
  BY <1>1, <1>2, <1>3, <1>4, <1>5 DEF FilingInv, UndoesManifest, Stacked, Fits, Item
<1>FilesTrue. FilesTrue'
  BY <1>1, <1>2, <1>4, <1>5 DEF FilingInv, FilesTrue, Stacked
<1>ManifestTrue. ManifestTrue'
  BY <1>1, <1>2, <1>3, <1>4, <1>5 DEF FilingInv, ManifestTrue, Stacked, Fits, Item
<1>Unghosted. Unghosted'
  BY <1>1, <1>2, <1>4, <1>s DEF FilingInv, Unghosted, Shaped
<1>Bounded. Bounded'
  BY <1>1, <1>2, <1>4, <1>5, <1>s DEF FilingInv, Bounded, Shaped
<1>kept. ASSUME Gaps = {}, KeptInv PROVE KeptInv'
  <2>0. Sized /\ Sized'
    BY <1>0, <1>t, Sizes, SizesNext
  <2>1. kept[d] = Nothing
    BY DEF Find
  <2>2. kept[d].filing = 0 /\ kept[d].seen = 0
    BY <2>1 DEF Nothing
  <2>u. (WalkPositive /\ EntriesPositive /\ UndoesPositive /\ KeptBounded /\ DropFound)'
    BY <1>kept, <1>4, <1>5
       DEF KeptInv, WalkPositive, EntriesPositive, Entries, UndoesPositive, KeptBounded, DropFound
  <2>RowsPositive. RowsPositive'
    BY <1>kept, <1>1, <1>2, <1>4, <2>1, <2>2 DEF KeptInv, RowsPositive, There
  <2>FilesPositive. FilesPositive'
    BY <1>kept, <1>1, <1>2, <1>4, <2>1, <2>2 DEF KeptInv, FilesPositive
  <2>RowsKept. RowsKept'
    BY <1>kept, <1>2, <1>4, <2>2 DEF KeptInv, RowsKept, There, FilingInv, Held
  <2>ItemsKept. ItemsKept'
    BY <1>kept, <1>2, <1>4, <2>2
       DEF KeptInv, ItemsKept, AtLeast, FilingInv, Held, NoRow, Nothing
  <2>ManifestKept. ManifestKept'
    BY <1>kept, <1>1, <1>2, <1>4, <2>1, <2>2
      DEF KeptInv, ManifestKept, NotOlder, AtLeast, Ahead, FilingInv
  <2>FilesKept. FilesKept'
    BY <1>kept, <1>1, <1>2, <1>4, <2>1, <2>2 DEF KeptInv, FilesKept
  <2>UndoesKept. UndoesKept'
    BY <1>kept, <1>1, <1>2, <1>4, <1>5, <2>1, <2>2
      DEF KeptInv, UndoesKept, NotOlder, AtLeast, Ahead, FilingInv
  <2>Found. Found'
    BY <1>kept, <1>1, <1>2, <1>4, <2>1, <2>2 DEF KeptInv, Found, There
  <2>TidyFound. TidyFound'
    BY <1>kept, <1>1, <1>2, <1>4, <2>1, <2>2, <1>s DEF KeptInv, TidyFound, FilingInv, Shaped
  <2> QED
    BY <2>u, <2>RowsPositive, <2>FilesPositive, <2>RowsKept, <2>ItemsKept, <2>ManifestKept, <2>FilesKept,
       <2>UndoesKept, <2>Found, <2>TidyFound
       DEF KeptInv
<1> QED
  BY <1>kept, <1>t, <1>u, <1>TidyHand, <1>PromoteHand, <1>HandsOff, <1>DropHand, <1>ItemHand,
     <1>PassOld, <1>PassTodo, <1>PassDrops, <1>PassDone, <1>PassPushes, <1>UndoesFiles,
     <1>UndoesManifest, <1>FilesTrue, <1>ManifestTrue, <1>Unghosted, <1>Bounded
     DEF FilingInv

LEMMA ChangeKeeps ==
  ASSUME FilingInv, Minds, NEW d \in Docs, Change(d)
  PROVE  FilingInv' /\ (Gaps = {} /\ KeptInv => KeptInv')
<1>0. Typed /\ Shaped
  BY Shapes DEF FilingInv
<1>1. up /\ pass.at = "idle" /\ rows[d].kind = "pointer"
  BY DEF Change, GuardFree
<1>2. /\ rows' \in [Docs -> AnyRow]
      /\ rows'[d].kind = "pointer" /\ rows'[d].filing = rows[d].filing
      /\ \A c \in Docs \ {d} : rows'[c] = rows[c]
  BY <1>0 DEF Change, Typed, AnyRow
<1>3. unflushed' = TRUE
  BY DEF Change
<1>4. UNCHANGED <<mirror, stale, files, manifest, rules, pass, last, tidy, promote, walk, up, crashes,
                  kept, torn, struck, unread>>
  BY DEF Change
<1>5. Stack' = Stack
  BY StackSame DEF Change
<1>t. Typed'
  BY <1>0, <1>2, <1>3, <1>4, <1>5 DEF Typed
<1>s. Shaped'
  BY <1>t, ShapesNext
<1>u. (Held /\ WalkHand /\ CopyHand /\ PassManifest /\ PassRules /\ UndoesRules /\ OnceEach /\
       RulesTrue)'
  BY <1>4, <1>5
     DEF FilingInv, Held, WalkHand, CopyHand, PassManifest, Stacked, PassRules, UndoesRules,
         OnceEach,
        RulesTrue
<1>TidyHand. TidyHand'
  BY <1>1, <1>2, <1>4, <1>s DEF FilingInv, TidyHand, Shaped
<1>PromoteHand. PromoteHand'
  BY <1>1, <1>2, <1>4, <1>s DEF FilingInv, PromoteHand, Shaped
<1>HandsOff. HandsOff'
  BY <1>1, <1>2, <1>4, <1>5 DEF FilingInv, HandsOff, Stacked, Held, Writing
<1>DropHand. DropHand'
  BY <1>1, <1>2, <1>4 DEF FilingInv, DropHand
<1>ItemHand. ItemHand'
  BY <1>1, <1>2, <1>4 DEF FilingInv, ItemHand
<1>PassOld. PassOld'
  BY <1>1, <1>2, <1>4 DEF FilingInv, PassOld
<1>PassTodo. PassTodo'
  BY <1>1, <1>2, <1>4, <1>5 DEF FilingInv, PassTodo, Stacked, There, Held, Writing
<1>PassDrops. PassDrops'
  BY <1>1, <1>2, <1>4, <1>5 DEF FilingInv, PassDrops, Stacked, There, Held, Writing
<1>PassDone. PassDone'
  BY <1>1, <1>2, <1>4, <1>5 DEF FilingInv, PassDone, Stacked, There, Held, Writing
<1>PassPushes. PassPushes'
  BY <1>1, <1>2, <1>4 DEF FilingInv, PassPushes
<1>UndoesFiles. UndoesFiles'
  BY <1>1, <1>2, <1>4, <1>5 DEF FilingInv, UndoesFiles, Stacked
<1>UndoesManifest. UndoesManifest'
  BY <1>1, <1>2, <1>3, <1>4, <1>5 DEF FilingInv, UndoesManifest, Stacked, Fits, Item
<1>FilesTrue. FilesTrue'
  BY <1>1, <1>2, <1>4, <1>5 DEF FilingInv, FilesTrue, Stacked
<1>ManifestTrue. ManifestTrue'
  BY <1>1, <1>2, <1>3, <1>4, <1>5 DEF FilingInv, ManifestTrue, Stacked, Fits, Item
<1>Unghosted. Unghosted'
  BY <1>1, <1>2, <1>4, <1>s DEF FilingInv, Unghosted, Shaped
<1>Bounded. Bounded'
  BY <1>1, <1>2, <1>4, <1>5 DEF FilingInv, Bounded
<1>kept. ASSUME Gaps = {}, KeptInv PROVE KeptInv'
  <2>0. Sized /\ Sized'
    BY <1>0, <1>t, Sizes, SizesNext
  <2>1. rows'[d].seen >= rows[d].seen
    BY <1>0 DEF Change, Typed, AnyRow
  <2>u. (WalkPositive /\ EntriesPositive /\ UndoesPositive /\ KeptBounded /\ DropFound)'
    BY <1>kept, <1>4, <1>5
       DEF KeptInv, WalkPositive, EntriesPositive, Entries, UndoesPositive, KeptBounded, DropFound
  <2>RowsPositive. RowsPositive'
    BY <1>kept, <1>1, <1>2, <1>4, <2>1 DEF KeptInv, RowsPositive, There
  <2>FilesPositive. FilesPositive'
    BY <1>kept, <1>1, <1>2, <1>4, <2>1 DEF KeptInv, FilesPositive
  <2>RowsKept. RowsKept'
    <3> SUFFICES ASSUME NEW c \in Docs, There(c)'
                 PROVE  /\ rows'[c].filing >= kept[c].filing
                        /\ rows'[c].kind = "pointer" => rows'[c].seen >= kept[c].seen
      BY <1>4 DEF RowsKept
    <3>1. CASE c # d
      BY <3>1, <1>kept, <1>2 DEF KeptInv, RowsKept, There
    <3>2. CASE c = d
      <4>1. rows[d].filing >= kept[d].filing /\ rows[d].seen >= kept[d].seen
        BY <1>kept, <1>1 DEF KeptInv, RowsKept, There
      <4>2. kept[d].seen \in Nat /\ rows[d].seen \in Nat /\ rows'[d].seen \in Nat
        BY <2>0 DEF Sized
      <4>3. rows'[d].seen >= kept[d].seen
        BY <4>1, <4>2, <2>1
      <4> QED
        BY <3>2, <4>1, <4>3, <1>2
    <3> QED
      BY <3>1, <3>2
  <2>ItemsKept. ItemsKept'
    BY <1>kept, <1>1, <1>2, <1>3, <1>4, <1>5
       DEF KeptInv, ItemsKept, AtLeast, FilingInv, Held, NoRow, Nothing
  <2>ManifestKept. ManifestKept'
    BY <1>kept, <1>1, <1>2, <1>4, <2>1 DEF KeptInv, ManifestKept, NotOlder, AtLeast, Ahead
  <2>FilesKept. FilesKept'
    BY <1>kept, <1>1, <1>2, <1>4, <2>1 DEF KeptInv, FilesKept
  <2>UndoesKept. UndoesKept'
    BY <1>kept, <1>1, <1>2, <1>4, <1>5, <2>1 DEF KeptInv, UndoesKept, NotOlder, AtLeast, Ahead
  <2>Found. Found'
    BY <1>kept, <1>1, <1>2, <1>4, <2>1 DEF KeptInv, Found, There
  <2>TidyFound. TidyFound'
    BY <1>kept, <1>1, <1>2, <1>4, <2>1, <1>s DEF KeptInv, TidyFound, FilingInv, Shaped
  <2> QED
    BY <2>u, <2>RowsPositive, <2>FilesPositive, <2>RowsKept, <2>ItemsKept, <2>ManifestKept, <2>FilesKept,
       <2>UndoesKept, <2>Found, <2>TidyFound
       DEF KeptInv
<1> QED
  BY <1>kept, <1>t, <1>u, <1>TidyHand, <1>PromoteHand, <1>HandsOff, <1>DropHand, <1>ItemHand,
     <1>PassOld, <1>PassTodo, <1>PassDrops, <1>PassDone, <1>PassPushes, <1>UndoesFiles,
     <1>UndoesManifest, <1>FilesTrue, <1>ManifestTrue, <1>Unghosted, <1>Bounded
     DEF FilingInv

LEMMA FlushKeeps ==
  ASSUME FilingInv, Minds, Flush
  PROVE  FilingInv' /\ (Gaps = {} /\ KeptInv => KeptInv')
<1>0. Typed /\ Shaped
  BY Shapes DEF FilingInv
<1>1. up /\ pass.at = "idle" /\ unflushed /\ tidy.at # "write"
  BY DEF Flush, GuardFree, Alone, Minds
<1>m. PICK m \in {manifest, NoItems} :
        Reading(rows, m) /\ pass' = [Idle EXCEPT !.at = "push", !.copy = Merged(rows, m)]
  BY DEF Flush, Readings
<1>2. Merged(rows, m) \in [Docs -> AnyItem]
  BY <1>0, <1>m, MergedShape, NoItemsShape DEF Typed
<1>3. pass' \in Passes /\ pass'.at = "push" /\ pass'.no = 0 /\ pass'.drops = {} /\ pass'.todo = {}
  BY <1>2, <1>m, IdleShape DEF Passes, Writing
<1>4. pass'.copy = Merged(rows, m)
  BY <1>m DEF Idle
<1>5. UNCHANGED <<rows, mirror, stale, files, manifest, rules, last, tidy, promote, walk, unflushed, up,
                  crashes, kept, torn, struck>>
  BY DEF Flush
<1>6. pass'.written = <<>>
  BY <1>m DEF Idle
<1>7. Stack' = {}
  BY <1>6, StackNoneNext DEF StackNoneNext
<1>8. unread \subseteq unread' /\ unread' \subseteq Docs
  BY <1>0, <1>m DEF Reading, Typed
<1>t. Typed'
  BY <1>0, <1>3, <1>4, <1>5, <1>6, <1>7, <1>8 DEF Typed
<1>s. Shaped'
  BY <1>t, ShapesNext
<1>u. (TidyHand /\ PromoteHand /\ WalkHand /\ ItemHand /\ CopyHand /\ Unghosted)'
  BY <1>5 DEF FilingInv, TidyHand, PromoteHand, WalkHand, ItemHand, CopyHand, Unghosted
<1>Held. Held'
  BY <1>1, <1>2, <1>3, <1>5, <1>6, <1>7 DEF FilingInv, Held, Opening
<1>HandsOff. HandsOff'
  BY <1>1, <1>2, <1>3, <1>5, <1>6, <1>7 DEF FilingInv, HandsOff, Stacked
<1>DropHand. DropHand'
  BY <1>1, <1>2, <1>3, <1>5 DEF FilingInv, DropHand
<1>PassOld. PassOld'
  BY <1>1, <1>2, <1>3, <1>5 DEF FilingInv, PassOld
<1>PassTodo. PassTodo'
  BY <1>1, <1>2, <1>3, <1>5, <1>6, <1>7 DEF FilingInv, PassTodo, Stacked, There
<1>PassDrops. PassDrops'
  BY <1>1, <1>2, <1>3, <1>5, <1>6, <1>7 DEF FilingInv, PassDrops, Stacked, There
<1>PassDone. PassDone'
  BY <1>1, <1>2, <1>3, <1>5, <1>6, <1>7 DEF FilingInv, PassDone, Stacked, There
<1>PassManifest. PassManifest'
  BY <1>1, <1>2, <1>3, <1>5, <1>6, <1>7 DEF FilingInv, PassManifest, Stacked
<1>PassRules. PassRules'
  BY <1>1, <1>2, <1>3, <1>5, <1>6, <1>7 DEF FilingInv, PassRules, Stacked
<1>PassPushes. PassPushes'
  BY <1>1, <1>3, <1>4, <1>5, <1>m DEF PassPushes, Reading
<1>UndoesFiles. UndoesFiles'
  BY <1>1, <1>2, <1>5, <1>6, <1>7 DEF FilingInv, UndoesFiles, Stacked
<1>UndoesRules. UndoesRules'
  BY <1>1, <1>2, <1>5, <1>6, <1>7 DEF FilingInv, UndoesRules
<1>UndoesManifest. UndoesManifest'
  BY <1>1, <1>2, <1>5, <1>6, <1>7 DEF FilingInv, UndoesManifest, Stacked, Fits, Item
<1>OnceEach. OnceEach'
  BY <1>1, <1>2, <1>5, <1>6, <1>7 DEF FilingInv, OnceEach, Stacked
<1>RulesTrue. RulesTrue'
  BY <1>1, <1>2, <1>5, <1>6, <1>7 DEF FilingInv, RulesTrue, Stacked, Held, Writing
<1>FilesTrue. FilesTrue'
  BY <1>1, <1>2, <1>5, <1>6, <1>7 DEF FilingInv, FilesTrue, Stacked, Held, Writing
<1>ManifestTrue. ManifestTrue'
  BY <1>1, <1>2, <1>3, <1>5, <1>6, <1>7 DEF FilingInv, ManifestTrue, Stacked, Fits, Item
<1>Bounded. Bounded'
  BY <1>1, <1>2, <1>5, <1>6, <1>7 DEF FilingInv, Bounded
<1>kept. ASSUME Gaps = {}, KeptInv PROVE KeptInv'
  <2>0. Sized /\ Sized'
    BY <1>0, <1>t, Sizes, SizesNext
  <2>u. (RowsPositive /\ FilesPositive /\ WalkPositive /\ EntriesPositive /\ RowsKept /\ ItemsKept /\ FilesKept /\
         KeptBounded /\ Found /\ TidyFound)'
    BY <1>kept, <1>5, <1>8
       DEF KeptInv, RowsPositive, There, FilesPositive, WalkPositive, EntriesPositive, Entries,
           RowsKept, ItemsKept, AtLeast,
          FilesKept, KeptBounded, Found, TidyFound
  <2>UndoesPositive. UndoesPositive'
    BY <1>kept, <1>1, <1>2, <1>5, <1>6, <1>7 DEF KeptInv, UndoesPositive, Entries
  <2>ManifestKept. ManifestKept'
    BY <1>kept, <1>1, <1>2, <1>3, <1>5, <1>8 DEF KeptInv, ManifestKept, NotOlder, AtLeast, Ahead
  <2>UndoesKept. UndoesKept'
    BY <1>kept, <1>1, <1>2, <1>3, <1>5, <1>6, <1>7 DEF KeptInv, UndoesKept, NotOlder, AtLeast, Ahead
  <2>DropFound. DropFound'
    BY <1>kept, <1>1, <1>2, <1>3, <1>5 DEF KeptInv, DropFound
  <2> QED
    BY <2>u, <2>UndoesPositive, <2>ManifestKept, <2>UndoesKept, <2>DropFound DEF KeptInv
<1> QED
  BY <1>kept, <1>t, <1>u, <1>Held, <1>HandsOff, <1>DropHand, <1>PassOld, <1>PassTodo, <1>PassDrops,
     <1>PassDone, <1>PassManifest, <1>PassRules, <1>PassPushes, <1>UndoesFiles, <1>UndoesRules,
     <1>UndoesManifest, <1>OnceEach, <1>RulesTrue, <1>FilesTrue, <1>ManifestTrue, <1>Bounded
     DEF FilingInv

LEMMA EndFlushKeeps ==
  ASSUME FilingInv, Minds, EndFlush
  PROVE  FilingInv' /\ (Gaps = {} /\ KeptInv => KeptInv')
<1>0. Typed /\ Shaped
  BY Shapes DEF FilingInv
<1>1. pass.at = "push" /\ pass.no = 0
  BY DEF EndFlush
<1> DEFINE answered == [c \in Docs |-> IF rows[c].kind = "pointer" THEN Item(rows[c]) ELSE kept[c]]
<1>2. /\ \/ manifest' = pass.copy /\ stale' = FALSE /\ torn' = torn \ {"manifest"} /\ kept' = answered
         \/ manifest' = manifest /\ stale' = TRUE /\ torn' = torn /\ kept' = answered
         \/ manifest' = manifest /\ stale' = stale /\ torn' = torn \cup {"manifest"} /\ kept' = kept
      /\ unflushed' = FALSE
  BY <1>0 DEF EndFlush, Outcomes, Typed
<1>m. PICK m \in {manifest, NoItems} :
        /\ pass.copy = Merged(rows, m)
        /\ \A c \in Docs : rows[c].kind = "none" /\ m[c] # manifest[c] => c \in unread
  BY <1>1 DEF FilingInv, PassPushes
<1>n. m \in [Docs -> AnyItem] /\ \A c \in Docs : m[c] \in {Nothing, manifest[c]}
  BY <1>0, <1>m, NoItemsShape DEF Typed
<1>a. answered \in [Docs -> AnyItem]
  BY <1>0 DEF Typed, Item, AnyItem, AnyRow
<1> HIDE DEF answered
<1>3. /\ manifest' \in [Docs -> AnyItem] /\ kept' \in [Docs -> AnyItem] /\ stale' \in BOOLEAN
      /\ torn' \subseteq Docs \cup {"rules", "manifest"} /\ (\A x : x # "manifest" => (x \in torn' <=> x \in torn))
  <2>1. Merged(rows, m) \in [Docs -> AnyItem]
    BY <1>0, <1>n, MergedShape DEF Typed
  <2> QED
    BY <1>0, <1>2, <1>m, <1>a, <2>1 DEF Typed
<1>b. \A c \in Docs :
        /\ manifest'[c] = manifest[c] \/ manifest'[c] = IF rows[c].kind = "pointer" THEN Item(rows[c]) ELSE m[c]
        /\ rows[c].kind # "pointer" => manifest'[c] \in {Nothing, manifest[c]}
  BY <1>2, <1>m, <1>n DEF Merged
<1>c. \/ stale' \/ "manifest" \in torn'
      \/ \A c \in Docs : rows[c].kind = "pointer" => manifest'[c] = Item(rows[c])
  BY <1>2, <1>m DEF Merged
<1>4. pass' \in Passes /\ pass'.at = "idle" /\ pass'.no = 0 /\ pass'.drops = {} /\ pass'.todo = {}
  BY <1>0
    DEF EndFlush, Opening, Idle, Typed, Passes, NoItems, NoRows, NoRow, Nothing, AnyItem, AnyRow
<1>5. UNCHANGED <<rows, mirror, files, rules, last, tidy, promote, walk, up, crashes, struck, unread>>
  BY DEF EndFlush
<1>6. pass'.written = <<>>
  BY DEF EndFlush, Idle, Outcomes
<1>7. Stack' = {}
  BY <1>6, StackNoneNext DEF StackNoneNext
<1>t. Typed'
  BY <1>0, <1>2, <1>3, <1>4, <1>5, <1>6, <1>7 DEF Typed
<1>s. Shaped'
  BY <1>t, ShapesNext
<1>u. (TidyHand /\ PromoteHand /\ WalkHand)'
  BY <1>5 DEF FilingInv, TidyHand, PromoteHand, WalkHand
<1>Held. Held'
  BY <1>1, <1>4, <1>5, <1>6, <1>7 DEF FilingInv, Held, Opening
<1>HandsOff. HandsOff'
  BY <1>1, <1>4, <1>5, <1>6, <1>7 DEF FilingInv, HandsOff, Stacked
<1>DropHand. DropHand'
  BY <1>1, <1>4, <1>5 DEF FilingInv, DropHand
<1>ItemHand. ItemHand'
  BY <1>5, <1>b DEF FilingInv, ItemHand
<1>CopyHand. CopyHand'
  BY <1>1, <1>2, <1>3, <1>5 DEF FilingInv, CopyHand, PassPushes
<1>PassOld. PassOld'
  BY <1>1, <1>4, <1>5 DEF FilingInv, PassOld
<1>PassTodo. PassTodo'
  BY <1>1, <1>4, <1>5, <1>6, <1>7 DEF FilingInv, PassTodo, Stacked, There
<1>PassDrops. PassDrops'
  BY <1>1, <1>4, <1>5, <1>6, <1>7 DEF FilingInv, PassDrops, Stacked, There
<1>PassDone. PassDone'
  BY <1>1, <1>4, <1>5, <1>6, <1>7 DEF FilingInv, PassDone, Stacked, There
<1>PassManifest. PassManifest'
  BY <1>1, <1>2, <1>3, <1>4, <1>5, <1>6, <1>7 DEF FilingInv, PassManifest, Stacked
<1>PassRules. PassRules'
  BY <1>1, <1>4, <1>5, <1>6, <1>7 DEF FilingInv, PassRules, Stacked
<1>PassPushes. PassPushes'
  BY <1>1, <1>2, <1>3, <1>4, <1>5 DEF FilingInv, PassPushes
<1>UndoesFiles. UndoesFiles'
  BY <1>7 DEF UndoesFiles
<1>UndoesRules. UndoesRules'
  BY <1>7 DEF UndoesRules
<1>UndoesManifest. UndoesManifest'
  BY <1>7 DEF UndoesManifest
<1>OnceEach. OnceEach'
  BY <1>1, <1>5, <1>6, <1>7 DEF FilingInv, OnceEach, Stacked
<1>RulesTrue. RulesTrue'
  BY <1>1, <1>3, <1>5 DEF FilingInv, RulesTrue, Stacked, Held
<1>FilesTrue. FilesTrue'
  BY <1>1, <1>3, <1>5, Plain DEF FilingInv, FilesTrue, Stacked, Held
<1>ManifestTrue. ManifestTrue'
  BY <1>5, <1>c DEF ManifestTrue, Fits, Item
<1>Unghosted. Unghosted'
  BY <1>0, <1>5, <1>b DEF FilingInv, Unghosted, Shaped
<1>Bounded. Bounded'
  <2>1. last \in Nat /\ \A c \in Docs : manifest[c].filing <= last /\ rows[c].filing <= last
    BY <1>0 DEF FilingInv, Bounded, Shaped
  <2>2. ASSUME NEW c \in Docs PROVE manifest'[c].filing <= last
    <3>1. CASE manifest'[c] = manifest[c]
      BY <2>1, <3>1
    <3>2. CASE manifest'[c] = Item(rows[c])
      BY <2>1, <3>2 DEF Item
    <3>3. CASE manifest'[c] = Nothing
      BY <2>1, <3>3 DEF Nothing
    <3> QED
      BY <1>b, <1>n, <3>1, <3>2, <3>3
  <2> QED
    BY <1>5, <1>7, <2>2 DEF FilingInv, Bounded
<1>kept. ASSUME Gaps = {}, KeptInv PROVE KeptInv'
  <2>0. Sized /\ Sized'
    BY <1>0, <1>t, Sizes, SizesNext
  <2>2. \A c \in Docs :
          /\ \/ kept'[c] = kept[c]
             \/ /\ rows[c].kind = "pointer"
                /\ kept'[c].filing = rows[c].filing /\ kept'[c].seen = rows[c].seen
          /\ rows[c].kind # "pointer" => kept'[c] = kept[c]
    BY <1>2 DEF Item, answered
  <2>3. \A c \in Docs :
          /\ rows[c].kind # "pointer" => manifest'[c] \in {Nothing, manifest[c]}
          /\ rows[c].kind = "none" /\ manifest'[c] # manifest[c] => c \in unread
    BY <1>b, <1>m
  <2>4. \A c \in Docs : rows[c].kind = "pointer" /\ ~stale' =>
          \/ manifest'[c].filing = rows[c].filing /\ manifest'[c].seen = rows[c].seen
          \/ manifest'[c] = manifest[c] /\ kept'[c] = kept[c] /\ stale' = stale
    <3>1. CASE manifest' = Merged(rows, m)
      BY <3>1 DEF Merged, Item
    <3>2. CASE manifest' = manifest /\ (stale' = TRUE \/ (stale' = stale /\ kept' = kept))
      BY <3>2
    <3> QED
      BY <1>2, <1>m, <3>1, <3>2
  <2>5. \A c \in Docs : rows[c].kind = "pointer" => manifest'[c] = manifest[c] \/ manifest'[c] # Nothing
    <3> SUFFICES ASSUME NEW c \in Docs, rows[c].kind = "pointer", manifest'[c] = Item(rows[c])
                 PROVE  manifest'[c] # Nothing
      BY <1>b
    <3>1. Item(rows[c]).filing > 0
      BY <1>kept DEF KeptInv, RowsPositive, There, Item
    <3> QED
      BY <3>1 DEF Nothing
  <2>u. (RowsPositive /\ FilesPositive /\ WalkPositive)'
    BY <1>kept, <1>5 DEF KeptInv, RowsPositive, There, FilesPositive, WalkPositive
  <2>EntriesPositive. EntriesPositive'
    <3>1. ASSUME NEW c \in Docs, manifest'[c] # Nothing PROVE manifest'[c].filing > 0
      <4>1. CASE manifest'[c] = manifest[c]
        BY <3>1, <4>1, <1>kept DEF KeptInv, EntriesPositive, Entries
      <4>2. CASE rows[c].kind = "pointer" /\ manifest'[c] = Item(rows[c])
        BY <4>2, <1>kept DEF KeptInv, RowsPositive, There, Item
      <4> QED
        BY <1>b, <2>3, <3>1, <4>1, <4>2
    <3> QED
      BY <1>5, <1>kept, <3>1 DEF KeptInv, EntriesPositive, Entries
  <2>UndoesPositive. UndoesPositive'
    BY <1>7 DEF UndoesPositive
  <2>RowsKept. RowsKept'
    BY <1>5, <1>kept, <2>0, <2>2 DEF KeptInv, RowsKept, There, Sized
  <2>ItemsKept. ItemsKept'
    BY <1>5, <1>kept, <2>2, <2>3 DEF KeptInv, ItemsKept, AtLeast
  <2>ManifestKept. ManifestKept'
    <3>1. ASSUME NEW c \in Docs, rows[c].kind = "none", manifest'[c] # Nothing
          PROVE  AtLeast(manifest'[c], kept'[c])
      BY <3>1, <2>2, <2>3, <1>kept DEF KeptInv, ManifestKept, NotOlder
    <3>2. ASSUME NEW c \in Docs, rows[c].kind = "pointer", ~stale'
          PROVE  /\ manifest'[c] # Nothing => AtLeast(manifest'[c], kept'[c])
                 /\ manifest'[c] = Nothing => kept'[c] = Nothing \/ c \in unread
      <4>1. CASE manifest'[c].filing = rows[c].filing /\ manifest'[c].seen = rows[c].seen
        <5>1. AtLeast(manifest'[c], kept'[c])
          BY <3>2, <4>1, <2>0, <2>2, <1>kept DEF KeptInv, RowsKept, There, AtLeast, Sized
        <5>2. rows[c].filing > 0
          BY <3>2, <1>kept DEF KeptInv, RowsPositive, There
        <5> QED
          BY <4>1, <5>1, <5>2 DEF Nothing
      <4>2. CASE manifest'[c] = manifest[c] /\ kept'[c] = kept[c] /\ stale' = stale
        BY <1>1, <3>2, <4>2, <1>kept DEF KeptInv, ManifestKept, NotOlder, Ahead
      <4> QED
        BY <3>2, <4>1, <4>2, <2>4
    <3> QED
      BY <1>4, <1>5, <3>1, <3>2 DEF ManifestKept, NotOlder, Ahead
  <2>FilesKept. FilesKept'
    BY <1>kept, <1>5, <2>2 DEF KeptInv, FilesKept
  <2>UndoesKept. UndoesKept'
    BY <1>7 DEF UndoesKept
  <2>KeptBounded. KeptBounded'
    BY <1>kept, <1>5, <2>2 DEF KeptInv, KeptBounded, FilingInv, Bounded
  <2>Found. Found'
    BY <1>0, <1>kept, <1>5, <2>2, <2>3 DEF KeptInv, Found, There, Shaped
  <2>TidyFound. TidyFound'
    BY <1>0, <2>2, <1>5, <1>kept DEF FilingInv, TidyHand, KeptInv, TidyFound, Shaped
  <2>DropFound. DropFound'
    BY <1>kept, <1>1, <1>3, <1>4, <1>5, <2>2, <2>4, <2>5 DEF KeptInv, DropFound
  <2> QED
    BY <2>u, <2>EntriesPositive, <2>UndoesPositive, <2>RowsKept, <2>ItemsKept, <2>ManifestKept, <2>FilesKept,
       <2>UndoesKept, <2>KeptBounded, <2>Found, <2>TidyFound, <2>DropFound
       DEF KeptInv
<1> QED
  BY <1>kept, <1>t, <1>u, <1>Held, <1>HandsOff, <1>DropHand, <1>ItemHand, <1>CopyHand, <1>PassOld,
     <1>PassTodo, <1>PassDrops, <1>PassDone, <1>PassManifest, <1>PassRules, <1>PassPushes,
     <1>UndoesFiles, <1>UndoesRules, <1>UndoesManifest, <1>OnceEach, <1>RulesTrue, <1>FilesTrue,
     <1>ManifestTrue, <1>Unghosted, <1>Bounded
     DEF FilingInv

-----------------------------------------------------------------------------
(* Deletes.                                                                *)
LEMMA DeleteKeeps ==
  ASSUME FilingInv, Minds, NEW d \in Docs, Delete(d)
  PROVE  FilingInv' /\ (Gaps = {} /\ KeptInv => KeptInv')
<1>0. Typed /\ Shaped
  BY Shapes DEF FilingInv
<1>1. up /\ pass.at = "idle" /\ There(d) /\ tidy.at = "idle" /\ d \notin walk.docs \cup promote.docs /\ walk.items[d] = Nothing
  BY DEF Delete, GuardFree, Undisturbed, Minds
<1>2. /\ rows' \in [Docs -> AnyRow] /\ rows'[d].kind = "none" /\ rows'[d].filing = 0
      /\ \A c \in Docs \ {d} : rows'[c] = rows[c]
  BY <1>0 DEF Delete, Typed, AnyRow, NoRow
<1>3. tidy' \in Tidies /\ tidy'.docs = {d} /\ tidy'.at \in {"unlink", "read"}
  BY <1>0 DEF Delete, Tidied, Tidies, NoItems, Nothing, AnyItem, Typed
<1>4. kept' \in [Docs -> AnyItem] /\ torn' = torn \ {d}
  BY <1>0 DEF Delete, Typed, Nothing, AnyItem
<1>5. UNCHANGED <<mirror, stale, files, manifest, rules, pass, last, promote, walk, unflushed, up,
                  crashes, struck, unread>>
  BY DEF Delete
<1>6. Stack' = Stack
  BY StackSame DEF Delete
<1>7. "rules" # d /\ "manifest" # d
  BY Plain
<1>8. ("rules" \in torn => "rules" \in torn') /\ ("manifest" \in torn => "manifest" \in torn')
  BY <1>4, <1>7
<1>t. Typed'
  BY <1>0, <1>2, <1>3, <1>4, <1>5, <1>6 DEF Typed
<1>s. Shaped'
  BY <1>t, ShapesNext
<1>u. (WalkHand /\ PassRules /\ UndoesRules /\ OnceEach /\ RulesTrue)'
  BY <1>5, <1>6, <1>8 DEF FilingInv, WalkHand, PassRules, Stacked, UndoesRules, OnceEach, RulesTrue
<1>Held. Held'
  BY <1>1, <1>3, <1>5, <1>6 DEF FilingInv, Held, Opening
<1>TidyHand. TidyHand'
  BY <1>1, <1>2, <1>3, <1>5 DEF FilingInv, TidyHand
<1>PromoteHand. PromoteHand'
  BY <1>1, <1>2, <1>5, <1>s DEF FilingInv, PromoteHand, Shaped
<1>HandsOff. HandsOff'
  BY <1>1, <1>2, <1>5, <1>6 DEF FilingInv, HandsOff, Stacked, Held, Writing
<1>DropHand. DropHand'
  BY <1>1, <1>2, <1>5 DEF FilingInv, DropHand
<1>ItemHand. ItemHand'
  BY <1>1, <1>2, <1>5 DEF FilingInv, ItemHand
<1>CopyHand. CopyHand'
  BY <1>1, <1>3, <1>5 DEF FilingInv, CopyHand
<1>PassOld. PassOld'
  BY <1>1, <1>2, <1>5 DEF FilingInv, PassOld, Held, Writing
<1>PassTodo. PassTodo'
  BY <1>1, <1>2, <1>5, <1>6 DEF FilingInv, PassTodo, Stacked, There, Held, Writing
<1>PassDrops. PassDrops'
  BY <1>1, <1>2, <1>5, <1>6 DEF FilingInv, PassDrops, Stacked, There, Held, Writing
<1>PassDone. PassDone'
  BY <1>1, <1>2, <1>5, <1>6 DEF FilingInv, PassDone, Stacked, There, Held, Writing
<1>PassManifest. PassManifest'
  BY <1>1, <1>3, <1>5, <1>6 DEF FilingInv, PassManifest, Stacked
<1>PassPushes. PassPushes'
  BY <1>1, <1>2, <1>3, <1>5 DEF FilingInv, PassPushes
<1>UndoesFiles. UndoesFiles'
  BY <1>1, <1>2, <1>4, <1>5, <1>6 DEF FilingInv, UndoesFiles, Stacked, Held, Writing
<1>UndoesManifest. UndoesManifest'
  <2>1. Stack = {}
    BY <1>1 DEF FilingInv, Held, Writing
  <2> QED
    BY <1>6, <2>1 DEF UndoesManifest
<1>FilesTrue. FilesTrue'
  BY <1>1, <1>2, <1>4, <1>5, <1>6 DEF FilingInv, FilesTrue, Stacked
<1>ManifestTrue. ManifestTrue'
  BY <1>1, <1>2, <1>5, <1>6, <1>8 DEF FilingInv, ManifestTrue, Stacked, Fits, Item
<1>Unghosted. Unghosted'
  BY <1>1, <1>2, <1>5, <1>s DEF FilingInv, Unghosted, Shaped
<1>Bounded. Bounded'
  BY <1>1, <1>2, <1>5, <1>6, <1>s DEF FilingInv, Bounded, Shaped
<1>kept. ASSUME Gaps = {}, KeptInv PROVE KeptInv'
  <2>0. Sized /\ Sized'
    BY <1>0, <1>t, Sizes, SizesNext
  <2>1. kept'[d] = Nothing /\ (\A c \in Docs \ {d} : kept'[c] = kept[c])
    BY <1>0 DEF Delete, Typed
  <2>2. kept'[d].filing = 0 /\ kept'[d].seen = 0
    BY <2>1 DEF Nothing
  <2>u. (WalkPositive /\ EntriesPositive /\ UndoesPositive)'
    BY <1>kept, <1>5, <1>6 DEF KeptInv, WalkPositive, EntriesPositive, Entries, UndoesPositive
  <2>RowsPositive. RowsPositive'
    BY <1>kept, <1>1, <1>2, <1>5, <2>1, <2>2 DEF KeptInv, RowsPositive, There
  <2>FilesPositive. FilesPositive'
    BY <1>kept, <1>1, <1>2, <1>5, <2>1, <2>2 DEF KeptInv, FilesPositive
  <2>RowsKept. RowsKept'
    BY <1>kept, <1>1, <1>2, <1>4, <1>5, <2>1, <2>2 DEF KeptInv, RowsKept, There, FilingInv
  <2>ItemsKept. ItemsKept'
    BY <1>kept, <1>1, <1>2, <1>4, <1>5, <2>1, <2>2
       DEF KeptInv, ItemsKept, AtLeast, FilingInv, Held, NoRow, Nothing
  <2>ManifestKept. ManifestKept'
    BY <1>1, <1>2, <1>5, <1>kept, <2>0, <2>1, <2>2
      DEF KeptInv, ManifestKept, NotOlder, AtLeast, Ahead, Sized
  <2>FilesKept. FilesKept'
    BY <1>kept, <1>1, <1>2, <1>4, <1>5, <2>1, <2>2 DEF KeptInv, FilesKept, FilingInv, Typed
  <2>UndoesKept. UndoesKept'
    BY <1>kept, <1>1, <1>2, <1>4, <1>5, <1>6, <2>1, <2>2
       DEF KeptInv, UndoesKept, NotOlder, AtLeast, Ahead, FilingInv, Held, Writing
  <2>KeptBounded. KeptBounded'
    BY <1>0, <1>5, <1>kept, <2>2, <2>1 DEF KeptInv, KeptBounded, Typed
  <2>Found. Found'
    BY <1>kept, <1>1, <1>2, <1>4, <1>5, <2>1, <2>2 DEF KeptInv, Found, There, FilingInv
  <2>TidyFound. TidyFound'
    BY <1>kept, <1>1, <1>2, <1>3, <1>4, <1>5, <2>1, <2>2 DEF KeptInv, TidyFound, FilingInv
  <2>DropFound. DropFound'
    BY <1>kept, <1>1, <1>4, <1>5, <2>1, <2>2 DEF KeptInv, DropFound
  <2> QED
    BY <2>u, <2>RowsPositive, <2>FilesPositive, <2>RowsKept, <2>ItemsKept, <2>ManifestKept, <2>FilesKept,
       <2>UndoesKept, <2>KeptBounded, <2>Found, <2>TidyFound, <2>DropFound
       DEF KeptInv
<1> QED
  BY <1>kept, <1>t, <1>u, <1>Held, <1>TidyHand, <1>PromoteHand, <1>HandsOff, <1>DropHand,
     <1>ItemHand,
     <1>CopyHand, <1>PassOld, <1>PassTodo, <1>PassDrops, <1>PassDone, <1>PassManifest, <1>PassPushes,
     <1>UndoesFiles, <1>UndoesManifest, <1>FilesTrue, <1>ManifestTrue, <1>Unghosted, <1>Bounded
     DEF FilingInv

LEMMA UnlinkKeeps ==
  ASSUME FilingInv, Minds, Unlink
  PROVE  FilingInv' /\ (Gaps = {} /\ KeptInv => KeptInv')
<1>0. Typed /\ Shaped
  BY Shapes DEF FilingInv
<1>1. tidy.at = "unlink"
  BY DEF Unlink
<1>2. files' \in [Docs -> Nat] /\ (\A c \in Docs : files'[c] # files[c] => c \in tidy.docs /\ files'[c] = 0)
  BY <1>0 DEF Unlink, Typed
<1>3. tidy' \in Tidies /\ tidy'.at = "idle" /\ tidy'.docs = {}
  BY <1>0 DEF Unlink, Tidied, Tidies, NoItems, Nothing, AnyItem, Typed
<1>4. UNCHANGED <<rows, mirror, stale, manifest, rules, pass, last, promote, walk, unflushed, up,
                  crashes, kept, torn, struck, unread>>
  BY DEF Unlink
<1>5. Stack' = Stack
  BY StackSame DEF Unlink
<1>t. Typed'
  BY <1>0, <1>2, <1>3, <1>4, <1>5 DEF Typed
<1>s. Shaped'
  BY <1>t, ShapesNext
<1>u. (HandsOff /\ DropHand /\ ItemHand /\ PassOld /\ PassTodo /\ PassDrops /\ PassRules /\
       UndoesFiles /\ UndoesRules /\ OnceEach /\ RulesTrue /\ ManifestTrue /\ Unghosted)'
  BY <1>4, <1>5
     DEF FilingInv, HandsOff, Stacked, DropHand, ItemHand, PassOld, PassTodo, There, PassDrops,
         PassRules,
        UndoesFiles, UndoesRules, OnceEach, RulesTrue, ManifestTrue, Fits, Item, Unghosted
<1>Held. Held'
  BY <1>1, <1>3, <1>4, <1>5 DEF FilingInv, Held
<1>TidyHand. TidyHand'
  BY <1>1, <1>3, <1>4 DEF FilingInv, TidyHand
<1>PromoteHand. PromoteHand'
  BY <1>1, <1>2, <1>4, <1>s DEF FilingInv, PromoteHand, TidyHand, Shaped
<1>WalkHand. WalkHand'
  BY <1>1, <1>2, <1>4, <1>s DEF FilingInv, WalkHand, TidyHand, Shaped
<1>CopyHand. CopyHand'
  BY <1>1, <1>3, <1>4 DEF FilingInv, CopyHand
<1>PassDone. PassDone'
  BY <1>1, <1>2, <1>4, <1>5 DEF FilingInv, PassDone, Stacked, There, TidyHand
<1>PassManifest. PassManifest'
  BY <1>1, <1>3, <1>4, <1>5 DEF FilingInv, PassManifest, Stacked
<1>PassPushes. PassPushes'
  BY <1>1, <1>3, <1>4 DEF FilingInv, PassPushes
<1>UndoesManifest. UndoesManifest'
  BY <1>1, <1>3, <1>4, <1>5 DEF FilingInv, UndoesManifest, Stacked, Fits, Item
<1>FilesTrue. FilesTrue'
  BY <1>1, <1>2, <1>4, <1>5 DEF FilingInv, FilesTrue, Stacked, TidyHand
<1>Bounded. Bounded'
  BY <1>1, <1>2, <1>4, <1>5, <1>s DEF FilingInv, Bounded, Shaped
<1>kept. ASSUME Gaps = {}, KeptInv PROVE KeptInv'
  <2>0. Sized /\ Sized'
    BY <1>0, <1>t, Sizes, SizesNext
  <2>u. (RowsPositive /\ WalkPositive /\ EntriesPositive /\ UndoesPositive /\ RowsKept /\ ItemsKept /\
         ManifestKept /\ UndoesKept /\ KeptBounded /\ DropFound)'
    BY <1>kept, <1>4, <1>5
       DEF KeptInv, RowsPositive, There, WalkPositive, EntriesPositive, Entries, UndoesPositive,
           RowsKept, ItemsKept, AtLeast,
          ManifestKept, NotOlder, AtLeast, Ahead, UndoesKept, KeptBounded, DropFound
  <2>FilesPositive. FilesPositive'
    BY <1>kept, <1>1, <1>2, <1>4 DEF KeptInv, FilesPositive, FilingInv, TidyHand
  <2>FilesKept. FilesKept'
    BY <1>kept, <1>1, <1>2, <1>4 DEF KeptInv, FilesKept
  <2>Found. Found'
    BY <1>kept, <1>1, <1>2, <1>4 DEF KeptInv, Found, There, TidyFound, Nothing
  <2>TidyFound. TidyFound'
    BY <1>kept, <1>1, <1>2, <1>3, <1>4 DEF KeptInv, TidyFound
  <2> QED
    BY <2>u, <2>FilesPositive, <2>FilesKept, <2>Found, <2>TidyFound DEF KeptInv
<1> QED
  BY <1>kept, <1>t, <1>u, <1>Held, <1>TidyHand, <1>PromoteHand, <1>WalkHand, <1>CopyHand,
     <1>PassDone,
     <1>PassManifest, <1>PassPushes, <1>UndoesManifest, <1>FilesTrue, <1>Bounded
     DEF FilingInv

LEMMA ForgetReadKeeps ==
  ASSUME FilingInv, Minds, ForgetRead
  PROVE  FilingInv' /\ (Gaps = {} /\ KeptInv => KeptInv')
<1>0. Typed /\ Shaped
  BY Shapes DEF FilingInv
<1>1. tidy.at = "read" /\ pass.at \in {"idle", "docs", "merge", "drop"}
  BY DEF ForgetRead, Minds
<1>2. tidy' \in Tidies /\ tidy'.at = "write" /\ tidy'.docs = tidy.docs /\ tidy'.copy = manifest
  BY <1>0 DEF ForgetRead, Tidied, Tidies, NoItems, Nothing, AnyItem, Typed
<1>3. UNCHANGED <<rows, mirror, stale, files, manifest, rules, pass, last, promote, walk, unflushed, up,
                  crashes, kept, torn, struck, unread>>
  BY DEF ForgetRead
<1>4. Stack' = Stack
  BY StackSame DEF ForgetRead
<1>t. Typed'
  BY <1>0, <1>2, <1>3, <1>4 DEF Typed
<1>s. Shaped'
  BY <1>t, ShapesNext
<1>u. (PromoteHand /\ WalkHand /\ HandsOff /\ DropHand /\ ItemHand /\ PassOld /\ PassTodo /\
       PassDrops /\ PassDone /\ PassRules /\ UndoesFiles /\ UndoesRules /\ OnceEach /\ RulesTrue /\
       FilesTrue /\ ManifestTrue /\ Unghosted /\ Bounded)'
  BY <1>3, <1>4
     DEF FilingInv, PromoteHand, WalkHand, HandsOff, Stacked, DropHand, ItemHand, PassOld,
         PassTodo, There,
        PassDrops, PassDone, PassRules, UndoesFiles, UndoesRules, OnceEach, RulesTrue, FilesTrue,
        ManifestTrue, Fits, Item, Unghosted, Bounded
<1>Held. Held'
  BY <1>1, <1>2, <1>3, <1>4 DEF FilingInv, Held
<1>TidyHand. TidyHand'
  BY <1>1, <1>2, <1>3 DEF FilingInv, TidyHand
<1>CopyHand. CopyHand'
  BY <1>1, <1>2, <1>3 DEF FilingInv, CopyHand
<1>PassManifest. PassManifest'
  BY <1>1, <1>2, <1>3, <1>4 DEF FilingInv, PassManifest, Stacked
<1>PassPushes. PassPushes'
  BY <1>1, <1>2, <1>3 DEF FilingInv, PassPushes
<1>UndoesManifest. UndoesManifest'
  BY <1>1, <1>2, <1>3, <1>4
    DEF FilingInv, UndoesManifest, Stacked, Fits, Item, Held, Writing, PassManifest
<1>kept. ASSUME Gaps = {}, KeptInv PROVE KeptInv'
  <2>0. Sized /\ Sized'
    BY <1>0, <1>t, Sizes, SizesNext
  <2>u. (RowsPositive /\ FilesPositive /\ WalkPositive /\ EntriesPositive /\ UndoesPositive /\
         RowsKept /\ ItemsKept /\ ManifestKept /\ FilesKept /\ UndoesKept /\ KeptBounded /\ Found /\ DropFound)'
    BY <1>kept, <1>3, <1>4
       DEF KeptInv, RowsPositive, There, FilesPositive, WalkPositive, EntriesPositive, Entries,
          UndoesPositive, RowsKept, ItemsKept, AtLeast, ManifestKept, NotOlder, AtLeast, Ahead, FilesKept, UndoesKept,
          KeptBounded, Found, DropFound
  <2>TidyFound. TidyFound'
    BY <1>kept, <1>1, <1>2, <1>3 DEF KeptInv, TidyFound
  <2> QED
    BY <2>u, <2>TidyFound DEF KeptInv
<1> QED
  BY <1>kept, <1>t, <1>u, <1>Held, <1>TidyHand, <1>CopyHand, <1>PassManifest, <1>PassPushes,
     <1>UndoesManifest
     DEF FilingInv

LEMMA ForgetWriteKeeps ==
  ASSUME FilingInv, Minds, ForgetWrite
  PROVE  FilingInv' /\ (Gaps = {} /\ KeptInv => KeptInv')
<1>0. Typed /\ Shaped
  BY Shapes DEF FilingInv
<1>1. tidy.at = "write"
  BY DEF ForgetWrite
<1>2. /\ manifest' \in [Docs -> AnyItem] /\ struck' \subseteq struck \cup tidy.docs
      /\ \A c \in Docs : manifest'[c] # manifest[c] => c \in tidy.docs /\ manifest'[c] = Nothing
      /\ \A c \in Docs : c \in struck' \ struck => manifest'[c] = Nothing
  BY <1>0 DEF ForgetWrite, Outcomes, Nothing, AnyItem, Typed, Tidies, CopyHand, FilingInv
<1>3. tidy' \in Tidies /\ tidy'.at = "idle" /\ tidy'.docs = {}
  BY <1>0 DEF ForgetWrite, Tidied, Tidies, NoItems, Nothing, AnyItem, Typed
<1>4. UNCHANGED <<rows, mirror, stale, files, rules, pass, last, promote, walk, unflushed, up, crashes,
                  kept, torn, unread>>
  BY DEF ForgetWrite
<1>5. Stack' = Stack
  BY StackSame DEF ForgetWrite
<1>t. Typed'
  BY <1>0, <1>2, <1>3, <1>4, <1>5 DEF Typed, Shaped
<1>s. Shaped'
  BY <1>t, ShapesNext
<1>u. (PromoteHand /\ WalkHand /\ HandsOff /\ DropHand /\ PassOld /\ PassTodo /\ PassDrops /\
       PassDone /\ PassRules /\ UndoesFiles /\ UndoesRules /\ OnceEach /\ RulesTrue /\ FilesTrue)'
  BY <1>4, <1>5
     DEF FilingInv, PromoteHand, WalkHand, HandsOff, Stacked, DropHand, PassOld, PassTodo,
         There, PassDrops,
        PassDone, PassRules, UndoesFiles, UndoesRules, OnceEach, RulesTrue, FilesTrue
<1>Held. Held'
  BY <1>1, <1>3, <1>4, <1>5 DEF FilingInv, Held
<1>TidyHand. TidyHand'
  BY <1>1, <1>3, <1>4 DEF FilingInv, TidyHand
<1>ItemHand. ItemHand'
  BY <1>1, <1>2, <1>4 DEF FilingInv, ItemHand, TidyHand
<1>CopyHand. CopyHand'
  BY <1>1, <1>2, <1>3, <1>4 DEF FilingInv, CopyHand
<1>PassManifest. PassManifest'
  BY <1>1, <1>2, <1>3, <1>4, <1>5 DEF FilingInv, PassManifest, Stacked
<1>PassPushes. PassPushes'
  BY <1>1, <1>2, <1>3, <1>4 DEF FilingInv, PassPushes
<1>UndoesManifest. UndoesManifest'
  BY <1>1, <1>2, <1>3, <1>4, <1>5 DEF FilingInv, UndoesManifest, Stacked, Fits, Item
<1>ManifestTrue. ManifestTrue'
  BY <1>2, <1>4, <1>5 DEF FilingInv, ManifestTrue, Stacked, Fits, Item
<1>Unghosted. Unghosted'
  BY <1>0, <1>1, <1>2, <1>4 DEF FilingInv, Unghosted, TidyHand, Typed, Tidies
<1>Bounded. Bounded'
  BY <1>1, <1>2, <1>4, <1>5 DEF FilingInv, Bounded, Nothing, Typed
<1>kept. ASSUME Gaps = {}, KeptInv PROVE KeptInv'
  <2>0. Sized /\ Sized'
    BY <1>0, <1>t, Sizes, SizesNext
  <2>u. (RowsPositive /\ FilesPositive /\ WalkPositive /\ RowsKept /\ FilesKept /\ KeptBounded /\ DropFound)'
    BY <1>kept, <1>4, <1>5
       DEF KeptInv, RowsPositive, There, FilesPositive, WalkPositive, RowsKept, FilesKept, KeptBounded, DropFound
  <2>ItemsKept. ItemsKept'
    <3>1. \A c \in Docs : rows[c].kind = "none" /\ walk.items[c] # Nothing => manifest'[c] = manifest[c]
      BY <1>2 DEF FilingInv, TidyHand
    <3> QED
      BY <1>kept, <1>4, <3>1 DEF KeptInv, ItemsKept, AtLeast
  <2>EntriesPositive. EntriesPositive'
    BY <1>kept, <1>1, <1>2, <1>4 DEF KeptInv, EntriesPositive, Entries
  <2>UndoesPositive. UndoesPositive'
    BY <1>kept, <1>1, <1>2, <1>4, <1>5 DEF KeptInv, UndoesPositive, Entries
  <2>ManifestKept. ManifestKept'
    BY <1>kept, <1>1, <1>2, <1>4
      DEF KeptInv, ManifestKept, NotOlder, AtLeast, Ahead, FilingInv, TidyHand
  <2>UndoesKept. UndoesKept'
    BY <1>kept, <1>1, <1>2, <1>4, <1>5 DEF KeptInv, UndoesKept, NotOlder, AtLeast, Ahead
  <2>Found. Found'
    BY <1>kept, <1>1, <1>2, <1>4 DEF KeptInv, Found, There, TidyFound, Nothing
  <2>TidyFound. TidyFound'
    BY <1>kept, <1>1, <1>3, <1>4 DEF KeptInv, TidyFound
  <2> QED
    BY <2>u, <2>ItemsKept, <2>EntriesPositive, <2>UndoesPositive, <2>ManifestKept, <2>UndoesKept, <2>Found,
       <2>TidyFound
       DEF KeptInv
<1> QED
  BY <1>kept, <1>t, <1>u, <1>Held, <1>TidyHand, <1>ItemHand, <1>CopyHand, <1>PassManifest,
     <1>PassPushes, <1>UndoesManifest, <1>ManifestTrue, <1>Unghosted, <1>Bounded
     DEF FilingInv

-----------------------------------------------------------------------------
(* A promotion.                                                            *)
LEMMA PromoteReadKeeps ==
  ASSUME FilingInv, Minds, NEW d \in Docs, PromoteRead(d)
  PROVE  FilingInv' /\ (Gaps = {} /\ KeptInv => KeptInv')
<1>0. Typed /\ Shaped
  BY Shapes DEF FilingInv
<1>1. up /\ pass.at = "idle" /\ rows[d].kind = "pointer" /\ d \notin walk.docs
  BY DEF PromoteRead, GuardFree, Minds
<1>2. promote' \in Promotes /\ promote'.at = "write" /\ promote'.docs = {d} /\ promote'.filing = rows[d].filing
  BY <1>0 DEF PromoteRead, Typed, AnyRow, Promotes
<1>3. UNCHANGED <<rows, mirror, stale, files, manifest, rules, pass, last, tidy, walk, unflushed, up,
                  crashes, kept, torn, struck, unread>>
  BY DEF PromoteRead
<1>4. Stack' = Stack
  BY StackSame DEF PromoteRead
<1>t. Typed'
  BY <1>0, <1>2, <1>3, <1>4 DEF Typed
<1>s. Shaped'
  BY <1>t, ShapesNext
<1>u. (WalkHand /\ DropHand /\ ItemHand /\ CopyHand /\ PassOld /\ PassTodo /\ PassDrops /\ PassDone /\
       PassManifest /\ PassRules /\ PassPushes /\ UndoesFiles /\ UndoesRules /\ UndoesManifest /\
       OnceEach /\ RulesTrue /\ FilesTrue /\ ManifestTrue /\ Unghosted /\ Bounded)'
  BY <1>3, <1>4
     DEF FilingInv, WalkHand, DropHand, ItemHand, CopyHand, PassOld, PassTodo, Stacked, There,
         PassDrops,
        PassDone, PassManifest, PassRules, PassPushes, UndoesFiles, UndoesRules, UndoesManifest, Fits,
        Item, OnceEach, RulesTrue, FilesTrue, ManifestTrue, Unghosted, Bounded
<1>Held. Held'
  BY <1>1, <1>2, <1>3, <1>4 DEF FilingInv, Held, Opening
<1>TidyHand. TidyHand'
  BY <1>1, <1>2, <1>3 DEF FilingInv, TidyHand
<1>PromoteHand. PromoteHand'
  BY <1>1, <1>2, <1>3 DEF FilingInv, PromoteHand
<1>HandsOff. HandsOff'
  BY <1>1, <1>2, <1>3, <1>4 DEF FilingInv, HandsOff, Stacked, Held, Writing
<1>kept. ASSUME Gaps = {}, KeptInv PROVE KeptInv'
  <2>0. Sized /\ Sized'
    BY <1>0, <1>t, Sizes, SizesNext
  <2>u. (RowsPositive /\ FilesPositive /\ WalkPositive /\ EntriesPositive /\ UndoesPositive /\
         RowsKept /\ ItemsKept /\ ManifestKept /\ FilesKept /\ UndoesKept /\ KeptBounded /\ Found /\ TidyFound /\
         DropFound)'
    BY <1>kept, <1>3, <1>4
       DEF KeptInv, RowsPositive, There, FilesPositive, WalkPositive, EntriesPositive, Entries,
          UndoesPositive, RowsKept, ItemsKept, AtLeast, ManifestKept, NotOlder, AtLeast, Ahead, FilesKept, UndoesKept,
          KeptBounded, Found, TidyFound, DropFound
  <2> QED
    BY <2>u DEF KeptInv
<1> QED
  BY <1>kept, <1>t, <1>u, <1>Held, <1>TidyHand, <1>PromoteHand, <1>HandsOff DEF FilingInv

LEMMA PromoteWriteKeeps ==
  ASSUME FilingInv, Minds, PromoteWrite
  PROVE  FilingInv' /\ (Gaps = {} /\ KeptInv => KeptInv')
<1>0. Typed /\ Shaped
  BY Shapes DEF FilingInv
<1>1. promote.at = "write"
  BY DEF PromoteWrite
<1>2. /\ files' \in [Docs -> Nat] /\ promote' \in Promotes
      /\ \/ /\ promote'.at = "swap" /\ promote'.docs = promote.docs /\ promote'.filing = promote.filing
            /\ \A c \in Docs : files'[c] = IF c \in promote.docs THEN promote.filing ELSE files[c]
         \/ promote'.at = "idle" /\ promote'.docs = {} /\ files' = files
  BY <1>0 DEF PromoteWrite, Outcomes, NotPromoting, Typed, Promotes
<1>3. UNCHANGED <<rows, mirror, stale, manifest, rules, pass, last, tidy, walk, unflushed, up, crashes,
                  kept, torn, struck, unread>>
  BY DEF PromoteWrite
<1>4. Stack' = Stack
  BY StackSame DEF PromoteWrite
<1>t. Typed'
  BY <1>0, <1>2, <1>3, <1>4 DEF Typed
<1>s. Shaped'
  BY <1>t, ShapesNext
<1>u. (DropHand /\ ItemHand /\ CopyHand /\ PassOld /\ PassTodo /\ PassDrops /\ PassManifest /\
       PassRules /\ PassPushes /\ UndoesFiles /\ UndoesRules /\ UndoesManifest /\ OnceEach /\
       RulesTrue /\ ManifestTrue /\ Unghosted)'
  BY <1>3, <1>4
     DEF FilingInv, DropHand, ItemHand, CopyHand, PassOld, PassTodo, Stacked, There, PassDrops,
         PassManifest,
        PassRules, PassPushes, UndoesFiles, UndoesRules, UndoesManifest, Fits, Item, OnceEach,
        RulesTrue, ManifestTrue, Unghosted
<1>Held. Held'
  BY <1>1, <1>2, <1>3, <1>4 DEF FilingInv, Held
<1>TidyHand. TidyHand'
  BY <1>1, <1>2, <1>3 DEF FilingInv, TidyHand
<1>PromoteHand. PromoteHand'
  BY <1>1, <1>2, <1>3, <1>s DEF FilingInv, PromoteHand, Shaped
<1>WalkHand. WalkHand'
  BY <1>1, <1>2, <1>3, <1>s DEF FilingInv, WalkHand, PromoteHand, Shaped
<1>HandsOff. HandsOff'
  BY <1>1, <1>2, <1>3, <1>4 DEF FilingInv, HandsOff, Stacked
<1>PassDone. PassDone'
  BY <1>1, <1>2, <1>3, <1>4 DEF FilingInv, PassDone, Stacked, There, PromoteHand
<1>FilesTrue. FilesTrue'
  BY <1>1, <1>2, <1>3, <1>4 DEF FilingInv, FilesTrue, Stacked, PromoteHand
<1>Bounded. Bounded'
  BY <1>1, <1>2, <1>3, <1>4 DEF FilingInv, Bounded, PromoteHand
<1>kept. ASSUME Gaps = {}, KeptInv PROVE KeptInv'
  <2>0. Sized /\ Sized'
    BY <1>0, <1>t, Sizes, SizesNext
  <2>u. (RowsPositive /\ WalkPositive /\ EntriesPositive /\ UndoesPositive /\ RowsKept /\ ItemsKept /\
         ManifestKept /\ UndoesKept /\ KeptBounded /\ DropFound)'
    BY <1>kept, <1>3, <1>4
       DEF KeptInv, RowsPositive, There, WalkPositive, EntriesPositive, Entries, UndoesPositive,
           RowsKept, ItemsKept, AtLeast,
          ManifestKept, NotOlder, AtLeast, Ahead, UndoesKept, KeptBounded, DropFound
  <2>FilesPositive. FilesPositive'
    BY <1>kept, <1>1, <1>2, <1>3 DEF KeptInv, FilesPositive, FilingInv, PromoteHand
  <2>FilesKept. FilesKept'
    BY <1>kept, <1>1, <1>2, <1>3 DEF KeptInv, FilesKept, FilingInv, PromoteHand
  <2>Found. Found'
    BY <1>kept, <1>1, <1>2, <1>3 DEF KeptInv, Found, There, FilingInv, PromoteHand
  <2>TidyFound. TidyFound'
    BY <1>kept, <1>1, <1>2, <1>3, <1>s DEF KeptInv, TidyFound, FilingInv, TidyHand, Shaped
  <2> QED
    BY <2>u, <2>FilesPositive, <2>FilesKept, <2>Found, <2>TidyFound DEF KeptInv
<1> QED
  BY <1>kept, <1>t, <1>u, <1>Held, <1>TidyHand, <1>PromoteHand, <1>WalkHand, <1>HandsOff,
     <1>PassDone,
     <1>FilesTrue, <1>Bounded
     DEF FilingInv

LEMMA PromoteSwapKeeps ==
  ASSUME FilingInv, Minds, NEW d \in Docs, PromoteSwap(d)
  PROVE  FilingInv' /\ (Gaps = {} /\ KeptInv => KeptInv')
<1>0. Typed /\ Shaped
  BY Shapes DEF FilingInv
<1>1. up /\ pass.at = "idle" /\ tidy.at = "idle" /\ promote.at = "swap" /\ d \in promote.docs
  BY DEF PromoteSwap, GuardFree
<1>2. promote' \in Promotes /\ promote'.at = "idle" /\ promote'.docs = {}
  BY DEF PromoteSwap, NotPromoting, Promotes
<1>3. \/ /\ rows[d].kind = "pointer" /\ rows' = [rows EXCEPT ![d] = [@ EXCEPT !.kind = "file", !.seen = 0]]
         /\ kept' = [kept EXCEPT ![d] = [filing |-> rows[d].filing, seen |-> 0]]
         /\ tidy' = [Tidied EXCEPT !.at = "read", !.docs = {d}] /\ files' = files
      \/ files' = [files EXCEPT ![d] = 0] /\ UNCHANGED <<rows, kept, tidy>>
  BY DEF PromoteSwap, Outcomes
<1>4. /\ [rows EXCEPT ![d] = [@ EXCEPT !.kind = "file", !.seen = 0]] \in [Docs -> AnyRow]
      /\ [rows EXCEPT ![d] = [@ EXCEPT !.kind = "file", !.seen = 0]][d].kind = "file"
      /\ [rows EXCEPT ![d] = [@ EXCEPT !.kind = "file", !.seen = 0]][d].filing = rows[d].filing
  <2> DEFINE turned == [rows[d] EXCEPT !.kind = "file", !.seen = 0]
  <2>1. turned \in AnyRow /\ turned.kind = "file" /\ turned.filing = rows[d].filing
    <3>1. rows[d] \in AnyRow
      BY <1>0 DEF Typed
    <3> QED
      BY <3>1 DEF AnyRow
  <2>2. [rows EXCEPT ![d] = [@ EXCEPT !.kind = "file", !.seen = 0]] = [rows EXCEPT ![d] = turned]
    OBVIOUS
  <2> HIDE DEF turned
  <2> QED
    BY <1>0, <2>1, <2>2 DEF Typed
<1>5. [Tidied EXCEPT !.at = "read", !.docs = {d}] \in Tidies
  BY DEF Tidied, Tidies, AnyItem, NoItems, Nothing
<1>6. [kept EXCEPT ![d] = [filing |-> rows[d].filing, seen |-> 0]] \in [Docs -> AnyItem]
  BY <1>0 DEF Typed, AnyItem, AnyRow
<1>7. rows' \in [Docs -> AnyRow] /\ tidy' \in Tidies /\ kept' \in [Docs -> AnyItem]
  BY <1>0, <1>3, <1>4, <1>5, <1>6 DEF Typed
<1>8. \A c \in Docs \ {d} : rows'[c] = rows[c] /\ files'[c] = files[c]
  BY <1>0, <1>3 DEF Typed
<1>9. files' \in [Docs -> Nat]
  BY <1>0, <1>3 DEF Typed
<1>10. \/ /\ rows'[d].kind = "file" /\ rows'[d].filing = rows[d].filing /\ files' = files
          /\ tidy'.at = "read" /\ tidy'.docs = {d}
       \/ rows' = rows /\ tidy' = tidy /\ files'[d] = 0
  BY <1>0, <1>3, <1>4 DEF Typed, Tidied
<1>11. UNCHANGED <<mirror, stale, manifest, rules, pass, last, walk, unflushed, up, crashes, torn, struck, unread>>
  BY DEF PromoteSwap
<1>12. Stack' = Stack
  BY StackSame DEF PromoteSwap
<1>t. Typed'
  BY <1>0, <1>2, <1>7, <1>8, <1>9, <1>10, <1>11, <1>12 DEF Typed
<1>s. Shaped'
  BY <1>t, ShapesNext
<1>u. (PassRules /\ UndoesRules /\ OnceEach /\ RulesTrue)'
  BY <1>11, <1>12 DEF FilingInv, PassRules, Stacked, UndoesRules, OnceEach, RulesTrue
<1>Held. Held'
  BY <1>1, <1>2, <1>7, <1>10, <1>11, <1>12 DEF FilingInv, Held
<1>TidyHand. TidyHand'
  BY <1>1, <1>2, <1>7, <1>8, <1>10, <1>11 DEF FilingInv, TidyHand, PromoteHand
<1>PromoteHand. PromoteHand'
  BY <1>1, <1>2, <1>7, <1>8, <1>9, <1>10, <1>11 DEF FilingInv, PromoteHand
<1>WalkHand. WalkHand'
  BY <1>1, <1>8, <1>9, <1>10, <1>11, <1>s DEF FilingInv, WalkHand, PromoteHand, Shaped
<1>HandsOff. HandsOff'
  BY <1>1, <1>2, <1>7, <1>8, <1>10, <1>11, <1>12 DEF FilingInv, HandsOff, Stacked, Held, Writing
<1>DropHand. DropHand'
  BY <1>1, <1>7, <1>8, <1>10, <1>11 DEF FilingInv, DropHand
<1>ItemHand. ItemHand'
  BY <1>1, <1>7, <1>8, <1>10, <1>11 DEF FilingInv, ItemHand
<1>CopyHand. CopyHand'
  BY <1>1, <1>7, <1>10, <1>11 DEF FilingInv, CopyHand
<1>PassOld. PassOld'
  BY <1>1, <1>7, <1>8, <1>10, <1>11 DEF FilingInv, PassOld
<1>PassTodo. PassTodo'
  BY <1>1, <1>7, <1>8, <1>10, <1>11, <1>12 DEF FilingInv, PassTodo, Stacked, There, Held, Writing
<1>PassDrops. PassDrops'
  BY <1>1, <1>7, <1>8, <1>10, <1>11, <1>12 DEF FilingInv, PassDrops, Stacked, There, Held, Writing
<1>PassDone. PassDone'
  BY <1>1, <1>7, <1>8, <1>9, <1>10, <1>11, <1>12
    DEF FilingInv, PassDone, Stacked, There, Held, Writing
<1>PassManifest. PassManifest'
  BY <1>1, <1>7, <1>10, <1>11, <1>12 DEF FilingInv, PassManifest, Stacked
<1>PassPushes. PassPushes'
  BY <1>1, <1>7, <1>8, <1>10, <1>11 DEF FilingInv, PassPushes
<1>UndoesFiles. UndoesFiles'
  BY <1>1, <1>7, <1>8, <1>10, <1>11, <1>12 DEF FilingInv, UndoesFiles, Stacked
<1>UndoesManifest. UndoesManifest'
  BY <1>1, <1>7, <1>8, <1>10, <1>11, <1>12
    DEF FilingInv, UndoesManifest, Stacked, Fits, Item, Held, Writing
<1>FilesTrue. FilesTrue'
  BY <1>1, <1>7, <1>8, <1>9, <1>10, <1>11, <1>12 DEF FilingInv, FilesTrue, Stacked, PromoteHand
<1>ManifestTrue. ManifestTrue'
  BY <1>1, <1>7, <1>8, <1>10, <1>11, <1>12 DEF FilingInv, ManifestTrue, Stacked, Fits, Item
<1>Unghosted. Unghosted'
  BY <1>1, <1>7, <1>8, <1>10, <1>11, <1>s DEF FilingInv, Unghosted, Shaped
<1>Bounded. Bounded'
  BY <1>1, <1>7, <1>8, <1>9, <1>10, <1>11, <1>12, <1>s DEF FilingInv, Bounded, Shaped
<1>kept. ASSUME Gaps = {}, KeptInv PROVE KeptInv'
  <2>0. Sized /\ Sized'
    BY <1>0, <1>t, Sizes, SizesNext
  <2>1. rows[d].kind = "pointer" /\ rows[d].filing = files[d]
    BY <1>1 DEF FilingInv, PromoteHand
  <2>2. \/ kept' = [kept EXCEPT ![d] = [filing |-> rows[d].filing, seen |-> 0]] /\ rows'[d].kind = "file"
        \/ kept' = kept /\ rows' = rows
    BY <1>0, <1>3, <1>4 DEF Typed
  <2>3. /\ \A c \in Docs \ {d} : kept'[c] = kept[c]
        /\ \/ kept'[d].filing = rows[d].filing /\ rows'[d].kind = "file"
           \/ kept'[d] = kept[d] /\ rows'[d].kind = "pointer"
    BY <1>0, <2>1, <2>2 DEF Typed
  <2>u. (WalkPositive /\ EntriesPositive /\ UndoesPositive)'
    BY <1>kept, <1>11, <1>12 DEF KeptInv, WalkPositive, EntriesPositive, Entries, UndoesPositive
  <2>RowsPositive. RowsPositive'
    BY <1>kept, <1>8, <1>10, <2>1 DEF KeptInv, RowsPositive, There, FilingInv
  <2>FilesPositive. FilesPositive'
    BY <1>kept, <1>1, <1>7, <1>8, <1>9, <1>10, <1>11, <2>1, <2>3
       DEF KeptInv, FilesPositive, FilingInv, RowsPositive, There
  <2>RowsKept. RowsKept'
    BY <1>kept, <1>1, <1>7, <1>8, <1>10, <1>11, <2>1, <2>3
      DEF KeptInv, RowsKept, There, FilingInv, AnyItem
  <2>ItemsKept. ItemsKept'
    BY <1>kept, <1>1, <1>7, <1>8, <1>10, <1>11, <2>1, <2>3
       DEF KeptInv, ItemsKept, AtLeast, FilingInv, Held, NoRow, Nothing
  <2>ManifestKept. ManifestKept'
    BY <1>kept, <1>8, <1>9, <1>10, <1>11, <2>3
      DEF KeptInv, ManifestKept, NotOlder, AtLeast, Ahead, FilingInv
  <2>FilesKept. FilesKept'
    BY <1>kept, <1>1, <1>7, <1>8, <1>9, <1>10, <1>11, <2>1, <2>3 DEF KeptInv, FilesKept, FilingInv
  <2>UndoesKept. UndoesKept'
    BY <1>kept, <1>1, <1>7, <1>8, <1>10, <1>11, <1>12, <2>1, <2>3
       DEF KeptInv, UndoesKept, NotOlder, AtLeast, Ahead, FilingInv, Held, Writing
  <2>KeptBounded. KeptBounded'
    BY <1>kept, <1>1, <1>7, <1>11, <2>1, <2>3 DEF KeptInv, KeptBounded, FilingInv, Bounded
  <2>Found. Found'
    BY <1>kept, <1>1, <1>7, <1>8, <1>9, <1>10, <1>11, <2>1, <2>3
      DEF KeptInv, Found, There, FilingInv
  <2>TidyFound. TidyFound'
    BY <1>kept, <1>1, <1>7, <1>8, <1>9, <1>10, <1>11, <2>1, <2>3
      DEF KeptInv, TidyFound, FilingInv, Held
  <2>DropFound. DropFound'
    BY <1>kept, <1>1, <1>7, <1>11, <2>1, <2>3 DEF KeptInv, DropFound
  <2> QED
    BY <2>u, <2>RowsPositive, <2>FilesPositive, <2>RowsKept, <2>ItemsKept, <2>ManifestKept, <2>FilesKept,
       <2>UndoesKept, <2>KeptBounded, <2>Found, <2>TidyFound, <2>DropFound
       DEF KeptInv
<1> QED
  BY <1>kept, <1>t, <1>u, <1>Held, <1>TidyHand, <1>PromoteHand, <1>WalkHand, <1>HandsOff,
     <1>DropHand,
     <1>ItemHand, <1>CopyHand, <1>PassOld, <1>PassTodo, <1>PassDrops, <1>PassDone, <1>PassManifest,
     <1>PassPushes, <1>UndoesFiles, <1>UndoesManifest, <1>FilesTrue, <1>ManifestTrue, <1>Unghosted,
     <1>Bounded
     DEF FilingInv

-----------------------------------------------------------------------------
(* A rebuild.                                                              *)
LEMMA StartKeeps ==
  ASSUME FilingInv, Minds, NEW wipe \in BOOLEAN, Start(wipe)
  PROVE  FilingInv' /\ (Gaps = {} /\ KeptInv => KeptInv')
<1>0. Typed /\ Shaped
  BY Shapes DEF FilingInv
<1>1. up /\ pass.at = "idle" /\ walk.at = "off" /\ (wipe => promote.at = "idle")
  BY DEF Start, GuardFree, Minds
<1>2. /\ rows' \in [Docs -> AnyRow] /\ \A c \in Docs : rows'[c] = rows[c] \/ (wipe /\ rows'[c].kind = "none" /\ rows'[c].filing = 0)
  BY <1>0 DEF Start, NoRows, NoRow, AnyRow, Typed
<1>3. walk' \in Walks /\ walk'.at = "files" /\ walk'.docs = walk.docs /\ walk'.filing = walk.filing /\ walk'.items = walk.items
  BY <1>0 DEF Start, Typed, Walks
<1>4. UNCHANGED <<mirror, stale, files, manifest, rules, pass, last, tidy, promote, unflushed, up,
                  crashes, kept, torn, struck, unread>>
  BY DEF Start
<1>5. Stack' = Stack
  BY StackSame DEF Start
<1>t. Typed'
  BY <1>0, <1>2, <1>3, <1>4, <1>5 DEF Typed
<1>s. Shaped'
  BY <1>t, ShapesNext
<1>u. (CopyHand /\ PassManifest /\ PassRules /\ UndoesRules /\ OnceEach /\ RulesTrue)'
  BY <1>4, <1>5
    DEF FilingInv, CopyHand, PassManifest, Stacked, PassRules, UndoesRules, OnceEach, RulesTrue
<1>Held. Held'
  BY <1>1, <1>3, <1>4, <1>5 DEF FilingInv, Held, Opening
<1>TidyHand. TidyHand'
  BY <1>1, <1>2, <1>3, <1>4, <1>s DEF FilingInv, TidyHand, NoItems, Held, Shaped
<1>PromoteHand. PromoteHand'
  BY <1>1, <1>2, <1>3, <1>4, <1>s DEF FilingInv, PromoteHand, Held, Shaped
<1>WalkHand. WalkHand'
  BY <1>1, <1>3, <1>4 DEF FilingInv, WalkHand
<1>HandsOff. HandsOff'
  BY <1>1, <1>2, <1>3, <1>4, <1>5 DEF FilingInv, HandsOff, Stacked, Held, Writing
<1>DropHand. DropHand'
  BY <1>1, <1>2, <1>3, <1>4 DEF FilingInv, DropHand
<1>ItemHand. ItemHand'
  BY <1>1, <1>2, <1>3, <1>4 DEF FilingInv, ItemHand, NoItems, Held
<1>PassOld. PassOld'
  BY <1>1, <1>2, <1>4 DEF FilingInv, PassOld, Held, Writing
<1>PassTodo. PassTodo'
  BY <1>1, <1>2, <1>4, <1>5 DEF FilingInv, PassTodo, Stacked, There, Held, Writing
<1>PassDrops. PassDrops'
  BY <1>1, <1>2, <1>4, <1>5 DEF FilingInv, PassDrops, Stacked, There, Held, Writing
<1>PassDone. PassDone'
  BY <1>1, <1>2, <1>4, <1>5 DEF FilingInv, PassDone, Stacked, There, Held, Writing
<1>PassPushes. PassPushes'
  BY <1>1, <1>2, <1>4 DEF FilingInv, PassPushes
<1>UndoesFiles. UndoesFiles'
  BY <1>1, <1>2, <1>4, <1>5 DEF FilingInv, UndoesFiles, Stacked, Held, Writing
<1>UndoesManifest. UndoesManifest'
  BY <1>1, <1>2, <1>4, <1>5 DEF FilingInv, UndoesManifest, Stacked, Fits, Item, Held, Writing
<1>FilesTrue. FilesTrue'
  BY <1>1, <1>2, <1>4, <1>5 DEF FilingInv, FilesTrue, Stacked
<1>ManifestTrue. ManifestTrue'
  BY <1>1, <1>2, <1>4, <1>5 DEF FilingInv, ManifestTrue, Stacked, Fits, Item
<1>Unghosted. Unghosted'
  BY <1>1, <1>2, <1>3, <1>4, <1>s DEF FilingInv, Unghosted, NoItems, Held, Shaped
<1>Bounded. Bounded'
  BY <1>1, <1>2, <1>4, <1>5, <1>s DEF FilingInv, Bounded, Shaped
<1>kept. ASSUME Gaps = {}, KeptInv PROVE KeptInv'
  <2>0. Sized /\ Sized'
    BY <1>0, <1>t, Sizes, SizesNext
  <2>1. wipe => ~stale /\ \A c \in Docs : files[c] # 0 => manifest[c] = Nothing /\ rows[c].kind # "pointer"
    BY <1>kept DEF Start
  <2>2. \A c \in Docs : IF wipe THEN rows'[c].kind = "none" ELSE rows'[c] = rows[c]
    BY DEF Start, NoRows, NoRow
  <2>u. (UndoesPositive /\ KeptBounded /\ DropFound)'
    BY <1>kept, <1>4, <1>5 DEF KeptInv, UndoesPositive, Entries, KeptBounded, DropFound
  <2>RowsPositive. RowsPositive'
    BY <1>kept, <1>1, <1>2, <1>4, <2>1, <2>2 DEF KeptInv, RowsPositive, There
  <2>FilesPositive. FilesPositive'
    BY <1>kept, <1>1, <1>2, <1>4, <2>1, <2>2 DEF KeptInv, FilesPositive
  <2>WalkPositive. WalkPositive'
    BY <1>kept, <1>1, <1>3, <1>4, <2>1, <2>2 DEF KeptInv, WalkPositive
  <2>EntriesPositive. EntriesPositive'
    BY <1>kept, <1>1, <1>3, <1>4, <2>1, <2>2 DEF KeptInv, EntriesPositive, Entries
  <2>RowsKept. RowsKept'
    BY <1>kept, <1>1, <1>2, <1>4, <2>1, <2>2 DEF KeptInv, RowsKept, There
  <2>ItemsKept. ItemsKept'
    <3>1. walk'.items = NoItems
      BY <1>1, <1>3 DEF FilingInv, Held
    <3> QED
      BY <3>1, NoItemsShape DEF ItemsKept
  <2>ManifestKept. ManifestKept'
    BY <1>kept, <1>1, <1>2, <1>4, <2>1, <2>2
       DEF KeptInv, ManifestKept, NotOlder, AtLeast, Ahead, FilingInv, FilesPositive, Typed, AnyRow
  <2>FilesKept. FilesKept'
    BY <1>kept, <1>0, <1>4, <2>1, <2>2 DEF KeptInv, FilesKept, Shaped
  <2>UndoesKept. UndoesKept'
    BY <1>kept, <1>1, <1>2, <1>4, <1>5, <2>1, <2>2
       DEF KeptInv, UndoesKept, NotOlder, AtLeast, Ahead, FilingInv, Held, Writing
  <2>Found. Found'
    BY <1>kept, <1>1, <1>2, <1>4, <2>1, <2>2
       DEF KeptInv, Found, There, FilingInv, FilesPositive, ManifestKept, NotOlder, AtLeast,
           Ahead, Nothing,
          Typed, AnyRow
  <2>TidyFound. TidyFound'
    BY <1>kept, <1>1, <1>2, <1>4, <2>1, <2>2, <1>0
       DEF KeptInv, TidyFound, FilingInv, TidyHand, FilesPositive, Shaped
  <2> QED
    BY <2>u, <2>RowsPositive, <2>FilesPositive, <2>WalkPositive, <2>EntriesPositive, <2>RowsKept, <2>ItemsKept,
       <2>ManifestKept, <2>FilesKept, <2>UndoesKept, <2>Found, <2>TidyFound
       DEF KeptInv
<1> QED
  BY <1>kept, <1>t, <1>u, <1>Held, <1>TidyHand, <1>PromoteHand, <1>WalkHand, <1>HandsOff,
     <1>DropHand,
     <1>ItemHand, <1>PassOld, <1>PassTodo, <1>PassDrops, <1>PassDone, <1>PassPushes, <1>UndoesFiles,
     <1>UndoesManifest, <1>FilesTrue, <1>ManifestTrue, <1>Unghosted, <1>Bounded
     DEF FilingInv

LEMMA ResumeKeeps ==
  ASSUME FilingInv, Minds, Resume
  PROVE  FilingInv' /\ (Gaps = {} /\ KeptInv => KeptInv')
<1>0. Typed /\ Shaped
  BY Shapes DEF FilingInv
<1>1. up /\ pass.at = "idle" /\ walk.at = "off"
  BY DEF Resume, GuardFree
<1>2. walk' \in Walks /\ walk'.at = "files" /\ walk'.docs = walk.docs /\ walk'.filing = walk.filing /\ walk'.items = walk.items
  BY <1>0 DEF Resume, Typed, Walks
<1>3. UNCHANGED <<rows, mirror, stale, files, manifest, rules, pass, last, tidy, promote, unflushed, up,
                  crashes, kept, torn, struck, unread>>
  BY DEF Resume
<1>4. Stack' = Stack
  BY StackSame DEF Resume
<1>t. Typed'
  BY <1>0, <1>2, <1>3, <1>4 DEF Typed
<1>s. Shaped'
  BY <1>t, ShapesNext
<1>u. (CopyHand /\ PassOld /\ PassTodo /\ PassDrops /\ PassDone /\ PassManifest /\ PassRules /\
       PassPushes /\ UndoesFiles /\ UndoesRules /\ UndoesManifest /\ OnceEach /\ RulesTrue /\
       FilesTrue /\ ManifestTrue /\ Bounded)'
  BY <1>2, <1>3, <1>4
     DEF FilingInv, CopyHand, PassOld, PassTodo, Stacked, There, PassDrops, PassDone, PassManifest,
        PassRules, PassPushes, UndoesFiles, UndoesRules, UndoesManifest, Fits, Item, OnceEach,
        RulesTrue, FilesTrue, ManifestTrue, Bounded
<1>Held. Held'
  BY <1>1, <1>2, <1>3, <1>4 DEF FilingInv, Held, Opening
<1>TidyHand. TidyHand'
  BY <1>1, <1>2, <1>3 DEF FilingInv, TidyHand
<1>PromoteHand. PromoteHand'
  BY <1>1, <1>2, <1>3 DEF FilingInv, PromoteHand
<1>WalkHand. WalkHand'
  BY <1>1, <1>2, <1>3 DEF FilingInv, WalkHand
<1>HandsOff. HandsOff'
  BY <1>1, <1>2, <1>3, <1>4 DEF FilingInv, HandsOff, Stacked
<1>DropHand. DropHand'
  BY <1>1, <1>2, <1>3 DEF FilingInv, DropHand
<1>ItemHand. ItemHand'
  BY <1>1, <1>2, <1>3 DEF FilingInv, ItemHand
<1>Unghosted. Unghosted'
  BY <1>1, <1>2, <1>3 DEF FilingInv, Unghosted
<1>kept. ASSUME Gaps = {}, KeptInv PROVE KeptInv'
  <2>0. Sized /\ Sized'
    BY <1>0, <1>t, Sizes, SizesNext
  <2>u. (RowsPositive /\ FilesPositive /\ UndoesPositive /\ RowsKept /\ ItemsKept /\ ManifestKept /\ FilesKept /\
         UndoesKept /\ KeptBounded /\ Found /\ TidyFound /\ DropFound)'
    BY <1>kept, <1>2, <1>3, <1>4
       DEF KeptInv, RowsPositive, There, FilesPositive, UndoesPositive, Entries, RowsKept, ItemsKept, AtLeast,
           ManifestKept,
          NotOlder, AtLeast, Ahead, FilesKept, UndoesKept, KeptBounded, Found, TidyFound, DropFound
  <2>WalkPositive. WalkPositive'
    BY <1>kept, <1>1, <1>2, <1>3 DEF KeptInv, WalkPositive
  <2>EntriesPositive. EntriesPositive'
    BY <1>kept, <1>1, <1>2, <1>3 DEF KeptInv, EntriesPositive, Entries
  <2> QED
    BY <2>u, <2>WalkPositive, <2>EntriesPositive DEF KeptInv
<1> QED
  BY <1>kept, <1>t, <1>u, <1>Held, <1>TidyHand, <1>PromoteHand, <1>WalkHand, <1>HandsOff,
     <1>DropHand,
     <1>ItemHand, <1>Unghosted
     DEF FilingInv

LEMMA ReadFileKeeps ==
  ASSUME FilingInv, Minds, NEW d \in Docs, ReadFile(d)
  PROVE  FilingInv' /\ (Gaps = {} /\ KeptInv => KeptInv')
<1>0. Typed /\ Shaped
  BY Shapes DEF FilingInv
<1>1. up /\ walk.at = "files" /\ pass.no = 0 /\ d \notin tidy.docs \cup pass.drops \cup promote.docs
  BY DEF ReadFile, AtWork, Minds
<1>2. /\ walk' \in Walks /\ walk'.items = walk.items
      /\ \/ walk'.at = "files" /\ walk'.docs = walk.docs /\ walk'.filing = walk.filing
         \/ walk'.at = "upsert" /\ walk'.docs = {d} /\ walk'.filing = files[d]
  BY <1>0 DEF ReadFile, Typed, Walks
<1>3. UNCHANGED <<rows, mirror, stale, files, manifest, rules, pass, last, tidy, promote, unflushed, up,
                  crashes, kept, torn, struck, unread>>
  BY DEF ReadFile
<1>4. Stack' = Stack
  BY StackSame DEF ReadFile
<1>t. Typed'
  BY <1>0, <1>2, <1>3, <1>4 DEF Typed
<1>s. Shaped'
  BY <1>t, ShapesNext
<1>u. (CopyHand /\ PassOld /\ PassTodo /\ PassDrops /\ PassDone /\ PassManifest /\ PassRules /\
       PassPushes /\ UndoesFiles /\ UndoesRules /\ UndoesManifest /\ OnceEach /\ RulesTrue /\
       FilesTrue /\ ManifestTrue /\ Bounded)'
  BY <1>2, <1>3, <1>4
     DEF FilingInv, CopyHand, PassOld, PassTodo, Stacked, There, PassDrops, PassDone, PassManifest,
        PassRules, PassPushes, UndoesFiles, UndoesRules, UndoesManifest, Fits, Item, OnceEach,
        RulesTrue, FilesTrue, ManifestTrue, Bounded
<1>Held. Held'
  BY <1>1, <1>2, <1>3, <1>4 DEF FilingInv, Held
<1>TidyHand. TidyHand'
  BY <1>1, <1>2, <1>3 DEF FilingInv, TidyHand
<1>PromoteHand. PromoteHand'
  BY <1>1, <1>2, <1>3 DEF FilingInv, PromoteHand
<1>WalkHand. WalkHand'
  BY <1>1, <1>2, <1>3 DEF FilingInv, WalkHand
<1>HandsOff. HandsOff'
  BY <1>1, <1>2, <1>3, <1>4 DEF FilingInv, HandsOff, Stacked, Held
<1>DropHand. DropHand'
  BY <1>1, <1>2, <1>3 DEF FilingInv, DropHand
<1>ItemHand. ItemHand'
  BY <1>1, <1>2, <1>3 DEF FilingInv, ItemHand
<1>Unghosted. Unghosted'
  BY <1>1, <1>2, <1>3 DEF FilingInv, Unghosted
<1>kept. ASSUME Gaps = {}, KeptInv PROVE KeptInv'
  <2>0. Sized /\ Sized'
    BY <1>0, <1>t, Sizes, SizesNext
  <2>1. \/ walk'.docs = walk.docs /\ walk'.filing = walk.filing
        \/ walk'.filing = files[d] /\ files[d] # 0
    BY <1>0 DEF ReadFile, Typed, Walks
  <2>u. (RowsPositive /\ FilesPositive /\ UndoesPositive /\ RowsKept /\ ItemsKept /\ ManifestKept /\ FilesKept /\
         UndoesKept /\ KeptBounded /\ Found /\ TidyFound /\ DropFound)'
    BY <1>kept, <1>2, <1>3, <1>4
       DEF KeptInv, RowsPositive, There, FilesPositive, UndoesPositive, Entries, RowsKept, ItemsKept, AtLeast,
           ManifestKept,
          NotOlder, AtLeast, Ahead, FilesKept, UndoesKept, KeptBounded, Found, TidyFound, DropFound
  <2>WalkPositive. WalkPositive'
    BY <1>kept, <1>1, <1>2, <1>3, <2>1 DEF KeptInv, WalkPositive, FilingInv, Typed
  <2>EntriesPositive. EntriesPositive'
    BY <1>kept, <1>1, <1>2, <1>3, <2>1 DEF KeptInv, EntriesPositive, Entries
  <2> QED
    BY <2>u, <2>WalkPositive, <2>EntriesPositive DEF KeptInv
<1> QED
  BY <1>kept, <1>t, <1>u, <1>Held, <1>TidyHand, <1>PromoteHand, <1>WalkHand, <1>HandsOff,
     <1>DropHand,
     <1>ItemHand, <1>Unghosted
     DEF FilingInv

LEMMA UpsertKeeps ==
  ASSUME FilingInv, Minds, NEW d \in Docs, Upsert(d)
  PROVE  FilingInv' /\ (Gaps = {} /\ KeptInv => KeptInv')
<1>0. Typed /\ Shaped
  BY Shapes DEF FilingInv
<1>1. up /\ pass.at = "idle" /\ walk.at = "upsert" /\ d \in walk.docs
  BY DEF Upsert, GuardFree
<1>2. \E D \in SUBSET Docs :
        walk' = [walk EXCEPT !.at = "files", !.docs = {}, !.filing = 0, !.done = D]
  <2>1. PICK done \in BOOLEAN :
          walk' = [walk EXCEPT !.at = "files", !.docs = {}, !.filing = 0, !.done = IF done THEN @ \cup {d} ELSE @]
    BY DEF Upsert
  <2>2. walk.done \subseteq Docs /\ walk.done \cup {d} \subseteq Docs
    BY <1>0 DEF Typed, Walks
  <2>3. CASE done
    BY <2>1, <2>2, <2>3
  <2>4. CASE ~done
    BY <2>1, <2>2, <2>4
  <2> QED
    BY <2>3, <2>4
<1>3. \A D \in SUBSET Docs :
        [walk EXCEPT !.at = "files", !.docs = {}, !.filing = 0, !.done = D] \in Walks
  BY <1>0 DEF Typed, Walks
<1>4. walk' \in Walks
  BY <1>2, <1>3
<1>5. walk'.at = "files" /\ walk'.docs = {} /\ walk'.items = walk.items
  BY <1>0, <1>2 DEF Typed, Walks
<1>6. /\ rows' \in [Docs -> AnyRow] /\ torn' \subseteq torn
      /\ \A c \in Docs \ {d} : rows'[c] = rows[c] /\ (c \in torn => c \in torn')
      /\ ("rules" \in torn => "rules" \in torn') /\ ("manifest" \in torn => "manifest" \in torn')
      /\ \/ rows' = rows /\ torn' = torn
         \/ rows[d].kind # "pointer" /\ rows'[d].kind = "file" /\ rows'[d].filing = walk.filing
  BY <1>0, Plain DEF Upsert, Outcomes, Typed, Walks, AnyRow
<1>7. UNCHANGED <<mirror, stale, files, manifest, rules, pass, last, tidy, promote, unflushed, up,
                  crashes, kept, struck, unread>>
  BY DEF Upsert
<1>8. Stack' = Stack
  BY StackSame DEF Upsert
<1>t. Typed'
  BY <1>0, <1>4, <1>5, <1>6, <1>7, <1>8 DEF Typed
<1>s. Shaped'
  BY <1>t, ShapesNext
<1>u. (CopyHand /\ PassManifest /\ PassRules /\ UndoesRules /\ OnceEach /\ RulesTrue)'
  BY <1>6, <1>7, <1>8
    DEF FilingInv, CopyHand, PassManifest, Stacked, PassRules, UndoesRules, OnceEach, RulesTrue
<1>Held. Held'
  BY <1>1, <1>4, <1>5, <1>7, <1>8 DEF FilingInv, Held
<1>TidyHand. TidyHand'
  BY <1>1, <1>4, <1>5, <1>6, <1>7, <1>s DEF FilingInv, TidyHand, Shaped
<1>PromoteHand. PromoteHand'
  BY <1>1, <1>4, <1>5, <1>6, <1>7, <1>s DEF FilingInv, PromoteHand, Shaped
<1>WalkHand. WalkHand'
  BY <1>1, <1>4, <1>5, <1>7 DEF FilingInv, WalkHand
<1>HandsOff. HandsOff'
  BY <1>1, <1>4, <1>5, <1>6, <1>7, <1>8 DEF FilingInv, HandsOff, Stacked, Held, Writing
<1>DropHand. DropHand'
  BY <1>1, <1>4, <1>5, <1>6, <1>7 DEF FilingInv, DropHand
<1>ItemHand. ItemHand'
  BY <1>1, <1>4, <1>5, <1>6, <1>7 DEF FilingInv, ItemHand
<1>PassOld. PassOld'
  BY <1>1, <1>6, <1>7 DEF FilingInv, PassOld, Held, Writing
<1>PassTodo. PassTodo'
  BY <1>1, <1>6, <1>7, <1>8 DEF FilingInv, PassTodo, Stacked, There, Held, Writing
<1>PassDrops. PassDrops'
  BY <1>1, <1>6, <1>7, <1>8 DEF FilingInv, PassDrops, Stacked, There, Held, Writing
<1>PassDone. PassDone'
  BY <1>1, <1>6, <1>7, <1>8 DEF FilingInv, PassDone, Stacked, There, Held, Writing
<1>PassPushes. PassPushes'
  BY <1>1, <1>6, <1>7 DEF FilingInv, PassPushes
<1>UndoesFiles. UndoesFiles'
  BY <1>1, <1>6, <1>7, <1>8 DEF FilingInv, UndoesFiles, Stacked, Held, Writing
<1>UndoesManifest. UndoesManifest'
  <2>1. Stack = {}
    BY <1>1 DEF FilingInv, Held, Writing
  <2> QED
    BY <1>8, <2>1 DEF UndoesManifest
<1>FilesTrue. FilesTrue'
  BY <1>1, <1>6, <1>7, <1>8 DEF FilingInv, FilesTrue, Stacked, WalkHand
<1>ManifestTrue. ManifestTrue'
  BY <1>1, <1>6, <1>7, <1>8 DEF FilingInv, ManifestTrue, Stacked, Fits, Item
<1>Unghosted. Unghosted'
  BY <1>1, <1>4, <1>5, <1>6, <1>7 DEF FilingInv, Unghosted, Typed
<1>Bounded. Bounded'
  BY <1>1, <1>6, <1>7, <1>8 DEF FilingInv, Bounded, WalkHand
<1>kept. ASSUME Gaps = {}, KeptInv PROVE KeptInv'
  <2>0. Sized /\ Sized'
    BY <1>0, <1>t, Sizes, SizesNext
  <2>u. (UndoesPositive /\ KeptBounded /\ DropFound)'
    BY <1>kept, <1>7, <1>8 DEF KeptInv, UndoesPositive, Entries, KeptBounded, DropFound
  <2>RowsPositive. RowsPositive'
    BY <1>kept, <1>1, <1>6, <1>7 DEF KeptInv, RowsPositive, There, WalkPositive
  <2>FilesPositive. FilesPositive'
    BY <1>kept, <1>1, <1>6, <1>7 DEF KeptInv, FilesPositive, FilingInv, WalkHand, WalkPositive
  <2>WalkPositive. WalkPositive'
    BY <1>kept, <1>1, <1>4, <1>5, <1>7 DEF KeptInv, WalkPositive
  <2>EntriesPositive. EntriesPositive'
    BY <1>kept, <1>1, <1>4, <1>5, <1>7 DEF KeptInv, EntriesPositive, Entries
  <2>RowsKept. RowsKept'
    BY <1>kept, <1>1, <1>6, <1>7
      DEF KeptInv, RowsKept, There, FilingInv, WalkHand, FilesKept, WalkPositive
  <2>ItemsKept. ItemsKept'
    BY <1>kept, <1>1, <1>5, <1>6, <1>7, <1>s
       DEF KeptInv, ItemsKept, Shaped
  <2>ManifestKept. ManifestKept'
    BY <1>kept, <1>1, <1>6, <1>7 DEF KeptInv, ManifestKept, NotOlder, AtLeast, Ahead
  <2>FilesKept. FilesKept'
    BY <1>kept, <1>1, <1>6, <1>7 DEF KeptInv, FilesKept
  <2>UndoesKept. UndoesKept'
    BY <1>kept, <1>1, <1>6, <1>7, <1>8 DEF KeptInv, UndoesKept, NotOlder, AtLeast, Ahead
  <2>Found. Found'
    BY <1>kept, <1>1, <1>6, <1>7 DEF KeptInv, Found, There
  <2>TidyFound. TidyFound'
    BY <1>kept, <1>1, <1>6, <1>7, <1>s DEF KeptInv, TidyFound, FilingInv, Shaped
  <2> QED
    BY <2>u, <2>RowsPositive, <2>FilesPositive, <2>WalkPositive, <2>EntriesPositive, <2>RowsKept, <2>ItemsKept,
       <2>ManifestKept, <2>FilesKept, <2>UndoesKept, <2>Found, <2>TidyFound
       DEF KeptInv
<1> QED
  BY <1>kept, <1>t, <1>u, <1>Held, <1>TidyHand, <1>PromoteHand, <1>WalkHand, <1>HandsOff,
     <1>DropHand,
     <1>ItemHand, <1>PassOld, <1>PassTodo, <1>PassDrops, <1>PassDone, <1>PassPushes, <1>UndoesFiles,
     <1>UndoesManifest, <1>FilesTrue, <1>ManifestTrue, <1>Unghosted, <1>Bounded
     DEF FilingInv

LEMMA SweepKeeps ==
  ASSUME FilingInv, Minds, Sweep
  PROVE  FilingInv' /\ (Gaps = {} /\ KeptInv => KeptInv')
<1>0. Typed /\ Shaped
  BY Shapes DEF FilingInv
<1>1. up /\ pass.at = "idle" /\ walk.at = "files"
  BY DEF Sweep, AtWork, GuardFree
<1>r. /\ rules' \in Nat /\ torn' \subseteq Docs \cup {"rules", "manifest"}
      /\ \A x : x # "rules" => (x \in torn' <=> x \in torn)
      /\ rules' = mirror \/ (rules' = rules /\ torn' = torn)
  BY <1>0 DEF Sweep, Outcomes, Typed
<1>m. "manifest" # "rules"
  OBVIOUS
<1>n. \A c \in Docs : c \in torn' <=> c \in torn
  BY <1>r, Plain
<1>2. /\ rows' \in [Docs -> AnyRow]
      /\ \A c \in Docs : rows'[c] = rows[c] \/ (rows[c].kind = "file" /\ rows'[c].kind = "none" /\ rows'[c].filing = 0)
  BY <1>0 DEF Sweep, Typed, AnyRow, NoRow
<1>3. walk' \in Walks /\ walk'.at = "list" /\ walk'.docs = walk.docs /\ walk'.filing = walk.filing /\ walk'.items = walk.items
  BY <1>0 DEF Sweep, Typed, Walks
<1>4. UNCHANGED <<mirror, stale, files, manifest, pass, last, tidy, promote, unflushed, up, crashes,
                  kept, struck, unread>>
  BY DEF Sweep
<1>5. Stack' = Stack /\ Stack = {}
  <2>1. Stack' = Stack
    BY StackSame DEF Sweep
  <2> QED
    BY <1>1, <2>1 DEF FilingInv, Held, Writing
<1>t. Typed'
  BY <1>0, <1>1, <1>r, <1>2, <1>3, <1>4, <1>5 DEF Typed
<1>s. Shaped'
  BY <1>t, ShapesNext
<1>u. (CopyHand /\ OnceEach)'
  BY <1>4, <1>5 DEF FilingInv, CopyHand, OnceEach, Stacked
<1>Held. Held'
  BY <1>1, <1>3, <1>4, <1>5 DEF FilingInv, Held
<1>TidyHand. TidyHand'
  BY <1>0, <1>s, Plain, <1>1, <1>2, <1>3, <1>4, <1>5 DEF FilingInv, TidyHand, NoItems, Held, Shaped
<1>PromoteHand. PromoteHand'
  BY <1>2, <1>3, <1>4, <1>s DEF FilingInv, PromoteHand, Shaped
<1>WalkHand. WalkHand'
  BY <1>3, <1>4 DEF FilingInv, WalkHand
<1>HandsOff. HandsOff'
  BY <1>1, <1>4, <1>5 DEF FilingInv, HandsOff, Stacked, Held, Opening, Writing
<1>DropHand. DropHand'
  BY <1>1, <1>3, <1>4 DEF FilingInv, DropHand
<1>ItemHand. ItemHand'
  BY <1>1, <1>3, <1>4, <1>5 DEF FilingInv, ItemHand, NoItems, Held
<1>PassOld. PassOld'
  BY <1>2, <1>4, <1>s DEF FilingInv, PassOld, Shaped
<1>PassTodo. PassTodo'
  BY <1>1, <1>4 DEF FilingInv, PassTodo, Stacked, There, Held, Opening, Writing
<1>PassDrops. PassDrops'
  BY <1>1, <1>4 DEF FilingInv, PassDrops, Stacked, There, Held, Opening, Writing
<1>PassDone. PassDone'
  BY <1>1, <1>4 DEF FilingInv, PassDone, Stacked, There, Held, Opening, Writing
<1>PassManifest. PassManifest'
  BY <1>1, <1>4 DEF FilingInv, PassManifest, Held, Writing
<1>PassRules. PassRules'
  BY <1>1, <1>4 DEF FilingInv, PassRules, Held, Writing
<1>PassPushes. PassPushes'
  BY <1>1, <1>4 DEF FilingInv, PassPushes
<1>UndoesFiles. UndoesFiles'
  BY <1>5 DEF UndoesFiles
<1>UndoesRules. UndoesRules'
  BY <1>5 DEF UndoesRules
<1>UndoesManifest. UndoesManifest'
  BY <1>5 DEF UndoesManifest
<1>RulesTrue. RulesTrue'
  BY <1>4, <1>5, <1>r DEF FilingInv, RulesTrue, Stacked
<1>FilesTrue. FilesTrue'
  BY <1>2, <1>4, <1>5, <1>n, <1>s DEF FilingInv, FilesTrue, Stacked, Shaped
<1>ManifestTrue. ManifestTrue'
  BY <1>1, <1>2, <1>4, <1>5, <1>r, <1>m, <1>s DEF FilingInv, ManifestTrue, Stacked, Fits, Shaped
<1>Unghosted. Unghosted'
  BY <1>0, <1>s, Plain, <1>1, <1>2, <1>3, <1>4, <1>5
     DEF FilingInv, Unghosted, NoItems, Held, Opening, Writing, Nothing, Shaped
<1>Bounded. Bounded'
  BY <1>2, <1>4, <1>5, <1>s DEF FilingInv, Bounded, Shaped
<1>kept. ASSUME Gaps = {}, KeptInv PROVE KeptInv'
  <2>0. Sized /\ Sized'
    BY <1>0, <1>t, Sizes, SizesNext
  <2>1. \A c \in Docs : rows'[c] = rows[c] \/ (rows[c].kind = "file" /\ files[c] = 0)
    BY DEF Sweep
  <2>2. \A c \in Docs : rows'[c] = rows[c]
    BY <1>0, <1>kept, <2>1 DEF KeptInv, FilesPositive, Shaped
  <2>u. (UndoesPositive /\ KeptBounded /\ DropFound)'
    BY <1>kept, <1>4, <1>5 DEF KeptInv, UndoesPositive, Entries, KeptBounded, DropFound
  <2>RowsPositive. RowsPositive'
    BY <1>kept, <1>2, <1>4, <2>2 DEF KeptInv, RowsPositive, There
  <2>FilesPositive. FilesPositive'
    BY <1>kept, <1>2, <1>4, <2>2 DEF KeptInv, FilesPositive
  <2>WalkPositive. WalkPositive'
    BY <1>kept, <1>3, <1>4, <2>2 DEF KeptInv, WalkPositive
  <2>EntriesPositive. EntriesPositive'
    BY <1>kept, <1>3, <1>4, <2>2 DEF KeptInv, EntriesPositive, Entries
  <2>RowsKept. RowsKept'
    BY <1>kept, <1>2, <1>4, <2>2 DEF KeptInv, RowsKept, There
  <2>ItemsKept. ItemsKept'
    <3>1. walk'.items = NoItems
      BY <1>1, <1>3 DEF FilingInv, Held
    <3> QED
      BY <3>1, NoItemsShape DEF ItemsKept
  <2>ManifestKept. ManifestKept'
    BY <1>kept, <1>2, <1>4, <2>2 DEF KeptInv, ManifestKept, NotOlder, AtLeast, Ahead, FilingInv
  <2>FilesKept. FilesKept'
    BY <1>kept, <1>2, <1>4, <2>2 DEF KeptInv, FilesKept
  <2>UndoesKept. UndoesKept'
    BY <1>kept, <1>2, <1>4, <1>5, <2>2 DEF KeptInv, UndoesKept, NotOlder, AtLeast, Ahead, FilingInv
  <2>Found. Found'
    BY <1>kept, <1>2, <1>4, <2>2 DEF KeptInv, Found, There
  <2>TidyFound. TidyFound'
    BY <1>kept, <1>2, <1>4, <2>2, <1>s DEF KeptInv, TidyFound, FilingInv, Shaped
  <2> QED
    BY <2>u, <2>RowsPositive, <2>FilesPositive, <2>WalkPositive, <2>EntriesPositive, <2>RowsKept, <2>ItemsKept,
       <2>ManifestKept, <2>FilesKept, <2>UndoesKept, <2>Found, <2>TidyFound
       DEF KeptInv
<1> QED
  BY <1>kept, <1>t, <1>u, <1>Held, <1>TidyHand, <1>PromoteHand, <1>WalkHand, <1>HandsOff,
     <1>DropHand,
     <1>ItemHand, <1>PassOld, <1>PassTodo, <1>PassDrops, <1>PassDone, <1>PassManifest, <1>PassRules,
     <1>PassPushes, <1>UndoesFiles, <1>UndoesRules, <1>UndoesManifest, <1>RulesTrue, <1>FilesTrue,
     <1>ManifestTrue, <1>Unghosted, <1>Bounded
     DEF FilingInv

LEMMA ListItemsKeeps ==
  ASSUME FilingInv, Minds, ListItems
  PROVE  FilingInv' /\ (Gaps = {} /\ KeptInv => KeptInv')
<1>0. Typed /\ Shaped
  BY Shapes DEF FilingInv
<1>1. up /\ walk.at = "list" /\ pass.drops = {} /\ tidy.at = "idle"
  BY DEF ListItems, AtWork, Minds
<1>2. walk' \in Walks /\ walk'.at = "restore" /\ walk'.items = manifest /\ walk'.docs = walk.docs /\ walk'.filing = walk.filing
  BY <1>0 DEF ListItems, Typed, Walks
<1>3. UNCHANGED <<rows, mirror, stale, files, manifest, rules, pass, last, tidy, promote, unflushed, up,
                  crashes, kept, torn, struck, unread>>
  BY DEF ListItems
<1>4. Stack' = Stack
  BY StackSame DEF ListItems
<1>t. Typed'
  BY <1>0, <1>2, <1>3, <1>4 DEF Typed
<1>s. Shaped'
  BY <1>t, ShapesNext
<1>u. (CopyHand /\ PassOld /\ PassTodo /\ PassDrops /\ PassDone /\ PassManifest /\ PassRules /\
       PassPushes /\ UndoesFiles /\ UndoesRules /\ OnceEach /\ RulesTrue /\
       FilesTrue /\ ManifestTrue /\ Bounded)'
  BY <1>3, <1>4
     DEF FilingInv, CopyHand, PassOld, PassTodo, Stacked, There, PassDrops, PassDone, PassManifest,
        PassRules, PassPushes, UndoesFiles, UndoesRules, Fits, Item, OnceEach,
        RulesTrue, FilesTrue, ManifestTrue, Bounded
<1>Held. Held'
  BY <1>1, <1>2, <1>3, <1>4 DEF FilingInv, Held
<1>TidyHand. TidyHand'
  BY <1>1, <1>2, <1>3 DEF FilingInv, TidyHand, Held
<1>PromoteHand. PromoteHand'
  BY <1>1, <1>2, <1>3 DEF FilingInv, PromoteHand
<1>WalkHand. WalkHand'
  BY <1>1, <1>2, <1>3 DEF FilingInv, WalkHand
<1>HandsOff. HandsOff'
  BY <1>1, <1>2, <1>3, <1>4 DEF FilingInv, HandsOff, Stacked
<1>DropHand. DropHand'
  BY <1>1, <1>2, <1>3 DEF FilingInv, DropHand
<1>ItemHand. ItemHand'
  BY <1>2, <1>3 DEF FilingInv, ItemHand, Bounded
<1>UndoesManifest. UndoesManifest'
  BY <1>1, <1>2, <1>3, <1>4 DEF FilingInv, UndoesManifest, Fits, Item
<1>Unghosted. Unghosted'
  BY <1>1, <1>2, <1>3 DEF FilingInv, Unghosted
<1>kept. ASSUME Gaps = {}, KeptInv PROVE KeptInv'
  <2>0. Sized /\ Sized'
    BY <1>0, <1>t, Sizes, SizesNext
  <2>u. (RowsPositive /\ FilesPositive /\ UndoesPositive /\ RowsKept /\ ManifestKept /\ FilesKept /\
         UndoesKept /\ KeptBounded /\ Found /\ TidyFound /\ DropFound)'
    BY <1>kept, <1>3, <1>4
       DEF KeptInv, RowsPositive, There, FilesPositive, UndoesPositive, Entries, RowsKept,
           ManifestKept,
          NotOlder, AtLeast, Ahead, FilesKept, UndoesKept, KeptBounded, Found, TidyFound, DropFound
  <2>WalkPositive. WalkPositive'
    BY <1>kept, <1>1, <1>2, <1>3 DEF KeptInv, WalkPositive
  <2>EntriesPositive. EntriesPositive'
    BY <1>kept, <1>1, <1>2, <1>3 DEF KeptInv, EntriesPositive, Entries
  <2>ItemsKept. ItemsKept'
    BY <1>kept, <1>2, <1>3 DEF KeptInv, ItemsKept, ManifestKept, NotOlder
  <2> QED
    BY <2>u, <2>ItemsKept, <2>WalkPositive, <2>EntriesPositive DEF KeptInv
<1> QED
  BY <1>kept, <1>t, <1>u, <1>Held, <1>TidyHand, <1>PromoteHand, <1>WalkHand, <1>HandsOff,
     <1>DropHand,
     <1>ItemHand, <1>UndoesManifest, <1>Unghosted
     DEF FilingInv

LEMMA RestoreKeeps ==
  ASSUME FilingInv, Minds, NEW d \in Docs, Restore(d)
  PROVE  FilingInv' /\ (Gaps = {} /\ KeptInv => KeptInv')
<1>0. Typed /\ Shaped
  BY Shapes DEF FilingInv
<1>1. up /\ pass.at = "idle" /\ walk.at = "restore" /\ walk.items[d] # Nothing
  BY DEF Restore, GuardFree
<1>2. /\ walk' \in Walks /\ walk'.at = "restore" /\ walk'.docs = walk.docs /\ walk'.filing = walk.filing
      /\ walk'.items[d] = Nothing /\ \A c \in Docs \ {d} : walk'.items[c] = walk.items[c]
  BY <1>0 DEF Restore, Typed, Walks, Nothing, AnyItem
<1>3. /\ manifest' \in [Docs -> AnyItem] /\ struck' \subseteq Docs
      /\ \/ manifest' = manifest /\ struck' = struck
         \/ /\ rows[d].kind = "file" /\ tidy.at # "write" /\ struck' = struck \cup {d}
            /\ manifest'[d] = Nothing /\ \A c \in Docs \ {d} : manifest'[c] = manifest[c]
  BY <1>0 DEF Restore, Outcomes, Alone, Minds, Nothing, AnyItem, Typed
<1>4. /\ rows' \in [Docs -> AnyRow]
      /\ \/ rows' = rows
         \/ /\ rows[d].kind = "none" /\ \A c \in Docs \ {d} : rows'[c] = rows[c]
            /\ rows'[d].kind = "pointer" /\ Item(rows'[d]) = walk.items[d]
  BY <1>0 DEF Restore, Outcomes, Item, AnyItem, AnyRow, Typed, Walks
<1>5. UNCHANGED <<mirror, stale, files, rules, pass, last, tidy, promote, unflushed, up, crashes, kept, torn, unread>>
  BY DEF Restore
<1>6. Stack' = Stack
  BY StackSame DEF Restore
<1>t. Typed'
  BY <1>0, <1>2, <1>3, <1>4, <1>5, <1>6 DEF Typed
<1>s. Shaped'
  BY <1>t, ShapesNext
<1>u. (PassRules /\ UndoesRules /\ OnceEach /\ RulesTrue)'
  BY <1>5, <1>6 DEF FilingInv, PassRules, Stacked, UndoesRules, OnceEach, RulesTrue
<1>Held. Held'
  BY <1>1, <1>2, <1>5, <1>6 DEF FilingInv, Held
<1>TidyHand. TidyHand'
  BY <1>1, <1>2, <1>4, <1>5, <1>s DEF FilingInv, TidyHand, Shaped
<1>PromoteHand. PromoteHand'
  BY <1>1, <1>2, <1>4, <1>5, <1>s DEF FilingInv, PromoteHand, Shaped
<1>WalkHand. WalkHand'
  BY <1>1, <1>2, <1>5 DEF FilingInv, WalkHand
<1>HandsOff. HandsOff'
  BY <1>1, <1>2, <1>4, <1>5, <1>6 DEF FilingInv, HandsOff, Stacked, Held, Writing
<1>DropHand. DropHand'
  BY <1>1, <1>2, <1>4, <1>5 DEF FilingInv, DropHand, Held, Writing
<1>ItemHand. ItemHand'
  BY <1>1, <1>2, <1>3, <1>4, <1>5 DEF FilingInv, ItemHand
<1>CopyHand. CopyHand'
  BY <1>1, <1>3, <1>5 DEF FilingInv, CopyHand
<1>PassOld. PassOld'
  BY <1>1, <1>4, <1>5 DEF FilingInv, PassOld, Held, Writing
<1>PassTodo. PassTodo'
  BY <1>1, <1>4, <1>5, <1>6 DEF FilingInv, PassTodo, Stacked, There, Held, Writing
<1>PassDrops. PassDrops'
  BY <1>1, <1>4, <1>5, <1>6 DEF FilingInv, PassDrops, Stacked, There, Held, Writing
<1>PassDone. PassDone'
  BY <1>1, <1>4, <1>5, <1>6 DEF FilingInv, PassDone, Stacked, There, Held, Writing
<1>PassManifest. PassManifest'
  BY <1>1, <1>3, <1>5, <1>6 DEF FilingInv, PassManifest, Stacked
<1>PassPushes. PassPushes'
  BY <1>1, <1>3, <1>4, <1>5 DEF FilingInv, PassPushes
<1>UndoesFiles. UndoesFiles'
  BY <1>1, <1>4, <1>5, <1>6 DEF FilingInv, UndoesFiles, Stacked
<1>UndoesManifest. UndoesManifest'
  BY <1>1, <1>3, <1>4, <1>5, <1>6 DEF FilingInv, UndoesManifest, Stacked, Fits, Item, Held, Writing
<1>FilesTrue. FilesTrue'
  BY <1>1, <1>4, <1>5, <1>6 DEF FilingInv, FilesTrue, Stacked
<1>ManifestTrue. ManifestTrue'
  <2>1. rows'[d].kind = "pointer" /\ rows' # rows => manifest'[d] \in {Nothing, Item(rows'[d])}
    BY <1>1, <1>3, <1>4 DEF FilingInv, ItemHand
  <2> QED
    BY <1>0, <1>1, <1>3, <1>4, <1>5, <1>6, <2>1
      DEF FilingInv, ManifestTrue, Fits, Stacked, Opening, Held, Writing
<1>Unghosted. Unghosted'
  BY <1>1, <1>2, <1>3, <1>4, <1>5 DEF FilingInv, Unghosted
<1>Bounded. Bounded'
  <2>1. \A c \in Docs : rows'[c].filing <= last
    <3>1. rows' # rows => rows'[d].filing <= last
      BY <1>1, <1>4 DEF FilingInv, ItemHand, Item
    <3> QED
      BY <1>4, <3>1 DEF FilingInv, Bounded
  <2>2. \A c \in Docs : manifest'[c].filing <= last
    <3>1. last \in Nat /\ Nothing.filing = 0
      BY <1>0 DEF Shaped, Nothing
    <3>2. \A c \in Docs : manifest'[c] = manifest[c] \/ manifest'[c] = Nothing
      BY <1>3
    <3>3. \A c \in Docs : manifest[c].filing <= last
      BY DEF FilingInv, Bounded
    <3> QED
      BY <3>1, <3>2, <3>3
  <2> QED
    BY <1>5, <1>6, <2>1, <2>2 DEF FilingInv, Bounded
<1>kept. ASSUME Gaps = {}, KeptInv PROVE KeptInv'
  <2>0. Sized /\ Sized'
    BY <1>0, <1>t, Sizes, SizesNext
  <2>1. rows[d].kind = "none" =>
          /\ manifest[d] \in {Nothing, walk.items[d]} /\ AtLeast(walk.items[d], kept[d])
          /\ manifest[d] = Nothing => kept[d] = Nothing \/ d \in unread
    BY <1>1, <1>kept DEF FilingInv, ItemHand, KeptInv, ItemsKept
  <2>2. \/ rows' = rows
        \/ /\ rows[d].kind = "none" /\ rows'[d].filing = walk.items[d].filing /\ rows'[d].seen = walk.items[d].seen
           /\ rows'[d].kind = "pointer"
    BY <1>0 DEF Restore, Outcomes, Typed
  <2>u. (KeptBounded /\ DropFound)'
    BY <1>kept, <1>5, <1>6 DEF KeptInv, KeptBounded, DropFound
  <2>RowsPositive. RowsPositive'
    <3>1. walk.items[d].filing > 0
      BY <1>1, <1>kept DEF KeptInv, EntriesPositive, Entries
    <3> QED
      BY <1>4, <1>kept, <2>2, <3>1 DEF KeptInv, RowsPositive, There
  <2>FilesPositive. FilesPositive'
    BY <1>kept, <1>1, <1>4, <1>5, <2>1, <2>2 DEF KeptInv, FilesPositive
  <2>WalkPositive. WalkPositive'
    BY <1>kept, <1>1, <1>2, <1>5, <2>1, <2>2 DEF KeptInv, WalkPositive
  <2>EntriesPositive. EntriesPositive'
    BY <1>kept, <1>1, <1>2, <1>3, <1>5, <2>1, <2>2 DEF KeptInv, EntriesPositive, Entries
  <2>UndoesPositive. UndoesPositive'
    BY <1>kept, <1>1, <1>3, <1>5, <1>6, <2>1, <2>2 DEF KeptInv, UndoesPositive, Entries
  <2>RowsKept. RowsKept'
    BY <1>4, <1>5, <1>kept, <2>1, <2>2 DEF KeptInv, RowsKept, There, AtLeast
  <2>ItemsKept. ItemsKept'
    <3>1. ASSUME NEW c \in Docs, rows'[c].kind = "none", walk'.items[c] # Nothing
          PROVE  c # d /\ rows[c] = rows'[c] /\ walk.items[c] = walk'.items[c] /\ manifest'[c] = manifest[c]
      BY <1>2, <1>3, <1>4, <3>1
    <3> QED
      BY <1>5, <1>kept, <3>1 DEF KeptInv, ItemsKept, AtLeast
  <2>ManifestKept. ManifestKept'
    <3>1. rows' # rows => manifest' = manifest
      BY <1>3, <1>4
    <3>2. rows' # rows => /\ manifest'[d] # Nothing => AtLeast(manifest'[d], kept[d])
                          /\ manifest'[d] = Nothing => kept[d] = Nothing \/ d \in unread
      BY <1>4, <2>1, <3>1
    <3>3. rows' = rows => /\ rows'[d] = rows[d]
                          /\ rows[d].kind # "file" => manifest'[d] = manifest[d]
      BY <1>3
    <3> QED
      BY <1>3, <1>4, <1>5, <1>kept, <3>1, <3>2, <3>3 DEF KeptInv, ManifestKept, NotOlder, Ahead
  <2>FilesKept. FilesKept'
    BY <1>kept, <1>1, <1>4, <1>5, <2>1, <2>2 DEF KeptInv, FilesKept
  <2>UndoesKept. UndoesKept'
    BY <1>kept, <1>1, <1>3, <1>4, <1>5, <1>6, <2>1, <2>2
       DEF KeptInv, UndoesKept, NotOlder, AtLeast, Ahead, FilingInv, Held, Writing
  <2>Found. Found'
    BY <1>kept, <1>1, <1>3, <1>4, <1>5, <2>1, <2>2 DEF KeptInv, Found, There
  <2>TidyFound. TidyFound'
    BY <1>kept, <1>1, <1>4, <1>5, <2>1, <2>2, <1>s DEF KeptInv, TidyFound, FilingInv, Shaped
  <2> QED
    BY <2>u, <2>RowsPositive, <2>FilesPositive, <2>WalkPositive, <2>EntriesPositive,
       <2>UndoesPositive,
       <2>RowsKept, <2>ItemsKept, <2>ManifestKept, <2>FilesKept, <2>UndoesKept, <2>Found, <2>TidyFound
       DEF KeptInv
<1> QED
  BY <1>kept, <1>t, <1>u, <1>Held, <1>TidyHand, <1>PromoteHand, <1>WalkHand, <1>HandsOff,
     <1>DropHand,
     <1>ItemHand, <1>CopyHand, <1>PassOld, <1>PassTodo, <1>PassDrops, <1>PassDone, <1>PassManifest,
     <1>PassPushes, <1>UndoesFiles, <1>UndoesManifest, <1>FilesTrue, <1>ManifestTrue, <1>Unghosted,
     <1>Bounded
     DEF FilingInv

LEMMA EndWalkKeeps ==
  ASSUME FilingInv, Minds, EndWalk
  PROVE  FilingInv' /\ (Gaps = {} /\ KeptInv => KeptInv')
<1>0. Typed /\ Shaped
  BY Shapes DEF FilingInv
<1>1. up /\ pass.at = "idle" /\ walk.items = NoItems /\ unflushed' = TRUE /\ walk.at = "restore"
  BY DEF EndWalk, GuardFree
<1>2. walk' \in Walks /\ walk'.at = "off" /\ walk'.docs = walk.docs /\ walk'.filing = walk.filing /\ walk'.items = walk.items
  BY <1>0 DEF EndWalk, Typed, Walks
<1>3. UNCHANGED <<rows, mirror, stale, files, manifest, rules, pass, last, tidy, promote, up, crashes,
                  kept, torn, struck, unread>>
  BY DEF EndWalk
<1>4. Stack' = Stack
  BY StackSame DEF EndWalk
<1>t. Typed'
  BY <1>0, <1>1, <1>2, <1>3, <1>4 DEF Typed
<1>s. Shaped'
  BY <1>t, ShapesNext
<1>u. (CopyHand /\ PassOld /\ PassTodo /\ PassDrops /\ PassDone /\ PassManifest /\ PassRules /\
       PassPushes /\ UndoesFiles /\ UndoesRules /\ OnceEach /\ RulesTrue /\ FilesTrue /\ Bounded)'
  BY <1>2, <1>3, <1>4
     DEF FilingInv, CopyHand, PassOld, PassTodo, Stacked, There, PassDrops, PassDone, PassManifest,
        PassRules, PassPushes, UndoesFiles, UndoesRules, OnceEach, RulesTrue, FilesTrue, Bounded
<1>Held. Held'
  BY <1>1, <1>2, <1>3, <1>4 DEF FilingInv, Held
<1>TidyHand. TidyHand'
  BY <1>2, <1>3 DEF FilingInv, TidyHand
<1>PromoteHand. PromoteHand'
  BY <1>2, <1>3 DEF FilingInv, PromoteHand
<1>WalkHand. WalkHand'
  BY <1>2, <1>3 DEF FilingInv, WalkHand
<1>HandsOff. HandsOff'
  BY <1>2, <1>3, <1>4 DEF FilingInv, HandsOff, Stacked
<1>DropHand. DropHand'
  BY <1>2, <1>3 DEF FilingInv, DropHand
<1>ItemHand. ItemHand'
  BY <1>2, <1>3 DEF FilingInv, ItemHand
<1>UndoesManifest. UndoesManifest'
  BY <1>1, <1>2, <1>3, <1>4 DEF FilingInv, UndoesManifest, Stacked, Fits, Item
<1>ManifestTrue. ManifestTrue'
  BY <1>1, <1>3, <1>4 DEF FilingInv, ManifestTrue, Stacked, Fits, Item
<1>Unghosted. Unghosted'
  BY <1>2, <1>3 DEF FilingInv, Unghosted
<1>kept. ASSUME Gaps = {}, KeptInv PROVE KeptInv'
  <2>0. Sized /\ Sized'
    BY <1>0, <1>t, Sizes, SizesNext
  <2>u. (RowsPositive /\ FilesPositive /\ UndoesPositive /\ RowsKept /\ ItemsKept /\ ManifestKept /\ FilesKept /\
         UndoesKept /\ KeptBounded /\ Found /\ TidyFound /\ DropFound)'
    BY <1>kept, <1>2, <1>3, <1>4
       DEF KeptInv, RowsPositive, There, FilesPositive, UndoesPositive, Entries, RowsKept, ItemsKept, AtLeast,
           ManifestKept,
          NotOlder, AtLeast, Ahead, FilesKept, UndoesKept, KeptBounded, Found, TidyFound, DropFound
  <2>WalkPositive. WalkPositive'
    BY <1>kept, <1>2, <1>3 DEF KeptInv, WalkPositive
  <2>EntriesPositive. EntriesPositive'
    BY <1>kept, <1>2, <1>3 DEF KeptInv, EntriesPositive, Entries
  <2> QED
    BY <2>u, <2>WalkPositive, <2>EntriesPositive DEF KeptInv
<1> QED
  BY <1>kept, <1>t, <1>u, <1>Held, <1>TidyHand, <1>PromoteHand, <1>WalkHand, <1>HandsOff,
     <1>DropHand,
     <1>ItemHand, <1>UndoesManifest, <1>ManifestTrue, <1>Unghosted
     DEF FilingInv

-----------------------------------------------------------------------------
(* The end of PM, and its start.                                           *)
LEMMA CrashKeeps ==
  ASSUME FilingInv, Minds, Crash
  PROVE  FilingInv' /\ (Gaps = {} /\ KeptInv => KeptInv')
<1>0. Typed /\ Shaped
  BY Shapes DEF FilingInv
<1>1. up /\ up' = FALSE /\ unflushed' = FALSE /\ crashes' \in Nat
  BY <1>0 DEF Crash, Typed
<1>2. /\ torn' \subseteq Docs \cup {"rules", "manifest"} /\ torn \subseteq torn'
      /\ \A c \in Docs : c \in torn' <=> c \in torn \/ Stacked(c)
  BY <1>0 DEF Crash, Stacked, Stack, Typed
<1>3. pass' \in Passes /\ pass'.at = "idle" /\ pass'.no = 0 /\ pass'.drops = {} /\ pass'.todo = {}
  BY <1>0 DEF Crash, Opening, Idle, Typed, Passes, NoItems, NoRows, NoRow, Nothing, AnyItem, AnyRow
<1>4. tidy' \in Tidies /\ tidy'.at = "idle" /\ tidy'.docs = {}
  BY <1>0 DEF Crash, Tidied, Tidies, NoItems, Nothing, AnyItem, Typed
<1>5. promote' \in Promotes /\ promote'.at = "idle" /\ promote'.docs = {}
  BY DEF Crash, NotPromoting, Promotes
<1>6. walk' \in Walks /\ walk'.at = "off" /\ walk'.docs = {} /\ walk'.items = NoItems
  BY <1>0 DEF Crash, Typed, Walks, NoItems, Nothing, AnyItem
<1>7. UNCHANGED <<rows, mirror, stale, files, manifest, rules, last, kept, struck, unread>>
  BY DEF Crash
<1>8. pass'.written = <<>>
  BY DEF Crash, Idle, Outcomes
<1>9. Stack' = {}
  BY <1>8, StackNoneNext DEF StackNoneNext
<1>t. Typed'
  BY <1>0, <1>1, <1>2, <1>3, <1>4, <1>5, <1>6, <1>7, <1>8, <1>9 DEF Typed
<1>s. Shaped'
  BY <1>t, ShapesNext
<1>Held. Held'
  BY <1>1, <1>3, <1>4, <1>5, <1>6, <1>7, <1>8, <1>9 DEF FilingInv, Held
<1>TidyHand. TidyHand'
  BY <1>4, <1>5, <1>6, <1>7 DEF FilingInv, TidyHand
<1>PromoteHand. PromoteHand'
  BY <1>5, <1>6, <1>7 DEF FilingInv, PromoteHand
<1>WalkHand. WalkHand'
  BY <1>6, <1>7 DEF FilingInv, WalkHand
<1>HandsOff. HandsOff'
  BY <1>3, <1>5, <1>6, <1>7, <1>8, <1>9 DEF FilingInv, HandsOff, Stacked
<1>DropHand. DropHand'
  BY <1>3, <1>6, <1>7 DEF FilingInv, DropHand
<1>ItemHand. ItemHand'
  BY <1>6, <1>7 DEF FilingInv, ItemHand, NoItems
<1>CopyHand. CopyHand'
  BY <1>4, <1>7 DEF FilingInv, CopyHand
<1>PassOld. PassOld'
  BY <1>3, <1>7 DEF FilingInv, PassOld
<1>PassTodo. PassTodo'
  BY <1>3, <1>7, <1>8, <1>9 DEF FilingInv, PassTodo, Stacked, There
<1>PassDrops. PassDrops'
  BY <1>3, <1>7, <1>8, <1>9 DEF FilingInv, PassDrops, Stacked, There
<1>PassDone. PassDone'
  BY <1>3, <1>7, <1>8, <1>9 DEF FilingInv, PassDone, Stacked, There
<1>PassManifest. PassManifest'
  BY <1>3, <1>4, <1>7, <1>8, <1>9 DEF FilingInv, PassManifest, Stacked
<1>PassRules. PassRules'
  BY <1>3, <1>7, <1>8, <1>9 DEF FilingInv, PassRules, Stacked
<1>PassPushes. PassPushes'
  BY <1>3, <1>4, <1>7 DEF FilingInv, PassPushes
<1>UndoesFiles. UndoesFiles'
  BY <1>2, <1>7, <1>8, <1>9 DEF FilingInv, UndoesFiles, Stacked
<1>UndoesRules. UndoesRules'
  BY <1>7, <1>8, <1>9 DEF FilingInv, UndoesRules
<1>UndoesManifest. UndoesManifest'
  BY <1>1, <1>4, <1>7, <1>8, <1>9 DEF FilingInv, UndoesManifest, Stacked, Fits, Item
<1>OnceEach. OnceEach'
  BY <1>7, <1>8, <1>9 DEF FilingInv, OnceEach, Stacked
<1>RulesTrue. RulesTrue'
  BY <1>1, <1>7, <1>8, <1>9 DEF FilingInv, RulesTrue, Stacked
<1>FilesTrue. FilesTrue'
  BY <1>2, <1>7, <1>8, <1>9 DEF FilingInv, FilesTrue, Stacked
<1>ManifestTrue. ManifestTrue'
  BY <1>1, <1>3, <1>7, <1>8, <1>9 DEF FilingInv, ManifestTrue, Stacked, Fits, Item
<1>Unghosted. Unghosted'
  BY <1>6, <1>7, <1>s DEF FilingInv, Unghosted, NoItems, Shaped
<1>Bounded. Bounded'
  BY <1>7, <1>8, <1>9 DEF FilingInv, Bounded
<1>kept. ASSUME Gaps = {}, KeptInv PROVE KeptInv'
  <2>0. Sized /\ Sized'
    BY <1>0, <1>t, Sizes, SizesNext
  <2>1. pass.at # "mark"
    BY <1>0, <1>kept DEF Crash
  <2>u. (RowsPositive /\ FilesPositive /\ RowsKept /\ FilesKept /\ KeptBounded /\ Found)'
    BY <1>kept, <1>7
       DEF KeptInv, RowsPositive, There, FilesPositive, RowsKept, FilesKept, KeptBounded, Found
  <2>ItemsKept. ItemsKept'
    BY <1>6, NoItemsShape DEF ItemsKept
  <2>WalkPositive. WalkPositive'
    BY <1>kept, <1>6, <1>7, <2>1 DEF KeptInv, WalkPositive
  <2>EntriesPositive. EntriesPositive'
    BY <1>kept, <1>6, <1>7, <2>1 DEF KeptInv, EntriesPositive, Entries, NoItems
  <2>UndoesPositive. UndoesPositive'
    BY <1>kept, <1>7, <1>8, <1>9, <2>1 DEF KeptInv, UndoesPositive, Entries
  <2>ManifestKept. ManifestKept'
    BY <1>kept, <1>3, <1>7, <2>1 DEF KeptInv, ManifestKept, NotOlder, AtLeast, Ahead, FilingInv
  <2>UndoesKept. UndoesKept'
    BY <1>kept, <1>3, <1>7, <1>8, <1>9, <2>1 DEF KeptInv, UndoesKept, NotOlder, AtLeast, Ahead
  <2>TidyFound. TidyFound'
    BY <1>kept, <1>4, <1>7, <2>1 DEF KeptInv, TidyFound
  <2>DropFound. DropFound'
    BY <1>kept, <1>3, <1>7, <2>1 DEF KeptInv, DropFound
  <2> QED
    BY <2>u, <2>ItemsKept, <2>WalkPositive, <2>EntriesPositive, <2>UndoesPositive, <2>ManifestKept, <2>UndoesKept,
       <2>TidyFound, <2>DropFound
       DEF KeptInv
<1> QED
  BY <1>kept, <1>t, <1>Held, <1>TidyHand, <1>PromoteHand, <1>WalkHand, <1>HandsOff, <1>DropHand,
     <1>ItemHand, <1>CopyHand, <1>PassOld, <1>PassTodo, <1>PassDrops, <1>PassDone, <1>PassManifest,
     <1>PassRules, <1>PassPushes, <1>UndoesFiles, <1>UndoesRules, <1>UndoesManifest, <1>OnceEach,
     <1>RulesTrue, <1>FilesTrue, <1>ManifestTrue, <1>Unghosted, <1>Bounded
     DEF FilingInv

LEMMA OpenKeeps ==
  ASSUME FilingInv, Minds, Open
  PROVE  FilingInv' /\ (Gaps = {} /\ KeptInv => KeptInv')
<1>0. Typed /\ Shaped
  BY Shapes DEF FilingInv
<1>1. ~up /\ up' = TRUE /\ mirror' \in Nat /\ rules' \in Nat
  BY <1>0 DEF Open, Typed
<1>o. /\ torn' \subseteq Docs \cup {"rules", "manifest"} /\ (mirror' = rules' \/ "rules" \in torn')
      /\ \A x : x # "rules" => (x \in torn' <=> x \in torn)
  BY <1>0 DEF Open, Typed
<1>n. \A c \in Docs : c \in torn' <=> c \in torn
  BY <1>o, Plain
<1>2. pass' \in Passes /\ pass'.at = "fold" /\ pass'.no = 0 /\ pass'.drops = {} /\ pass'.todo = {}
  BY IdleShape DEF Open, Passes, Opening
<1>3. UNCHANGED <<rows, stale, files, manifest, last, tidy, promote, walk, unflushed, crashes,
                  kept, struck, unread>>
  BY DEF Open
<1>4. pass'.written = <<>>
  BY DEF Open, Idle, Outcomes
<1>5. Stack' = {}
  BY <1>4, StackNoneNext DEF StackNoneNext
<1>t. Typed'
  BY <1>0, <1>1, <1>o, <1>2, <1>3, <1>4, <1>5 DEF Typed
<1>s. Shaped'
  BY <1>t, ShapesNext
<1>u. (TidyHand /\ PromoteHand /\ WalkHand /\ ItemHand /\ CopyHand /\ Unghosted)'
  BY <1>3 DEF FilingInv, TidyHand, PromoteHand, WalkHand, ItemHand, CopyHand, Unghosted
<1>Held. Held'
  BY <1>1, <1>2, <1>3, <1>4, <1>5 DEF FilingInv, Held, Opening
<1>HandsOff. HandsOff'
  BY <1>2, <1>3, <1>4, <1>5 DEF FilingInv, HandsOff, Stacked
<1>DropHand. DropHand'
  BY <1>2, <1>3 DEF FilingInv, DropHand
<1>PassOld. PassOld'
  BY <1>2, <1>3 DEF FilingInv, PassOld
<1>PassTodo. PassTodo'
  BY <1>2, <1>3, <1>4, <1>5 DEF FilingInv, PassTodo, Stacked, There
<1>PassDrops. PassDrops'
  BY <1>2, <1>3, <1>4, <1>5 DEF FilingInv, PassDrops, Stacked, There
<1>PassDone. PassDone'
  BY <1>2, <1>3, <1>4, <1>5 DEF FilingInv, PassDone, Stacked, There
<1>PassManifest. PassManifest'
  BY <1>2, <1>3, <1>4, <1>5 DEF FilingInv, PassManifest, Stacked
<1>PassRules. PassRules'
  BY <1>1, <1>2, <1>3, <1>4, <1>5 DEF FilingInv, PassRules, Stacked
<1>PassPushes. PassPushes'
  BY <1>2, <1>3 DEF FilingInv, PassPushes
<1>UndoesFiles. UndoesFiles'
  BY <1>5 DEF UndoesFiles
<1>UndoesRules. UndoesRules'
  BY <1>5 DEF UndoesRules
<1>UndoesManifest. UndoesManifest'
  BY <1>5 DEF UndoesManifest
<1>OnceEach. OnceEach'
  BY <1>3, <1>4, <1>5 DEF FilingInv, OnceEach, Stacked
<1>RulesTrue. RulesTrue'
  BY <1>o DEF RulesTrue
<1>FilesTrue. FilesTrue'
  BY <1>1, <1>3, <1>n DEF FilingInv, FilesTrue, Stacked, Held, Opening, Writing
<1>ManifestTrue. ManifestTrue'
  BY <1>1, <1>2, <1>3, <1>4, <1>5 DEF FilingInv, ManifestTrue, Stacked, Fits, Item, Opening
<1>Bounded. Bounded'
  BY <1>3, <1>4, <1>5 DEF FilingInv, Bounded
<1>kept. ASSUME Gaps = {}, KeptInv PROVE KeptInv'
  <2>0. Sized /\ Sized'
    BY <1>0, <1>t, Sizes, SizesNext
  <2>u. (RowsPositive /\ FilesPositive /\ WalkPositive /\ EntriesPositive /\ RowsKept /\ ItemsKept /\ FilesKept /\
         KeptBounded /\ Found /\ TidyFound)'
    BY <1>kept, <1>3
       DEF KeptInv, RowsPositive, There, FilesPositive, WalkPositive, EntriesPositive, Entries,
           RowsKept, ItemsKept, AtLeast,
          FilesKept, KeptBounded, Found, TidyFound
  <2>UndoesPositive. UndoesPositive'
    BY <1>kept, <1>3, <1>4, <1>5 DEF KeptInv, UndoesPositive, Entries
  <2>ManifestKept. ManifestKept'
    BY <1>kept, <1>1, <1>3 DEF KeptInv, ManifestKept, NotOlder, AtLeast, Ahead, FilingInv, Held
  <2>UndoesKept. UndoesKept'
    BY <1>kept, <1>2, <1>3, <1>4, <1>5 DEF KeptInv, UndoesKept, NotOlder, AtLeast, Ahead
  <2>DropFound. DropFound'
    BY <1>kept, <1>2, <1>3 DEF KeptInv, DropFound
  <2> QED
    BY <2>u, <2>UndoesPositive, <2>ManifestKept, <2>UndoesKept, <2>DropFound DEF KeptInv
<1> QED
  BY <1>kept, <1>t, <1>u, <1>Held, <1>HandsOff, <1>DropHand, <1>PassOld, <1>PassTodo, <1>PassDrops,
     <1>PassDone, <1>PassManifest, <1>PassRules, <1>PassPushes, <1>UndoesFiles, <1>UndoesRules,
     <1>UndoesManifest, <1>OnceEach, <1>RulesTrue, <1>FilesTrue, <1>ManifestTrue, <1>Bounded
     DEF FilingInv

LEMMA FoldKeeps ==
  ASSUME FilingInv, Minds, NEW a \in Docs, NEW b \in Docs, Fold(a, b)
  PROVE  FilingInv' /\ (Gaps = {} /\ KeptInv => KeptInv')
<1>0. Typed /\ Shaped
  BY Shapes DEF FilingInv
<1>1. pass.at = "fold" /\ a # b /\ rows[a].kind = "pointer" /\ rows[b].kind = "pointer"
  BY DEF Fold
<1>2. kept' \in [Docs -> AnyItem]
  BY <1>0 DEF Fold, Typed, AnyRow, AnyItem, Nothing
<1>3. /\ rows' \in [Docs -> AnyRow] /\ rows'[b].kind = "none" /\ rows'[b].filing = 0
      /\ rows'[a].kind = "pointer" /\ rows'[a].filing \in {rows[a].filing, rows[b].filing}
      /\ \A c \in Docs \ {a, b} : rows'[c] = rows[c]
  <2> DEFINE filing == IF rows[a].filing > 1 THEN rows[a].filing ELSE rows[b].filing
  <2> DEFINE folded == [rows[a] EXCEPT !.filing = filing]
  <2>1. filing \in Nat /\ filing \in {rows[a].filing, rows[b].filing}
    BY <1>0 DEF Shaped
  <2>2. rows' = [rows EXCEPT ![a] = folded, ![b] = NoRow]
    BY DEF Fold
  <2> HIDE DEF filing
  <2>3. folded \in AnyRow /\ folded.kind = "pointer" /\ folded.filing = filing
    <3>1. rows[a] \in AnyRow
      BY <1>0 DEF Typed
    <3> QED
      BY <1>1, <2>1, <3>1 DEF AnyRow
  <2>4. NoRow \in AnyRow /\ NoRow.kind = "none" /\ NoRow.filing = 0
    BY DEF NoRow, AnyRow
  <2> HIDE DEF folded
  <2> QED
    BY <1>0, <1>1, <2>1, <2>2, <2>3, <2>4 DEF Typed
<1>4. pass' \in Passes /\ pass'.at = "mark" /\ pass'.drops = {b} /\ pass'.no = pass.no /\ pass'.todo = pass.todo /\ pass'.written = pass.written
  BY <1>0 DEF Fold, Typed, Passes, Opening
<1>5. Stack' = Stack
  BY <1>4, StackSame DEF StackSame
<1>6. UNCHANGED <<mirror, stale, files, manifest, rules, last, tidy, promote, walk, unflushed, up,
                  crashes, torn, struck, unread>>
  BY DEF Fold
<1>t. Typed'
  BY <1>0, <1>2, <1>3, <1>4, <1>5, <1>6 DEF Typed
<1>s. Shaped'
  BY <1>t, ShapesNext
<1>u. (WalkHand /\ CopyHand /\ UndoesRules /\ OnceEach /\ RulesTrue)'
  BY <1>4, <1>5, <1>6 DEF FilingInv, WalkHand, CopyHand, UndoesRules, OnceEach, Stacked, RulesTrue
<1>Held. Held'
  BY <1>1, <1>4, <1>5, <1>6 DEF FilingInv, Held, Opening, Writing
<1>TidyHand. TidyHand'
  BY <1>1, <1>3, <1>6 DEF FilingInv, TidyHand, Held, Opening
<1>PromoteHand. PromoteHand'
  BY <1>1, <1>3, <1>6 DEF FilingInv, PromoteHand, Held, Opening
<1>HandsOff. HandsOff'
  BY <1>1, <1>3, <1>4, <1>5, <1>6 DEF FilingInv, HandsOff, Stacked, Held, Writing
<1>DropHand. DropHand'
  BY <1>1, <1>3, <1>4, <1>6 DEF FilingInv, DropHand, Held, Opening, NoItems
<1>ItemHand. ItemHand'
  BY <1>1, <1>3, <1>6 DEF FilingInv, ItemHand, NoItems, Held, Opening
<1>PassOld. PassOld'
  BY <1>1, <1>3, <1>4, <1>6 DEF FilingInv, PassOld, Held, Writing
<1>PassTodo. PassTodo'
  BY <1>1, <1>3, <1>4, <1>5, <1>6 DEF FilingInv, PassTodo, Stacked, There, Held, Writing
<1>PassDrops. PassDrops'
  BY <1>1, <1>3, <1>4, <1>5, <1>6 DEF FilingInv, PassDrops, Stacked, There, Held, Writing
<1>PassDone. PassDone'
  BY <1>1, <1>3, <1>4, <1>5, <1>6 DEF FilingInv, PassDone, Stacked, There, Held, Writing
<1>PassManifest. PassManifest'
  BY <1>1, <1>4, <1>5, <1>6 DEF FilingInv, PassManifest, Stacked
<1>PassRules. PassRules'
  BY <1>1, <1>4, <1>5, <1>6 DEF FilingInv, PassRules, Stacked, Held, Writing
<1>PassPushes. PassPushes'
  BY <1>1, <1>3, <1>4, <1>6 DEF FilingInv, PassPushes
<1>UndoesFiles. UndoesFiles'
  BY <1>1, <1>3, <1>4, <1>5, <1>6 DEF FilingInv, UndoesFiles, Stacked
<1>UndoesManifest. UndoesManifest'
  BY <1>1, <1>3, <1>4, <1>5, <1>6 DEF FilingInv, UndoesManifest, Stacked, Fits, Item, Held, Writing
<1>FilesTrue. FilesTrue'
  BY <1>1, <1>3, <1>4, <1>5, <1>6 DEF FilingInv, FilesTrue, Stacked
<1>ManifestTrue. ManifestTrue'
  BY <1>1, <1>3, <1>4, <1>5, <1>6 DEF FilingInv, ManifestTrue, Stacked, Fits, Item, Opening
<1>Unghosted. Unghosted'
  BY <1>1, <1>3, <1>6, <1>s DEF FilingInv, Unghosted, Shaped
<1>Bounded. Bounded'
  BY <1>1, <1>3, <1>4, <1>5, <1>6, <1>s DEF FilingInv, Bounded, Shaped
<1>kept. ASSUME Gaps = {}, KeptInv PROVE KeptInv'
  <2>0. Sized /\ Sized'
    BY <1>0, <1>t, Sizes, SizesNext
  <2>1. /\ kept' = [kept EXCEPT ![a].filing = IF rows[a].filing > 1 THEN rows[a].filing ELSE rows[b].filing, ![b] = Nothing]
        /\ rows' = [rows EXCEPT ![a].filing = IF rows[a].filing > 1 THEN rows[a].filing ELSE rows[b].filing, ![b] = NoRow]
    BY DEF Fold
  <2>2. /\ kept'[b] = Nothing /\ kept'[b].filing = 0 /\ kept'[b].seen = 0
        /\ kept'[a].filing = rows'[a].filing /\ kept'[a].seen = kept[a].seen /\ rows'[a].seen = rows[a].seen
        /\ \A c \in Docs \ {a, b} : kept'[c] = kept[c]
    BY <1>0, <1>1, <2>1 DEF Typed, AnyRow, AnyItem, Nothing
  <2>u. (WalkPositive /\ EntriesPositive /\ UndoesPositive)'
    BY <1>kept, <1>4, <1>5, <1>6 DEF KeptInv, WalkPositive, EntriesPositive, Entries, UndoesPositive
  <2>RowsPositive. RowsPositive'
    BY <1>kept, <1>1, <1>3, <1>6, <2>2 DEF KeptInv, RowsPositive, There
  <2>FilesPositive. FilesPositive'
    BY <1>kept, <1>1, <1>3, <1>6, <2>2 DEF KeptInv, FilesPositive
  <2>RowsKept. RowsKept'
    BY <1>1, <1>3, <2>2, <1>kept, <2>0 DEF KeptInv, RowsKept, There, Sized
  <2>ItemsKept. ItemsKept'
    <3>1. walk.items = NoItems
      BY <1>1 DEF FilingInv, Held, Opening
    <3> QED
      BY <1>6, <3>1, NoItemsShape DEF ItemsKept
  <2>ManifestKept. ManifestKept'
    BY <1>1, <1>3, <1>4, <1>6, <2>2, <1>kept, <2>0
      DEF KeptInv, ManifestKept, NotOlder, Ahead, AtLeast, Sized
  <2>FilesKept. FilesKept'
    BY <1>1, <1>3, <1>6, <2>2, <1>kept, <2>0 DEF KeptInv, FilesKept, Sized
  <2>UndoesKept. UndoesKept'
    BY <1>kept, <1>1, <1>2, <1>3, <1>4, <1>5, <1>6, <2>2
       DEF KeptInv, UndoesKept, NotOlder, AtLeast, Ahead, FilingInv, Held, Writing
  <2>KeptBounded. KeptBounded'
    BY <1>0, <1>1, <1>3, <1>6, <2>0, <2>2, <1>kept
      DEF KeptInv, KeptBounded, FilingInv, Bounded, Shaped
  <2>Found. Found'
    BY <1>1, <1>3, <1>6, <2>2, <1>kept DEF KeptInv, Found, There
  <2>TidyFound. TidyFound'
    BY <1>kept, <1>1, <1>2, <1>3, <1>6, <2>2 DEF KeptInv, TidyFound, FilingInv, Held, Opening
  <2>DropFound. DropFound'
    BY <1>kept, <1>1, <1>2, <1>4, <1>6, <2>2 DEF KeptInv, DropFound, FilingInv
  <2> QED
    BY <2>u, <2>RowsPositive, <2>FilesPositive, <2>RowsKept, <2>ItemsKept, <2>ManifestKept, <2>FilesKept,
       <2>UndoesKept, <2>KeptBounded, <2>Found, <2>TidyFound, <2>DropFound
       DEF KeptInv
<1> QED
  BY <1>kept, <1>t, <1>u, <1>Held, <1>TidyHand, <1>PromoteHand, <1>HandsOff, <1>DropHand,
     <1>ItemHand,
     <1>PassOld, <1>PassTodo, <1>PassDrops, <1>PassDone, <1>PassManifest, <1>PassRules, <1>PassPushes,
     <1>UndoesFiles, <1>UndoesManifest, <1>FilesTrue, <1>ManifestTrue, <1>Unghosted, <1>Bounded
     DEF FilingInv

LEMMA MarkFoldKeeps ==
  ASSUME FilingInv, Minds, MarkFold
  PROVE  FilingInv' /\ (Gaps = {} /\ KeptInv => KeptInv')
<1>0. Typed /\ Shaped
  BY Shapes DEF FilingInv
<1>1. pass.at = "mark" /\ stale' \in BOOLEAN /\ (stale => stale') /\ (Gaps = {} => stale' = TRUE)
  BY <1>0 DEF MarkFold, Typed
<1>2. pass' \in Passes /\ pass'.at = "strip" /\ pass'.no = pass.no /\ pass'.todo = pass.todo /\ pass'.drops = pass.drops
     /\ pass'.written = pass.written
  BY <1>0 DEF MarkFold, Typed, Passes, Opening
<1>3. Stack' = Stack
  BY <1>2, StackSame DEF StackSame
<1>4. UNCHANGED <<rows, mirror, files, manifest, rules, last, tidy, promote, walk, unflushed, up,
                  crashes, kept, torn, struck, unread>>
  BY DEF MarkFold
<1>t. Typed'
  BY <1>0, <1>1, <1>2, <1>3, <1>4 DEF Typed
<1>s. Shaped'
  BY <1>t, ShapesNext
<1>u. (TidyHand /\ PromoteHand /\ WalkHand /\ ItemHand /\ CopyHand /\ PassOld /\ UndoesFiles /\
       UndoesRules /\ OnceEach /\ RulesTrue /\ FilesTrue /\ Unghosted /\ Bounded)'
  BY <1>2, <1>3, <1>4
     DEF FilingInv, TidyHand, PromoteHand, WalkHand, ItemHand, CopyHand, PassOld, UndoesFiles,
         Stacked,
        UndoesRules, OnceEach, RulesTrue, FilesTrue, Unghosted, Bounded
<1>Held. Held'
  BY <1>1, <1>2, <1>3, <1>4 DEF FilingInv, Held, Opening, Writing
<1>HandsOff. HandsOff'
  BY <1>1, <1>4 DEF FilingInv, HandsOff, Stacked, Held, Opening
<1>DropHand. DropHand'
  BY <1>1, <1>2, <1>4 DEF FilingInv, DropHand
<1>PassTodo. PassTodo'
  BY <1>1, <1>2 DEF FilingInv, PassTodo, Stacked, There, Held, Writing
<1>PassDrops. PassDrops'
  BY <1>1, <1>2 DEF FilingInv, PassDrops, Stacked, There, Held, Writing
<1>PassDone. PassDone'
  BY <1>1, <1>2 DEF FilingInv, PassDone, Stacked, There, Held, Writing
<1>PassManifest. PassManifest'
  BY <1>1, <1>2 DEF FilingInv, Held, Writing, PassManifest
<1>PassRules. PassRules'
  BY <1>1, <1>2 DEF FilingInv, PassRules, Stacked, Held, Writing
<1>PassPushes. PassPushes'
  BY <1>2, <1>4 DEF FilingInv, PassPushes
<1>UndoesManifest. UndoesManifest'
  BY <1>1, <1>3 DEF FilingInv, Held, Writing, UndoesManifest
<1>ManifestTrue. ManifestTrue'
  BY <1>2 DEF ManifestTrue, Opening
<1>kept. ASSUME Gaps = {}, KeptInv PROVE KeptInv'
  <2>0. Sized /\ Sized'
    BY <1>0, <1>t, Sizes, SizesNext
  <2>u. (RowsPositive /\ FilesPositive /\ WalkPositive /\ EntriesPositive /\ UndoesPositive /\
         RowsKept /\ ItemsKept /\ FilesKept /\ KeptBounded /\ Found /\ TidyFound)'
    BY <1>kept, <1>2, <1>3, <1>4
       DEF KeptInv, RowsPositive, There, FilesPositive, WalkPositive, EntriesPositive, Entries,
          UndoesPositive, RowsKept, ItemsKept, AtLeast, FilesKept, KeptBounded, Found, TidyFound
  <2>ManifestKept. ManifestKept'
    BY <1>kept, <1>1, <1>2, <1>4 DEF KeptInv, ManifestKept, NotOlder, AtLeast, Ahead
  <2>UndoesKept. UndoesKept'
    BY <1>kept, <1>1, <1>2, <1>3, <1>4 DEF KeptInv, UndoesKept, NotOlder, AtLeast, Ahead
  <2>DropFound. DropFound'
    BY <1>kept, <1>1, <1>2, <1>4 DEF KeptInv, DropFound
  <2> QED
    BY <2>u, <2>ManifestKept, <2>UndoesKept, <2>DropFound DEF KeptInv
<1> QED
  BY <1>kept, <1>t, <1>u, <1>Held, <1>HandsOff, <1>DropHand, <1>PassTodo, <1>PassDrops, <1>PassDone,
     <1>PassManifest, <1>PassRules, <1>PassPushes, <1>UndoesManifest, <1>ManifestTrue
     DEF FilingInv

LEMMA StripFoldedKeeps ==
  ASSUME FilingInv, Minds, StripFolded
  PROVE  FilingInv' /\ (Gaps = {} /\ KeptInv => KeptInv')
<1>0. Typed /\ Shaped
  BY Shapes DEF FilingInv
<1>1. pass.at \in {"fold", "strip"}
  BY DEF StripFolded
<1>2. /\ manifest' \in [Docs -> AnyItem] /\ struck' \subseteq struck \cup pass.drops
      /\ \A c \in Docs : manifest'[c] # manifest[c] => c \in pass.drops /\ manifest'[c] = Nothing
      /\ \A c \in Docs : c \in struck' \ struck => manifest'[c] = Nothing
  BY <1>0 DEF StripFolded, Outcomes, Nothing, AnyItem, Typed, Passes
<1>3. pass' \in Passes /\ pass'.at = "reconcile" /\ pass'.no = 0 /\ pass'.drops = {} /\ pass'.todo = {}
  BY IdleShape DEF StripFolded, Passes, Opening
<1>4. UNCHANGED <<rows, mirror, stale, files, rules, last, tidy, promote, walk, unflushed, up, crashes,
                  kept, torn, unread>>
  BY DEF StripFolded
<1>5. pass'.written = <<>>
  BY DEF StripFolded, Idle, Outcomes
<1>6. Stack' = {}
  BY <1>5, StackNoneNext DEF StackNoneNext
<1>t. Typed'
  BY <1>0, <1>2, <1>3, <1>4, <1>5, <1>6 DEF Typed, Shaped
<1>s. Shaped'
  BY <1>t, ShapesNext
<1>u. (TidyHand /\ PromoteHand /\ WalkHand)'
  BY <1>4 DEF FilingInv, TidyHand, PromoteHand, WalkHand
<1>Held. Held'
  BY <1>1, <1>3, <1>4, <1>5, <1>6 DEF FilingInv, Held, Opening
<1>HandsOff. HandsOff'
  BY <1>1, <1>3, <1>4, <1>5, <1>6 DEF FilingInv, HandsOff, Stacked
<1>DropHand. DropHand'
  BY <1>1, <1>3, <1>4 DEF FilingInv, DropHand
<1>ItemHand. ItemHand'
  BY <1>1, <1>2, <1>4 DEF FilingInv, ItemHand, DropHand
<1>CopyHand. CopyHand'
  BY <1>1, <1>2, <1>4 DEF FilingInv, CopyHand, Held, Opening
<1>PassOld. PassOld'
  BY <1>1, <1>3, <1>4 DEF FilingInv, PassOld
<1>PassTodo. PassTodo'
  BY <1>1, <1>3, <1>4, <1>5, <1>6 DEF FilingInv, PassTodo, Stacked, There
<1>PassDrops. PassDrops'
  BY <1>1, <1>3, <1>4, <1>5, <1>6 DEF FilingInv, PassDrops, Stacked, There
<1>PassDone. PassDone'
  BY <1>1, <1>3, <1>4, <1>5, <1>6 DEF FilingInv, PassDone, Stacked, There
<1>PassManifest. PassManifest'
  BY <1>1, <1>2, <1>3, <1>4, <1>5, <1>6 DEF FilingInv, PassManifest, Stacked
<1>PassRules. PassRules'
  BY <1>1, <1>3, <1>4, <1>5, <1>6 DEF FilingInv, PassRules, Stacked
<1>PassPushes. PassPushes'
  BY <1>1, <1>2, <1>3, <1>4 DEF FilingInv, PassPushes
<1>UndoesFiles. UndoesFiles'
  BY <1>1, <1>4, <1>5, <1>6 DEF FilingInv, UndoesFiles, Stacked
<1>UndoesRules. UndoesRules'
  BY <1>1, <1>4, <1>5, <1>6 DEF FilingInv, UndoesRules
<1>UndoesManifest. UndoesManifest'
  BY <1>1, <1>2, <1>4, <1>5, <1>6 DEF FilingInv, UndoesManifest, Stacked, Fits, Item
<1>OnceEach. OnceEach'
  BY <1>1, <1>4, <1>5, <1>6 DEF FilingInv, OnceEach, Stacked
<1>RulesTrue. RulesTrue'
  BY <1>1, <1>4, <1>5, <1>6 DEF FilingInv, RulesTrue, Stacked, Held, Writing
<1>FilesTrue. FilesTrue'
  BY <1>1, <1>4, <1>5, <1>6 DEF FilingInv, FilesTrue, Stacked, Held, Writing
<1>ManifestTrue. ManifestTrue'
  BY <1>1, <1>2, <1>3, <1>4, <1>5, <1>6 DEF FilingInv, ManifestTrue, Stacked, Fits, Item, Opening
<1>Unghosted. Unghosted'
  BY <1>0, <1>1, <1>2, <1>4
    DEF FilingInv, Unghosted, DropHand, Typed, Passes, Opening, Writing, Held, NoItems
<1>Bounded. Bounded'
  BY <1>1, <1>2, <1>4, <1>5, <1>6, <1>s DEF FilingInv, Bounded, Nothing, Shaped
<1>kept. ASSUME Gaps = {}, KeptInv PROVE KeptInv'
  <2>0. Sized /\ Sized'
    BY <1>0, <1>t, Sizes, SizesNext
  <2>u. (RowsPositive /\ FilesPositive /\ WalkPositive /\ RowsKept /\ FilesKept /\ KeptBounded /\ TidyFound)'
    BY <1>kept, <1>4
       DEF KeptInv, RowsPositive, There, FilesPositive, WalkPositive, RowsKept, FilesKept, KeptBounded, TidyFound
  <2>ItemsKept. ItemsKept'
    <3>1. walk.items = NoItems
      BY <1>1 DEF FilingInv, Held, Opening
    <3> QED
      BY <1>4, <3>1, NoItemsShape DEF ItemsKept
  <2>EntriesPositive. EntriesPositive'
    BY <1>kept, <1>1, <1>2, <1>4 DEF KeptInv, EntriesPositive, Entries
  <2>UndoesPositive. UndoesPositive'
    BY <1>kept, <1>1, <1>2, <1>4, <1>5, <1>6 DEF KeptInv, UndoesPositive, Entries
  <2>ManifestKept. ManifestKept'
    BY <1>kept, <1>1, <1>2, <1>3, <1>4
       DEF KeptInv, ManifestKept, NotOlder, AtLeast, Ahead, FilingInv, Held, Writing, DropFound
  <2>UndoesKept. UndoesKept'
    BY <1>kept, <1>1, <1>2, <1>3, <1>4, <1>5, <1>6 DEF KeptInv, UndoesKept, NotOlder, AtLeast, Ahead
  <2>Found. Found'
    BY <1>kept, <1>1, <1>2, <1>4
      DEF KeptInv, Found, There, FilingInv, Held, Writing, DropFound, Ahead, Nothing
  <2>DropFound. DropFound'
    BY <1>kept, <1>1, <1>3, <1>4 DEF KeptInv, DropFound
  <2> QED
    BY <2>u, <2>ItemsKept, <2>EntriesPositive, <2>UndoesPositive, <2>ManifestKept, <2>UndoesKept, <2>Found,
       <2>DropFound
       DEF KeptInv
<1> QED
  BY <1>kept, <1>t, <1>u, <1>Held, <1>HandsOff, <1>DropHand, <1>ItemHand, <1>CopyHand, <1>PassOld,
     <1>PassTodo, <1>PassDrops, <1>PassDone, <1>PassManifest, <1>PassRules, <1>PassPushes,
     <1>UndoesFiles, <1>UndoesRules, <1>UndoesManifest, <1>OnceEach, <1>RulesTrue, <1>FilesTrue,
     <1>ManifestTrue, <1>Unghosted, <1>Bounded
     DEF FilingInv

LEMMA ReconcileKeeps ==
  ASSUME FilingInv, Minds, Reconcile
  PROVE  FilingInv' /\ (Gaps = {} /\ KeptInv => KeptInv')
<1>0. Typed /\ Shaped
  BY Shapes DEF FilingInv
<1>1. pass.at = "reconcile"
  BY DEF Reconcile
<1>2. pass' \in Passes /\ pass'.at = "idle" /\ pass'.no = 0 /\ pass'.drops = {} /\ pass'.todo = {}
  BY <1>0
     DEF Reconcile, Opening, Outcomes, Idle, Typed, Passes, NoItems, NoRows, NoRow, Nothing,
         AnyItem,
        AnyRow
<1>3. \/ UNCHANGED <<rows, stale, manifest, unread>>
      \/ rows' = rows /\ stale' = FALSE /\ manifest' = Believed /\ unread' = unread
      \/ /\ rows' = SetRight /\ stale' = FALSE /\ unread' = unread
         /\ manifest' = Believed \/ manifest' = Merged(SetRight, Believed)
      \/ /\ rows' = rows /\ stale' = FALSE /\ manifest' = Merged(rows, NoItems)
         /\ unread' = unread \cup {c \in Docs : rows[c].kind = "none" /\ NoItems[c] # manifest[c]}
  BY DEF Reconcile, NotReconciled, Believes, Rewrites, Reading, Believed, SetRight
<1>4. /\ Believed \in [Docs -> AnyItem]
      /\ \A c \in Docs : Believed[c] = IF stale /\ rows[c].kind = "pointer" THEN Item(rows[c]) ELSE manifest[c]
  BY <1>0 DEF Believed, Merged, Item, Typed, AnyRow, AnyItem
<1>5. /\ SetRight \in [Docs -> AnyRow]
      /\ \A c \in Docs :
           IF rows[c].kind = "pointer" /\ Believed[c] # Nothing
             THEN SetRight[c] = [kind |-> "pointer", filing |-> Believed[c].filing, seen |-> Believed[c].seen]
             ELSE SetRight[c] = rows[c]
  BY <1>0, <1>4 DEF SetRight, Applied, Typed, AnyRow, AnyItem
<1>6. /\ Merged(SetRight, Believed) \in [Docs -> AnyItem]
      /\ \A c \in Docs : Merged(SetRight, Believed)[c] =
           IF SetRight[c].kind = "pointer" THEN Item(SetRight[c]) ELSE Believed[c]
  BY <1>4, <1>5 DEF Merged, Item, AnyRow, AnyItem
<1>7. \A c \in Docs :
        rows[c].kind = "pointer" => SetRight[c].kind = "pointer" /\ Item(SetRight[c]) =
          IF Believed[c] # Nothing THEN Believed[c] ELSE Item(rows[c])
  BY <1>0, <1>4, <1>5 DEF Item, Typed, AnyItem
<1>15. /\ Merged(rows, NoItems) \in [Docs -> AnyItem]
       /\ \A c \in Docs : Merged(rows, NoItems)[c] =
            IF rows[c].kind = "pointer" THEN Item(rows[c]) ELSE Nothing
  BY <1>0 DEF Merged, NoItems, Nothing, Item, Typed, AnyRow, AnyItem
<1>8. /\ rows' \in [Docs -> AnyRow] /\ manifest' \in [Docs -> AnyItem] /\ stale' \in BOOLEAN
  BY <1>0, <1>3, <1>4, <1>5, <1>6, <1>15 DEF Typed
<1>9. \A c \in Docs : rows[c].kind # "pointer" =>
        /\ rows'[c] = rows[c] /\ manifest'[c] \in {Nothing, manifest[c]}
        /\ rows[c].kind = "none" /\ manifest'[c] # manifest[c] => c \in unread'
  BY <1>3, <1>4, <1>5, <1>6, <1>15 DEF NoItems
<1>16. torn' = IF stale' \/ Agree(manifest', rows') THEN torn \ {"manifest"} ELSE torn \cup {"manifest"}
  BY DEF Reconcile
<1>10. \A c \in Docs : rows[c].kind = "pointer" =>
           /\ rows'[c].kind = "pointer"
           /\ stale' \/ "manifest" \in torn' \/ manifest'[c] \in {Nothing, Item(rows'[c])}
  BY <1>3, <1>4, <1>5, <1>6, <1>7, <1>15, <1>16 DEF Agree
<1>11. \A c \in Docs : rows[c].kind = "pointer" =>
           /\ rows'[c].filing \in {rows[c].filing, manifest[c].filing}
           /\ manifest'[c].filing \in {rows[c].filing, manifest[c].filing}
  BY <1>0, <1>3, <1>4, <1>5, <1>6, <1>15 DEF Item, Typed, AnyRow
<1>17. UNCHANGED <<mirror, files, rules, last, tidy, promote, walk, unflushed, up, crashes, kept, struck>>
  BY DEF Reconcile
<1>18. /\ torn' \subseteq Docs \cup {"rules", "manifest"} /\ unread \subseteq unread' /\ unread' \subseteq Docs
       /\ \A c \in Docs \cup {"rules"} : c \in torn' <=> c \in torn
  BY <1>0, <1>3, <1>16, Plain DEF Typed
<1>12. /\ UNCHANGED <<mirror, files, rules, last, tidy, promote, walk, unflushed, up, crashes, kept, struck>>
       /\ torn' \subseteq Docs \cup {"rules", "manifest"} /\ unread \subseteq unread' /\ unread' \subseteq Docs
       /\ \A c \in Docs \cup {"rules"} : c \in torn' <=> c \in torn
  BY <1>17, <1>18
<1>13. pass'.written = <<>>
  BY DEF Reconcile, Idle, Outcomes
<1>14. Stack' = {}
  BY <1>13, StackNoneNext DEF StackNoneNext
<1>t. Typed'
  BY <1>0, <1>2, <1>8, <1>9, <1>10, <1>11, <1>12, <1>13, <1>14 DEF Typed
<1>s. Shaped'
  BY <1>t, ShapesNext
<1>Held. Held'
  BY <1>1, <1>2, <1>12, <1>13, <1>14 DEF FilingInv, Held, Writing
<1>TidyHand. TidyHand'
  BY <1>1, <1>8, <1>9, <1>10, <1>11, <1>12 DEF FilingInv, TidyHand, Held, Opening
<1>PromoteHand. PromoteHand'
  BY <1>1, <1>8, <1>9, <1>10, <1>11, <1>12 DEF FilingInv, PromoteHand, Held, Opening
<1>WalkHand. WalkHand'
  BY <1>1, <1>12 DEF FilingInv, WalkHand
<1>HandsOff. HandsOff'
  BY <1>1, <1>2, <1>8, <1>9, <1>10, <1>11, <1>12, <1>13, <1>14 DEF FilingInv, HandsOff, Stacked
<1>DropHand. DropHand'
  BY <1>1, <1>2, <1>8, <1>9, <1>10, <1>11, <1>12 DEF FilingInv, DropHand
<1>ItemHand. ItemHand'
  BY <1>1, <1>8, <1>9, <1>10, <1>11, <1>12 DEF FilingInv, ItemHand
<1>CopyHand. CopyHand'
  BY <1>1, <1>8, <1>9, <1>10, <1>11, <1>12 DEF FilingInv, CopyHand, Held, Opening
<1>PassOld. PassOld'
  BY <1>1, <1>2, <1>8, <1>9, <1>10, <1>11, <1>12 DEF FilingInv, PassOld
<1>PassTodo. PassTodo'
  BY <1>1, <1>2, <1>8, <1>9, <1>10, <1>11, <1>12, <1>13, <1>14
    DEF FilingInv, PassTodo, Stacked, There
<1>PassDrops. PassDrops'
  BY <1>1, <1>2, <1>8, <1>9, <1>10, <1>11, <1>12, <1>13, <1>14
    DEF FilingInv, PassDrops, Stacked, There
<1>PassDone. PassDone'
  BY <1>1, <1>2, <1>8, <1>9, <1>10, <1>11, <1>12, <1>13, <1>14
    DEF FilingInv, PassDone, Stacked, There
<1>PassManifest. PassManifest'
  BY <1>1, <1>2, <1>8, <1>9, <1>10, <1>11, <1>12, <1>13, <1>14 DEF FilingInv, PassManifest, Stacked
<1>PassRules. PassRules'
  BY <1>1, <1>2, <1>12, <1>13, <1>14 DEF FilingInv, PassRules, Stacked
<1>PassPushes. PassPushes'
  BY <1>1, <1>2, <1>8, <1>9, <1>10, <1>11, <1>12 DEF FilingInv, PassPushes
<1>UndoesFiles. UndoesFiles'
  BY <1>1, <1>8, <1>9, <1>10, <1>11, <1>12, <1>13, <1>14 DEF FilingInv, UndoesFiles, Stacked
<1>UndoesRules. UndoesRules'
  BY <1>1, <1>12, <1>13, <1>14 DEF FilingInv, UndoesRules
<1>UndoesManifest. UndoesManifest'
  BY <1>1, <1>8, <1>9, <1>10, <1>11, <1>12, <1>13, <1>14
    DEF FilingInv, UndoesManifest, Stacked, Fits, Item
<1>OnceEach. OnceEach'
  BY <1>1, <1>12, <1>13, <1>14 DEF FilingInv, OnceEach, Stacked
<1>RulesTrue. RulesTrue'
  BY <1>1, <1>12, <1>13, <1>14 DEF FilingInv, RulesTrue, Stacked, Held, Writing
<1>FilesTrue. FilesTrue'
  BY <1>1, <1>8, <1>9, <1>10, <1>11, <1>12, <1>13, <1>14
    DEF FilingInv, FilesTrue, Stacked, Held, Writing
<1>ManifestTrue. ManifestTrue'
  BY <1>1, <1>2, <1>8, <1>9, <1>10, <1>11, <1>12, <1>13, <1>14
     DEF FilingInv, ManifestTrue, Stacked, Fits, Item
<1>Unghosted. Unghosted'
  BY <1>1, <1>8, <1>9, <1>10, <1>11, <1>12, <1>s DEF FilingInv, Unghosted, Shaped
<1>Bounded. Bounded'
  <2>1. last \in Nat /\ Nothing.filing = 0 /\ \A c \in Docs : rows[c].filing <= last /\ manifest[c].filing <= last
    BY <1>0 DEF FilingInv, Bounded, Shaped, Nothing
  <2>2. ASSUME NEW c \in Docs PROVE rows'[c].filing <= last /\ manifest'[c].filing <= last
    <3>1. CASE rows[c].kind = "pointer"
      <4>1. /\ rows'[c].filing = rows[c].filing \/ rows'[c].filing = manifest[c].filing
            /\ manifest'[c].filing = rows[c].filing \/ manifest'[c].filing = manifest[c].filing
        BY <1>11, <3>1
      <4> QED
        BY <2>1, <4>1
    <3>2. CASE rows[c].kind # "pointer"
      <4>1. rows'[c] = rows[c] /\ (manifest'[c] = manifest[c] \/ manifest'[c] = Nothing)
        BY <1>9, <3>2
      <4> QED
        BY <2>1, <4>1
    <3> QED
      BY <3>1, <3>2
  <2> QED
    BY <1>12, <1>14, <2>1, <2>2 DEF FilingInv, Bounded
<1>kept. ASSUME Gaps = {}, KeptInv PROVE KeptInv'
  <2>0. Sized /\ Sized'
    BY <1>0, <1>t, Sizes, SizesNext
  <2>1. \A c \in Docs : Item(rows[c]).filing = rows[c].filing /\ Item(rows[c]).seen = rows[c].seen
    BY DEF Item
  <2>2. \A c \in Docs : rows[c].kind = "pointer" =>
          /\ Item(rows[c]) # Nothing /\ Item(rows[c]).filing > 0
          /\ Believed[c] # Nothing => Believed[c].filing > 0 /\ AtLeast(Believed[c], kept[c])
    BY <1>0, <1>1, <1>4, <1>kept, <2>1
       DEF FilingInv, KeptInv, RowsPositive, RowsKept, EntriesPositive, Entries, ManifestKept,
           NotOlder, Ahead,
          AtLeast, There, Nothing
  <2>3. \A c \in Docs : rows[c].kind = "pointer" =>
          /\ SetRight[c].kind = "pointer" /\ SetRight[c].filing > 0 /\ AtLeast(SetRight[c], kept[c])
          /\ Item(SetRight[c]) # Nothing /\ AtLeast(Item(SetRight[c]), kept[c]) /\ Item(SetRight[c]).filing > 0
    <3>1. \A c \in Docs : rows[c].kind = "pointer" =>
            SetRight[c].kind = "pointer" /\ AtLeast(SetRight[c], kept[c]) /\ SetRight[c].filing > 0
      BY <1>5, <2>2, <1>kept DEF AtLeast, KeptInv, RowsPositive, RowsKept, There
    <3>2. \A c \in Docs : Item(SetRight[c]).filing = SetRight[c].filing /\ Item(SetRight[c]).seen = SetRight[c].seen
      BY DEF Item
    <3>3. \A c \in Docs : rows[c].kind = "pointer" =>
            Item(SetRight[c]) # Nothing /\ AtLeast(Item(SetRight[c]), kept[c]) /\ Item(SetRight[c]).filing > 0
      BY <3>1, <3>2 DEF AtLeast, Nothing
    <3> QED
      BY <3>1, <3>3
  <2>4. \A c \in Docs : rows[c].kind = "pointer" =>
          /\ rows'[c].kind = "pointer" /\ rows'[c].filing > 0 /\ AtLeast(rows'[c], kept[c])
          /\ manifest'[c] # Nothing => manifest'[c].filing > 0
          /\ ~stale' => /\ manifest'[c] # Nothing => AtLeast(manifest'[c], kept[c])
                        /\ manifest'[c] = Nothing => kept[c] = Nothing \/ c \in unread'
    <3> SUFFICES ASSUME NEW c \in Docs, rows[c].kind = "pointer"
                 PROVE  /\ rows'[c].kind = "pointer" /\ rows'[c].filing > 0 /\ AtLeast(rows'[c], kept[c])
                        /\ manifest'[c] # Nothing => manifest'[c].filing > 0
                        /\ ~stale' => /\ manifest'[c] # Nothing => AtLeast(manifest'[c], kept[c])
                                      /\ manifest'[c] = Nothing => kept[c] = Nothing \/ c \in unread'
      OBVIOUS
    <3>1. rows[c].filing > 0 /\ AtLeast(rows[c], kept[c]) /\ AtLeast(Item(rows[c]), kept[c])
      BY <1>kept, <2>1 DEF KeptInv, RowsPositive, RowsKept, There, AtLeast
    <3>2. /\ manifest[c] # Nothing => manifest[c].filing > 0
          /\ ~stale => /\ manifest[c] # Nothing => AtLeast(manifest[c], kept[c])
                       /\ manifest[c] = Nothing => kept[c] = Nothing \/ c \in unread
      BY <1>1, <1>kept DEF KeptInv, EntriesPositive, Entries, ManifestKept, NotOlder, Ahead
    <3>3. Believed[c] = Nothing => kept[c] = Nothing \/ c \in unread
      BY <1>4, <2>2, <3>2
    <3>4. CASE UNCHANGED <<rows, stale, manifest, unread>>
      BY <3>1, <3>2, <3>4
    <3>5. CASE rows' = rows /\ manifest' = Believed /\ unread' = unread
      BY <2>2, <3>1, <3>3, <3>5
    <3>6. CASE rows' = SetRight /\ unread' = unread /\ (manifest' = Believed \/ manifest' = Merged(SetRight, Believed))
      <4>1. rows'[c].kind = "pointer" /\ rows'[c].filing > 0 /\ AtLeast(rows'[c], kept[c])
        BY <2>3, <3>6
      <4>2. CASE manifest' = Believed
        BY <2>2, <3>3, <3>6, <4>1, <4>2
      <4>3. CASE manifest' = Merged(SetRight, Believed)
        BY <1>6, <2>3, <3>6, <4>1, <4>3
      <4> QED
        BY <3>6, <4>2, <4>3
    <3>7. CASE rows' = rows /\ manifest' = Merged(rows, NoItems)
      BY <1>15, <2>2, <3>1, <3>7
    <3> QED
      BY <1>3, <3>4, <3>5, <3>6, <3>7
  <2>u. (WalkPositive /\ KeptBounded)'
    BY <1>kept, <1>12 DEF KeptInv, WalkPositive, KeptBounded
  <2>RowsPositive. RowsPositive'
    BY <1>kept, <1>1, <1>8, <1>9, <1>10, <1>11, <1>12, <2>4
      DEF KeptInv, RowsPositive, There, FilingInv
  <2>FilesPositive. FilesPositive'
    BY <1>kept, <1>1, <1>8, <1>9, <1>10, <1>11, <1>12, <2>4 DEF KeptInv, FilesPositive
  <2>EntriesPositive. EntriesPositive'
    BY <1>kept, <1>1, <1>8, <1>9, <1>10, <1>11, <1>12, <2>4
      DEF KeptInv, EntriesPositive, Entries, FilingInv
  <2>UndoesPositive. UndoesPositive'
    BY <1>kept, <1>1, <1>8, <1>9, <1>10, <1>11, <1>12, <1>13, <1>14, <2>4
       DEF KeptInv, UndoesPositive, Entries
  <2>RowsKept. RowsKept'
    BY <1>kept, <1>1, <1>8, <1>9, <1>10, <1>11, <1>12, <2>4
      DEF KeptInv, RowsKept, There, FilingInv, AtLeast
  <2>ItemsKept. ItemsKept'
    <3>1. walk.items = NoItems
      BY <1>1 DEF FilingInv, Held, Opening
    <3> QED
      BY <1>12, <3>1, NoItemsShape DEF ItemsKept
  <2>ManifestKept. ManifestKept'
    BY <1>kept, <1>1, <1>2, <1>8, <1>9, <1>10, <1>11, <1>12, <2>4
       DEF KeptInv, ManifestKept, NotOlder, AtLeast, Ahead, FilingInv
  <2>FilesKept. FilesKept'
    BY <1>kept, <1>1, <1>8, <1>9, <1>10, <1>11, <1>12, <2>4 DEF KeptInv, FilesKept
  <2>UndoesKept. UndoesKept'
    BY <1>kept, <1>1, <1>2, <1>8, <1>9, <1>10, <1>11, <1>12, <1>13, <1>14, <2>4
       DEF KeptInv, UndoesKept, NotOlder, AtLeast, Ahead
  <2>Found. Found'
    BY <1>kept, <1>1, <1>8, <1>9, <1>10, <1>11, <1>12, <2>4 DEF KeptInv, Found, There
  <2>TidyFound. TidyFound'
    BY <1>kept, <1>1, <1>8, <1>9, <1>10, <1>11, <1>12, <2>4
      DEF KeptInv, TidyFound, FilingInv, Held, Opening
  <2>DropFound. DropFound'
    BY <1>kept, <1>1, <1>2, <1>12, <2>4 DEF KeptInv, DropFound
  <2> QED
    BY <2>u, <2>RowsPositive, <2>FilesPositive, <2>EntriesPositive, <2>UndoesPositive, <2>RowsKept, <2>ItemsKept,
       <2>ManifestKept, <2>FilesKept, <2>UndoesKept, <2>Found, <2>TidyFound, <2>DropFound
       DEF KeptInv
<1> QED
  BY <1>kept, <1>t, <1>Held, <1>TidyHand, <1>PromoteHand, <1>WalkHand, <1>HandsOff, <1>DropHand,
     <1>ItemHand, <1>CopyHand, <1>PassOld, <1>PassTodo, <1>PassDrops, <1>PassDone, <1>PassManifest,
     <1>PassRules, <1>PassPushes, <1>UndoesFiles, <1>UndoesRules, <1>UndoesManifest, <1>OnceEach,
     <1>RulesTrue, <1>FilesTrue, <1>ManifestTrue, <1>Unghosted, <1>Bounded
     DEF FilingInv

-----------------------------------------------------------------------------
(* At first, and without a step.                                           *)
LEMMA FilingInvAtFirst == ASSUME FilingInit PROVE FilingInv
<1> USE FilingAssumption
<1>1. Stack = {}
  BY StackNone DEF FilingInit, Idle
<1>2. Typed
  <2>1. rows \in [Docs -> AnyRow] /\ files \in [Docs -> Nat]
    BY DEF FilingInit, AnyRow, NoRow
  <2>2. manifest \in [Docs -> AnyItem] /\ kept \in [Docs -> AnyItem]
    BY DEF FilingInit, AnyRow, NoRow, AnyItem, Item, Nothing
  <2>3. pass \in Passes
    BY IdleShape DEF FilingInit
  <2>4. NoItems \in [Docs -> AnyItem]
    BY DEF NoItems, Nothing, AnyItem
  <2>5. tidy \in Tidies /\ promote \in Promotes /\ walk \in Walks
    BY <2>4 DEF FilingInit, Tidied, NotPromoting, Tidies, Promotes, Walks
  <2> QED
    BY <2>1, <2>2, <2>3, <2>5 DEF FilingInit, Typed
<1>3. pass = Idle /\ tidy.at = "idle" /\ tidy.docs = {} /\ promote.at = "idle" /\ promote.docs = {}
      /\ walk.at = "off" /\ walk.docs = {} /\ walk.items = NoItems /\ up /\ torn = {} /\ struck = {} /\ last = 1
      /\ mirror = rules
  BY DEF FilingInit, Tidied, NotPromoting
<1>4. pass.at = "idle" /\ pass.no = 0 /\ pass.todo = {} /\ pass.drops = {} /\ pass.written = <<>>
  BY <1>3, IdleShape
<1>5. \A d \in Docs :
        /\ rows[d] \in {NoRow, [kind |-> "file", filing |-> 1, seen |-> 0], [kind |-> "pointer", filing |-> 1, seen |-> 1]}
        /\ files[d] = IF rows[d].kind = "file" THEN 1 ELSE 0
        /\ manifest[d] = IF rows[d].kind = "pointer" THEN Item(rows[d]) ELSE Nothing
        /\ walk.items[d] = Nothing
  BY DEF FilingInit, NoItems
<1>6. Held /\ TidyHand /\ PromoteHand /\ WalkHand /\ HandsOff /\ DropHand /\ CopyHand
  BY <1>1, <1>3, <1>4
    DEF Held, TidyHand, PromoteHand, WalkHand, HandsOff, DropHand, CopyHand, Opening
<1>7. PassOld /\ PassTodo /\ PassDrops /\ PassDone /\ PassManifest /\ PassRules /\ PassPushes
  BY <1>4 DEF PassOld, PassTodo, PassDrops, PassDone, PassManifest, PassRules, PassPushes
<1>8. UndoesFiles /\ UndoesRules /\ UndoesManifest /\ OnceEach /\ RulesTrue /\ Unghosted
  BY <1>1, <1>3, <1>4 DEF UndoesFiles, UndoesRules, UndoesManifest, OnceEach, RulesTrue, Unghosted
<1>9. ItemHand /\ FilesTrue /\ ManifestTrue
  BY <1>5 DEF ItemHand, FilesTrue, ManifestTrue, Fits, NoRow
<1>10. Bounded
  <2>1. \A d \in Docs : rows[d].filing \in {0, 1} /\ files[d] \in {0, 1} /\ manifest[d].filing \in {0, 1}
    <3>1. \A r : Item(r).filing = r.filing
      BY DEF Item
    <3>2. NoRow.filing = 0 /\ Nothing.filing = 0
      BY DEF NoRow, Nothing
    <3>3. ASSUME NEW d \in Docs PROVE rows[d].filing \in {0, 1}
      BY <1>5, <3>2
    <3> QED
      BY <1>5, <3>1, <3>2, <3>3
  <2> QED
    BY <1>1, <1>3, <2>1 DEF Bounded
<1> QED
  BY <1>2, <1>6, <1>7, <1>8, <1>9, <1>10 DEF FilingInv

LEMMA FilingInvStutters == ASSUME FilingInv, UNCHANGED filingVars PROVE FilingInv'
<1>1. UNCHANGED <<rows, mirror, stale, files, manifest, rules, pass, last, tidy, promote, walk, unflushed,
                  up, crashes, kept, torn, struck, unread>>
  BY DEF filingVars
<1>2. Stack' = Stack
  BY <1>1 DEF Stack
<1>3. Typed'
  BY <1>1 DEF FilingInv, Typed
<1>4. (Held /\ TidyHand /\ PromoteHand /\ WalkHand /\ HandsOff /\ DropHand /\ ItemHand /\ CopyHand)'
  BY <1>1, <1>2
    DEF FilingInv, Held, TidyHand, PromoteHand, WalkHand, HandsOff, DropHand, ItemHand,
        CopyHand, Stacked
<1>5. (PassOld /\ PassTodo /\ PassDrops /\ PassDone /\ PassManifest /\ PassRules /\ PassPushes)'
  BY <1>1, <1>2
    DEF FilingInv, PassOld, PassTodo, PassDrops, PassDone, PassManifest, PassRules, PassPushes,
        Stacked,
     There, Merged
<1>6. (UndoesFiles /\ UndoesRules /\ UndoesManifest /\ OnceEach)'
  BY <1>1, <1>2 DEF FilingInv, UndoesFiles, UndoesRules, UndoesManifest, OnceEach, Fits
<1>7. (RulesTrue /\ FilesTrue /\ ManifestTrue /\ Unghosted /\ Bounded)'
  BY <1>1, <1>2 DEF FilingInv, RulesTrue, FilesTrue, ManifestTrue, Unghosted, Bounded, Stacked, Fits
<1> QED
  BY <1>3, <1>4, <1>5, <1>6, <1>7 DEF FilingInv

LEMMA KeptInvAtFirst == ASSUME FilingInit PROVE KeptInv
<1> USE FilingAssumption
<1>1. Stack = {} /\ tidy.docs = {} /\ walk.docs = {} /\ walk.items = NoItems /\ last = 1 /\ ~Ahead
      /\ pass.at = "idle"
  BY StackNone, IdleShape DEF FilingInit, Idle, Tidied, Ahead
<1>2. \A d \in Docs :
        \/ rows[d] = NoRow /\ manifest[d] = Nothing /\ kept[d] = Nothing
        \/ /\ rows[d] = [kind |-> "file", filing |-> 1, seen |-> 0] /\ files[d] = 1 /\ manifest[d] = Nothing
           /\ kept[d] = [filing |-> 1, seen |-> 0]
        \/ /\ rows[d] = [kind |-> "pointer", filing |-> 1, seen |-> 1] /\ files[d] = 0
           /\ manifest[d] = [filing |-> 1, seen |-> 1] /\ kept[d] = [filing |-> 1, seen |-> 1]
  <2> SUFFICES ASSUME NEW d \in Docs
               PROVE  \/ rows[d] = NoRow /\ manifest[d] = Nothing /\ kept[d] = Nothing
                      \/ /\ rows[d] = [kind |-> "file", filing |-> 1, seen |-> 0] /\ files[d] = 1
                         /\ manifest[d] = Nothing /\ kept[d] = [filing |-> 1, seen |-> 0]
                      \/ /\ rows[d] = [kind |-> "pointer", filing |-> 1, seen |-> 1] /\ files[d] = 0
                         /\ manifest[d] = [filing |-> 1, seen |-> 1] /\ kept[d] = [filing |-> 1, seen |-> 1]
    OBVIOUS
  <2>1. CASE rows[d] = NoRow
    BY <2>1 DEF FilingInit, NoRow, Nothing, Item
  <2>2. CASE rows[d] = [kind |-> "file", filing |-> 1, seen |-> 0]
    BY <2>2 DEF FilingInit, Item
  <2>3. CASE rows[d] = [kind |-> "pointer", filing |-> 1, seen |-> 1]
    BY <2>3 DEF FilingInit, Item
  <2> QED
    BY <2>1, <2>2, <2>3 DEF FilingInit
<1>3. RowsPositive /\ FilesPositive
  BY <1>2 DEF RowsPositive, FilesPositive, There, NoRow
<1>4. WalkPositive /\ ItemsKept /\ UndoesPositive /\ UndoesKept /\ TidyFound /\ DropFound
  BY <1>1 DEF WalkPositive, ItemsKept, NoItems, UndoesPositive, UndoesKept, TidyFound, DropFound
<1>5. EntriesPositive
  BY <1>1, <1>2 DEF EntriesPositive, Entries, NoItems
<1>6. RowsKept /\ FilesKept /\ KeptBounded
  <2> SUFFICES ASSUME NEW d \in Docs
               PROVE  /\ kept[d].filing <= 1
                      /\ There(d) => rows[d].filing >= kept[d].filing
                      /\ rows[d].kind = "pointer" => rows[d].seen >= kept[d].seen
                      /\ rows[d].kind # "pointer" /\ files[d] > 0 => files[d] >= kept[d].filing
    BY <1>1 DEF RowsKept, FilesKept, KeptBounded
  <2>1. CASE rows[d] = NoRow /\ kept[d] = Nothing
    <3>1. files[d] \in Nat
      BY DEF FilingInit
    <3> QED
      BY <2>1, <3>1 DEF There, NoRow, Nothing
  <2>2. CASE rows[d].kind = "file" /\ rows[d].filing = 1 /\ files[d] = 1 /\ kept[d].filing = 1
    BY <2>2
  <2>3. CASE /\ rows[d].kind = "pointer" /\ rows[d].filing = 1 /\ rows[d].seen = 1
             /\ kept[d].filing = 1 /\ kept[d].seen = 1
    BY <2>3
  <2> QED
    BY <1>2, <2>1, <2>2, <2>3
<1>7. ManifestKept
  <2> SUFFICES ASSUME NEW d \in Docs
               PROVE  /\ manifest[d] # Nothing => AtLeast(manifest[d], kept[d])
                      /\ manifest[d] = Nothing /\ rows[d].kind = "pointer" => FALSE
    BY DEF ManifestKept, NotOlder
  <2>1. CASE rows[d] = NoRow /\ manifest[d] = Nothing
    BY <2>1 DEF NoRow
  <2>2. CASE rows[d].kind = "file" /\ manifest[d] = Nothing
    BY <2>2
  <2>3. CASE /\ manifest[d] = [filing |-> 1, seen |-> 1]
             /\ kept[d] = [filing |-> 1, seen |-> 1]
    BY <2>3 DEF AtLeast, Nothing
  <2> QED
    BY <1>2, <2>1, <2>2, <2>3
<1>8. Found
  BY <1>2 DEF Found, There, NoRow, Nothing
<1> QED
  BY <1>3, <1>4, <1>5, <1>6, <1>7, <1>8 DEF KeptInv

LEMMA KeptInvStutters == ASSUME KeptInv, UNCHANGED filingVars PROVE KeptInv'
<1>1. UNCHANGED <<rows, stale, files, manifest, pass, last, tidy, walk, kept, unread>>
  BY DEF filingVars
<1>2. Stack' = Stack
  BY <1>1 DEF Stack
<1>3. (RowsPositive /\ FilesPositive /\ WalkPositive /\ EntriesPositive /\ UndoesPositive)'
  BY <1>1, <1>2
    DEF KeptInv, RowsPositive, FilesPositive, WalkPositive, EntriesPositive, UndoesPositive,
        Entries, There
<1>4. (RowsKept /\ ItemsKept /\ ManifestKept /\ FilesKept /\ UndoesKept /\ KeptBounded)'
  BY <1>1, <1>2
    DEF KeptInv, RowsKept, ItemsKept, ManifestKept, FilesKept, UndoesKept, KeptBounded, NotOlder, AtLeast,
        Ahead, There
<1>5. (Found /\ TidyFound /\ DropFound)'
  BY <1>1 DEF KeptInv, Found, TidyFound, DropFound, There
<1> QED
  BY <1>3, <1>4, <1>5 DEF KeptInv

-----------------------------------------------------------------------------
(* The theorems.                                                           *)

(* Every step keeps both invariants. *)
LEMMA FilingInvKept ==
  ASSUME FilingInv, Minds, [FilingNext]_filingVars
  PROVE  FilingInv' /\ (Gaps = {} /\ KeptInv => KeptInv')
<1>1. CASE \E D, K \in SUBSET Docs, names \in BOOLEAN : Begin(D, K, names)
  BY <1>1, BeginKeeps
<1>2. CASE \E d \in Docs : WriteDoc(d)
  <2> PICK d \in Docs : WriteDoc(d)
    BY <1>2
  <2> QED
    BY WriteDocParts, GoesWrongKeeps, FilePutKeeps, PointerPutKeeps
<1>3. CASE \E d \in Docs : DropTruth(d)
  BY <1>3, DropTruthKeeps
<1>4. CASE MergeManifest
  BY <1>4, MergeManifestKeeps
<1>5. CASE PushManifest
  BY <1>5, PushParts, GoesWrongKeeps, PushPutKeeps
<1>6. CASE WriteRules
  BY <1>6, RulesParts, GoesWrongKeeps, RulesPutKeeps
<1>7. CASE Commit
  BY <1>7, CommitParts, GoesWrongKeeps, CommitPutKeeps
<1>8. CASE Undo
  BY <1>8, UndoParts, UndoEndKeeps, UndoPutKeeps
<1>9. CASE Sync
  BY <1>9, FindKeeps, ChangeKeeps, FlushKeeps, EndFlushKeeps DEF Sync
<1>10. CASE Remove
  BY <1>10, DeleteKeeps, UnlinkKeeps, ForgetReadKeeps, ForgetWriteKeeps DEF Remove
<1>11. CASE Promote
  BY <1>11, PromoteReadKeeps, PromoteWriteKeeps, PromoteSwapKeeps DEF Promote
<1>12. CASE Rebuild
  BY <1>12, StartKeeps, ReadFileKeeps, UpsertKeeps, RestoreKeeps, ResumeKeeps, SweepKeeps,
     ListItemsKeeps, EndWalkKeeps
     DEF Rebuild
<1>13. CASE Restart
  BY <1>13, CrashKeeps, OpenKeeps, FoldKeeps, MarkFoldKeeps, StripFoldedKeeps, ReconcileKeeps
    DEF Restart
<1>14. CASE UNCHANGED filingVars
  BY <1>14, FilingInvStutters, KeptInvStutters
<1> QED
  BY <1>1, <1>2, <1>3, <1>4, <1>5, <1>6, <1>7, <1>8, <1>9, <1>10, <1>11, <1>12, <1>13, <1>14
     DEF FilingNext, Pass

(* The pass, the syncs, the deletes, the promotions, the rebuilds and the  *)
(* crashes keep the invariant for any documents, passes, versions and      *)
(* crashes.                                                                *)
THEOREM FilingInvariant == ASSUME Minds PROVE FilingSpec => []FilingInv
<1>1. FilingInv /\ [FilingNext]_filingVars => FilingInv'
  BY FilingInvKept
<1> QED
  BY FilingInvAtFirst, <1>1, PTL DEF FilingSpec

LEMMA InvTruth == ASSUME FilingInv PROVE TruthInStep
<1> SUFFICES ASSUME Settled PROVE (mirror = rules \/ "rules" \in torn) /\ \A d \in Docs :
         /\ rows[d].kind = "file" => rows[d].filing = files[d] \/ d \in torn
         /\ rows[d].kind = "pointer" =>
              unflushed \/ stale \/ "manifest" \in torn \/ manifest[d] \in {Nothing, Item(rows[d])}
  BY DEF TruthInStep
<1>1. up /\ pass.at = "idle" /\ Stack = {} /\ pass.at \notin Opening
  BY DEF Settled, FilingInv, Held, Writing, Opening
<1>2. \A x : ~Stacked(x)
  BY <1>1 DEF Stacked
<1> QED
  BY <1>1, <1>2 DEF FilingInv, RulesTrue, FilesTrue, ManifestTrue, Fits

(* Whenever nobody holds the guard, the projects and the rules, a stored   *)
(* document and its front matter, a pointer and its entry say the same     *)
(* (vault_writes.rs:6-10), but for what a crash left half written, a start *)
(* could not reconcile, or a flush could neither write nor mark, and no    *)
(* later step has set right; whatever fails or crashes, in any order, for  *)
(* any number of documents and passes.  The hypothesis closes the gaps of  *)
(* which TLC finds that each breaks it: what it excludes, the code does    *)
(* not.                                                                    *)
THEOREM TruthInStepSafe == ASSUME Minds PROVE FilingSpec => []TruthInStep
  BY FilingInvariant, InvTruth, PTL

(* With no gap open, the second invariant holds beside the first. *)
THEOREM KeptInvariant == ASSUME Gaps = {} PROVE FilingSpec => [](FilingInv /\ KeptInv)
<1>1. Minds
  BY DEF Minds
<1>2. FilingInv /\ KeptInv /\ [FilingNext]_filingVars => (FilingInv /\ KeptInv)'
  BY <1>1, FilingInvKept
<1> QED
  BY <1>2, FilingInvAtFirst, KeptInvAtFirst, PTL DEF FilingSpec

(* A filing PM has answered for is not replaced by an older one, nor is a  *)
(* pointer set back to an earlier version of its source: not by the start  *)
(* of PM, whatever fails of its reconciles, a rebuild or a strike.  PM has *)
(* answered for a version once it is in the manifest or marked as missing. *)
(* A crash between a fold and its mark does it, so that gap is closed here *)
(* too.                                                                    *)
THEOREM KeptSafe == ASSUME Gaps = {} PROVE FilingSpec => []Kept
<1>1. KeptInv => Kept
  BY DEF KeptInv, RowsKept, Kept
<1> QED
  BY KeptInvariant, <1>1, PTL

(* A document that was not deleted has a row, a file or an entry to be     *)
(* restored from, at every step of every operation and after every crash,  *)
(* unless the manifest could not be read by a merge while its entry was    *)
(* all there was of it: such a merge counts the manifest as empty.         *)
THEOREM FindableSafe == ASSUME Gaps = {} PROVE FilingSpec => []Findable
<1>1. KeptInv => Findable
  BY DEF KeptInv, Found, Findable
<1> QED
  BY KeptInvariant, <1>1, PTL

=============================================================================
