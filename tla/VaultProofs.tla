---------------------------- MODULE VaultProofs ----------------------------
(***************************************************************************)
(* Theorems about the writer lock of a shared vault, and about a vault     *)
(* while its key or its folder changes.                                    *)
(***************************************************************************)
EXTENDS VaultLock, VaultMove, FiniteSetTheorems, TLAPS

USE DEF files, world, By, NoFile, Does, At, Becomes, SetActive, TakesLock, Ticks, Owned, Free, Older

-----------------------------------------------------------------------------
(* Behind the curtain. *)

(* Where an instance is neither writer nor at work its store is closed; it  *)
(* asks for the lock with a closed store, and only a writer beats.          *)
CurtainInv ==
  /\ mode \in [Instances -> Modes] /\ open \in [Instances -> BOOLEAN] /\ doing \in [Instances -> Doings]
  /\ \A i \in Instances :
       /\ doing[i] \in {"nothing", "asking"} => mode[i] = "active" \/ ~open[i]
       /\ doing[i] = "asking" => mode[i] = "waiting"
       /\ doing[i] = "beating" => mode[i] = "active"

LEMMA CurtainInvAtFirst == LockInit => CurtainInv
BY DEF LockInit, CurtainInv, Modes, Doings

LEMMA CurtainInvKept == CurtainInv /\ [LockNext]_lockVars => CurtainInv'
<1> SUFFICES ASSUME CurtainInv, [LockNext]_lockVars PROVE CurtainInv'
  OBVIOUS
<1> USE DEF CurtainInv, Modes, Doings
<1>1. ASSUME NEW i \in Instances, OpenStore(i) PROVE CurtainInv'
  BY <1>1 DEF OpenStore
<1>2. ASSUME NEW i \in Instances, Settle(i) PROVE CurtainInv'
  BY <1>2 DEF Settle
<1>3. ASSUME NEW i \in Instances, Acquire(i) PROVE CurtainInv'
  BY <1>3 DEF Acquire
<1>4. ASSUME NEW i \in Instances, ClearLeftovers(i) PROVE CurtainInv'
  BY <1>4 DEF ClearLeftovers
<1>5. ASSUME NEW i \in Instances, ForceTake(i) PROVE CurtainInv'
  BY <1>5 DEF ForceTake
<1>6. ASSUME NEW i \in Instances, WriteLock(i) PROVE CurtainInv'
  BY <1>6 DEF WriteLock
<1>7. ASSUME NEW i \in Instances, ReopenStore(i) PROVE CurtainInv'
  BY <1>7 DEF ReopenStore
<1>8. ASSUME NEW i \in Instances, ReopenFails(i) PROVE CurtainInv'
  BY <1>8 DEF ReopenFails
<1>9. ASSUME NEW i \in Instances, Disengage(i) PROVE CurtainInv'
  BY <1>9 DEF Disengage
<1>10. ASSUME NEW i \in Instances, ContinueHere(i) PROVE CurtainInv'
  BY <1>10 DEF ContinueHere
<1>11. ASSUME NEW i \in Instances, RequestBaton(i) PROVE CurtainInv'
  BY <1>11 DEF RequestBaton
<1>12. ASSUME NEW i \in Instances, Poll(i) PROVE CurtainInv'
  BY <1>12 DEF Poll
<1>13. ASSUME NEW i \in Instances, TakeOverHere(i) PROVE CurtainInv'
  BY <1>13 DEF TakeOverHere
<1>14. ASSUME NEW i \in Instances, TickActive(i) PROVE CurtainInv'
  BY <1>14 DEF TickActive
<1>15. ASSUME NEW i \in Instances, Release(i) PROVE CurtainInv'
  BY <1>15 DEF Release
<1>16. ASSUME NEW i \in Instances, StepBack(i) PROVE CurtainInv'
  BY <1>16 DEF StepBack
<1>17. ASSUME NEW i \in Instances, Heartbeat(i) PROVE CurtainInv'
  BY <1>17 DEF Heartbeat
<1>18. ASSUME NEW i \in Instances, TickRequesting(i) PROVE CurtainInv'
  BY <1>18 DEF TickRequesting
<1>19. ASSUME NEW i \in Instances, Dies(i) PROVE CurtainInv'
  BY <1>19 DEF Dies
<1>20. ASSUME NEW i \in Instances, Sleep(i) PROVE CurtainInv'
  BY <1>20 DEF Sleep
<1>21. ASSUME NEW i \in Instances, Wake(i) PROVE CurtainInv'
  BY <1>21 DEF Wake
<1>22. CASE Pass
  BY <1>22 DEF Pass
<1>23. CASE UNCHANGED lockVars
  BY <1>23 DEF lockVars
<1> QED
  BY <1>1, <1>2, <1>3, <1>4, <1>5, <1>6, <1>7, <1>8, <1>9, <1>10, <1>11, <1>12, <1>13, <1>14,
     <1>15, <1>16, <1>17, <1>18, <1>19, <1>20, <1>21, <1>22, <1>23
  DEF LockNext, Watches, Finishes

(* The store of an instance that lost the lock, or never had it, is closed  *)
(* whenever nothing is under way there, for any number of instances.        *)
THEOREM ClosedBehindCurtainSafe == LockSpec => []ClosedBehindCurtain
<1>1. CurtainInv => ClosedBehindCurtain
  BY DEF CurtainInv, ClosedBehindCurtain
<1> QED
  BY <1>1, CurtainInvAtFirst, CurtainInvKept, PTL DEF LockSpec

-----------------------------------------------------------------------------
(* Two writers. *)

(* An instance in the middle of something it began with a take of the lock. *)
Taking == {"clearing", "reopening"}
Leaving == {"releasing", "stepping_back"}

Contends(i) == (mode[i] = "active" \/ doing[i] \in Taking) /\ doing[i] # "stepping_back"

SplitInv ==
  /\ mode \in [Instances -> Modes] /\ doing \in [Instances -> Doings]
  /\ awake \in [Instances -> BOOLEAN] /\ ticked \in [Instances -> BOOLEAN]
  /\ beaten \in [Instances -> Ages] /\ together \in Nat
  /\ together <= Beat
  /\ \A i \in Instances :
       \* who writes without the lock has not beaten since the two are together,
       \* and, once it has ticked, is not due
       /\ mode[i] = "active" /\ ~Owned(i) /\ doing[i] # "stepping_back" => together <= beaten[i]
       /\ mode[i] = "active" /\ ~Owned(i) /\ ticked[i] /\ doing[i] = "nothing" =>
            beaten[i] < Beat \/ together = 0
       \* what a check found still holds, or the lock has changed hands since
       /\ doing[i] = "beating" => Owned(i) \/ Free \/ together = 0
       /\ doing[i] = "releasing" => Owned(i) \/ together = 0
       /\ doing[i] \in Taking => together = 0
       /\ doing[i] \in {"beating"} \cup Leaving => mode[i] = "active"
  \* nobody who holds or has held the lock leaves it behind for the other
  /\ Free => \A i, j \in Instances : Contends(i) /\ Contends(j) => i = j

(* More than one writer: two of them. *)
LEMMA TwoWriters ==
  ASSUME Cardinality({i \in Instances : Writes(i)}) > 1
  PROVE  \E i, j \in Instances : i # j /\ Writes(i) /\ Writes(j)
<1> DEFINE S == {i \in Instances : Writes(i)}
<1>1. S # {}
  BY FS_EmptySet
<1>2. PICK i \in S : TRUE
  BY <1>1
<1>3. S # {i}
  BY FS_Singleton
<1> QED
  BY <1>2, <1>3

LEMMA SplitInvAtFirst == LockInit => SplitInv
BY LockAssumption DEF LockInit, SplitInv, Modes, Doings, Ages, Taking, Leaving, Contends

LEMMA SplitInvKept ==
  ASSUME \A i, j, k \in Instances : i = j \/ j = k \/ i = k,
         SplitInv, [LockNext]_lockVars
  PROVE  SplitInv'
<1> USE LockAssumption DEF SplitInv, Modes, Doings, Ages, Taking, Leaving, Contends
<1>1. ASSUME NEW i \in Instances, OpenStore(i) PROVE SplitInv'
  BY <1>1 DEF OpenStore
<1>2. ASSUME NEW i \in Instances, Settle(i) PROVE SplitInv'
  BY <1>2 DEF Settle
<1>3. ASSUME NEW i \in Instances, Acquire(i) PROVE SplitInv'
  BY <1>3 DEF Acquire
<1>4. ASSUME NEW i \in Instances, ClearLeftovers(i) PROVE SplitInv'
  BY <1>4 DEF ClearLeftovers
<1>5. ASSUME NEW i \in Instances, ForceTake(i) PROVE SplitInv'
  BY <1>5 DEF ForceTake
<1>6. ASSUME NEW i \in Instances, WriteLock(i) PROVE SplitInv'
  BY <1>6 DEF WriteLock
<1>7. ASSUME NEW i \in Instances, ReopenStore(i) PROVE SplitInv'
  BY <1>7 DEF ReopenStore
<1>8. ASSUME NEW i \in Instances, ReopenFails(i) PROVE SplitInv'
  BY <1>8 DEF ReopenFails
<1>9. ASSUME NEW i \in Instances, Disengage(i) PROVE SplitInv'
  BY <1>9 DEF Disengage
<1>10. ASSUME NEW i \in Instances, ContinueHere(i) PROVE SplitInv'
  BY <1>10 DEF ContinueHere
<1>11. ASSUME NEW i \in Instances, RequestBaton(i) PROVE SplitInv'
  BY <1>11 DEF RequestBaton
<1>12. ASSUME NEW i \in Instances, Poll(i) PROVE SplitInv'
  BY <1>12 DEF Poll
<1>13. ASSUME NEW i \in Instances, TakeOverHere(i) PROVE SplitInv'
  BY <1>13 DEF TakeOverHere
<1>14. ASSUME NEW i \in Instances, TickActive(i) PROVE SplitInv'
  <2>1. CASE ForeignRequest(i)
    BY <1>14, <2>1 DEF TickActive
  <2>2. CASE ~ForeignRequest(i) /\ HeartbeatDue(i)
    BY <1>14, <2>2 DEF TickActive
  <2>3. CASE ~ForeignRequest(i) /\ ~HeartbeatDue(i)
    BY <1>14, <2>3 DEF TickActive, HeartbeatDue
  <2> QED
    BY <2>1, <2>2, <2>3
<1>15. ASSUME NEW i \in Instances, Release(i) PROVE SplitInv'
  BY <1>15 DEF Release
<1>16. ASSUME NEW i \in Instances, StepBack(i) PROVE SplitInv'
  BY <1>16 DEF StepBack
<1>17. ASSUME NEW i \in Instances, Heartbeat(i) PROVE SplitInv'
  <2>1. Owned(i) \/ Free \/ together = 0
    BY <1>17 DEF Heartbeat
  <2>2. \A j \in Instances \ {i} : ~Owned(j) \/ together = 0
    BY <2>1
  <2> QED
    BY <1>17, <2>2 DEF Heartbeat
<1>18. ASSUME NEW i \in Instances, TickRequesting(i) PROVE SplitInv'
  BY <1>18 DEF TickRequesting
<1>19. ASSUME NEW i \in Instances, Dies(i) PROVE SplitInv'
  <2>1. Free' = Free /\ \A j \in Instances \ {i} : (Owned(j))' <=> Owned(j)
    BY <1>19 DEF Dies, NotOf
  <2> QED
    BY <1>19, <2>1 DEF Dies
<1>20. ASSUME NEW i \in Instances, Sleep(i) PROVE SplitInv'
  BY <1>20 DEF Sleep
<1>21. ASSUME NEW i \in Instances, Wake(i) PROVE SplitInv'
  BY <1>21 DEF Wake
<1>22. CASE Pass
  <2>1. CASE Cardinality({i \in Instances : Writes(i)}) > 1
    <3>1. PICK i, j \in Instances : i # j /\ Writes(i) /\ Writes(j)
      BY <2>1, TwoWriters
    <3>2. Instances = {i, j}
      BY <3>1
    <3>3. \A k \in Instances : awake[k] /\ doing[k] = "nothing" /\ mode[k] = "active" /\ ticked[k]
      BY <1>22, <3>1, <3>2 DEF Pass, Writes
    <3>4. together + 1 <= Beat
      BY <3>1, <3>3
    <3>5. \A k \in Instances : (Owned(k))' => Owned(k)
      BY <1>22 DEF Pass
    <3>6. \A k \in Instances : together <= beaten[k] => together + 1 <= beaten'[k]
      BY <1>22, <3>3, <3>4 DEF Pass
    <3> QED
      BY <1>22, <2>1, <3>3, <3>4, <3>5, <3>6 DEF Pass
  <2>2. CASE ~(Cardinality({i \in Instances : Writes(i)}) > 1)
    <3>1. together' = 0
      BY <1>22, <2>2 DEF Pass
    <3>2. beaten' \in [Instances -> Ages]
      BY <1>22 DEF Pass
    <3>3. ticked' = [k \in Instances |-> FALSE] /\ UNCHANGED <<mode, doing, awake>>
      BY <1>22 DEF Pass
    <3>4. Free' => Free
      BY <1>22 DEF Pass
    <3> HIDE DEF Free, Owned
    <3> QED
      BY <3>1, <3>2, <3>3, <3>4
  <2> QED
    BY <2>1, <2>2
<1>23. CASE UNCHANGED lockVars
  BY <1>23 DEF lockVars
<1> QED
  BY <1>1, <1>2, <1>3, <1>4, <1>5, <1>6, <1>7, <1>8, <1>9, <1>10, <1>11, <1>12, <1>13, <1>14,
     <1>15, <1>16, <1>17, <1>18, <1>19, <1>20, <1>21, <1>22, <1>23
  DEF LockNext, Watches, Finishes

(* Two instances that write at once are at it for no longer than one        *)
(* heartbeat, whatever sleeps, dies or hands over in between.  With three   *)
(* the bound is not kept: two that lost the lock while it went away can     *)
(* both find it free and beat at once.                                      *)
THEOREM SplitEndsForTwo ==
  ASSUME \A i, j, k \in Instances : i = j \/ j = k \/ i = k
  PROVE  LockSpec => []SplitEnds
<1>1. SplitInv => SplitEnds
  BY DEF SplitInv, SplitEnds, SplitLimit
<1>2. SplitInv /\ [LockNext]_lockVars => SplitInv'
  BY SplitInvKept
<1> QED
  BY <1>1, <1>2, SplitInvAtFirst, PTL DEF LockSpec

-----------------------------------------------------------------------------
(* A vault on the move. *)

Full(f, k) == \A p \in Parts : disk[f][p] = k
Clean(r) == \A p \in Parts : disk[r][p] \in {Nothing, Foreign}
Behind == {Order[n] : n \in 1..(part - 1)}
NothingBeside == marker = {} /\ Clean(Other(pointer))

(* The types the rest rests on, with what a folder can hold of a part. *)
Contents == Keys \cup {Nothing, Mixed, Foreign}
Disks == [Folders -> [Parts -> Contents]]
JournalType == [stage : InPlace \cup {"none", "relocating"}, from : Roots, backup : BOOLEAN, target : Roots]
PlanType == [rekey : BOOLEAN, move : BOOLEAN, from : Roots, old : Keys, new : Keys]
MoveTyped ==
  /\ disk \in Disks /\ marker \subseteq Roots /\ journal \in JournalType /\ pointer \in Roots
  /\ part \in 1..4 /\ plan \in PlanType /\ minted \in Keys

(* Where a migration, or a repair, works. *)
Working ==
  /\ step \in KeySteps \cup MoveSteps \cup AbortSteps => plan.from = pointer
  /\ step \in MovedSteps => plan.from # pointer
  /\ journal.stage \in InPlace => journal.from = pointer
  /\ step \in {"clear_live", "restore", "remove_restored"} => journal.stage \in InPlace
  /\ step \in MoveSteps \ {"journal_move"} => journal.stage = "relocating"
  /\ step \in {"copy", "open_copy", "commit"} => To \in marker

(* Where another account's vault is not. *)
OnlyOurs ==
  \/ blind
  \/ /\ \A f \in marker \cup {pointer, "backup"} : disk[f]["meta"] # Foreign
     /\ step = "mark" => disk[To]["meta"] # Foreign

(* What the next launch finds, by the journal. *)
OnDisk ==
  /\ journal.stage = "none" => Whole(pointer) /\ NothingBeside
  /\ journal.stage \in InPlace =>
       journal.backup /\ NothingBeside /\ (IF kept THEN Whole("backup") ELSE Whole(pointer))
  /\ journal.stage = "relocating" =>
       /\ journal.target = Other(journal.from) /\ Whole(pointer)
       /\ marker \subseteq {journal.target}
       /\ pointer = journal.from => journal.target \in marker \/ Clean(journal.target)

(* How far a change of key has come. *)
InBackup == {"clear_backup", "make_backup", "back_up", "journal_key"}
Rekeyed == {"journal_notes", "convert", "converted", "convert_sidecars", "converted_sidecars",
            "journal_final", "store_meta", "swap_session", "remove_backup", "clear_key_journal"}
Converted == Rekeyed \ {"journal_notes", "convert", "converted"}
Rewritten == Converted \ {"convert_sidecars", "converted_sidecars"}
Stored == Rewritten \ {"journal_final", "store_meta"}
ChangesKey ==
  /\ step \in InBackup => journal.stage = "none" /\ Full(plan.from, plan.old)
  /\ step = "back_up" => kept /\ \A p \in Behind : disk["backup"][p] = plan.old
  /\ step = "journal_key" => kept /\ Full("backup", plan.old)
  /\ step \in KeySteps \ InBackup => journal.stage \in InPlace /\ (kept <=> step # "clear_key_journal")
  /\ step \in Rekeyed => disk[plan.from]["db"] = plan.new
  /\ step \in Converted => disk[plan.from]["notes"] = plan.new
  /\ step \in Rewritten => disk[plan.from]["sidecars"] = plan.new
  /\ step \in Stored => disk[plan.from]["meta"] = plan.new

(* How far a move, or its undoing, has come. *)
Moves ==
  /\ step \in MoveSteps => Full(plan.from, plan.new)
  /\ step \in {"journal_move", "reopen", "open"} => journal.stage = "none"
  /\ step \in (MoveSteps \cup MovedSteps \cup AbortSteps) \ {"journal_move", "reopen"} =>
       journal.stage = "relocating" /\ journal.from = plan.from
  /\ step \in {"recheck", "mark", "clear_aborted", "clear_move_journal"} => marker = {}
  /\ step = "copy" => \A p \in Behind : disk[To][p] = plan.new
  /\ step \in {"open_copy", "commit"} => Full(To, plan.new)
  /\ step = "delete_source" => \A p \in Behind : disk[plan.from][p] \in {Nothing, Foreign}
  /\ step \in {"unmark", "clear_move_journal"} => Clean(plan.from)
  /\ step = "discard" => \A p \in Behind : disk[To][p] \in {Nothing, Foreign}
  /\ step \in {"discard_marker", "clear_aborted"} => Clean(To)

(* How far a repair has come. *)
Repairs ==
  /\ step \in {"clear_live", "restore", "remove_restored"} => kept
  /\ step = "restore" => \A p \in Behind : disk[pointer][p] = disk["backup"][p]
  /\ step = "remove_restored" => \A p \in Parts : disk[pointer][p] = disk["backup"][p]
  /\ step = "discard_target" =>
       /\ journal.stage # "none" /\ (journal.stage \in InPlace => ~kept)
       /\ journal.stage = "relocating" => pointer = journal.from
       /\ \A p \in Behind : journal.target \in marker => disk[journal.target][p] \in {Nothing, Foreign}
  /\ step = "discard_target_marker" =>
       journal.stage = "relocating" /\ pointer = journal.from /\ Clean(journal.target)
  /\ step \in {"finish_move", "finish_unmark"} => journal.stage = "relocating" /\ pointer = journal.target
  /\ step = "finish_move" => \A p \in Behind : disk[journal.from][p] \in {Nothing, Foreign}
  /\ step = "finish_unmark" => Clean(journal.from)
  /\ step = "clear_recovered" => Whole(pointer) /\ NothingBeside

(* Nothing of a torn backup can be relied on, nor of a migration begun on   *)
(* top of one that failed; where things are is known all the same.          *)
MoveInv ==
  /\ MoveTyped /\ Working /\ OnlyOurs
  /\ Heeds => torn \/ (OnDisk /\ ChangesKey /\ Moves /\ Repairs)

LEMMA Names ==
  /\ Roots \subseteq Folders /\ "backup" \in Folders \ Roots /\ "here" \in Roots /\ "there" \in Roots
  /\ \A r \in Roots : Other(r) \in Roots /\ Other(r) # r /\ Other(Other(r)) = r
  /\ \A r, s \in Roots : r # s => s = Other(r)
  /\ Folders = Roots \cup {"backup"}
  /\ Parts = {"db", "notes", "meta", "sidecars"}
  /\ "db" \in Parts /\ "notes" \in Parts /\ "meta" \in Parts /\ "sidecars" \in Parts
  /\ Keys \subseteq Contents /\ Nothing \in Contents /\ Mixed \in Contents /\ Foreign \in Contents
  /\ Nothing \notin Keys /\ Foreign \notin Keys /\ Mixed \notin Keys /\ Nothing # Foreign /\ Mixed # Foreign
BY MoveAssumption DEF Roots, Folders, Other, Parts, Keys, Contents, Nothing, Mixed, Foreign

LEMMA Records ==
  /\ NoJournal \in JournalType /\ NoJournal.stage = "none"
  /\ \A j \in JournalType : j.from \in Roots /\ j.target \in Roots
  /\ \A q \in PlanType : q.from \in Roots /\ q.old \in Keys /\ q.new \in Keys
<1>1. NoJournal \in JournalType
  BY DEF NoJournal, JournalType, Roots
<1> QED
  BY <1>1 DEF NoJournal, JournalType, PlanType

LEMMA Places ==
  ASSUME MoveTyped
  PROVE  /\ plan.from \in Folders /\ plan.from \in Roots /\ plan.old \in Keys /\ plan.new \in Keys
         /\ To \in Roots /\ To \in Folders /\ To = Other(plan.from)
         /\ journal.from \in Roots /\ journal.from \in Folders /\ journal.target \in Roots
         /\ journal.target \in Folders /\ pointer \in Folders
         /\ \A s \in InPlace : /\ Staged(s) \in JournalType /\ Staged(s).stage = s
                               /\ Staged(s).from = plan.from /\ Staged(s).backup
         /\ LET j == [stage |-> "relocating", from |-> plan.from, backup |-> FALSE, target |-> To] IN
            j \in JournalType /\ j.stage = "relocating" /\ j.from = plan.from /\ j.target = To
         /\ Behind \subseteq Parts
         /\ "relocating" \notin InPlace /\ "none" \notin InPlace
         /\ "rekeying" \in InPlace /\ "markdown" \in InPlace /\ "finalizing" \in InPlace
<1>1. plan.from \in Roots /\ plan.old \in Keys /\ plan.new \in Keys /\ To \in Roots
  BY Names DEF MoveTyped, PlanType, To
<1>2. journal.from \in Roots /\ journal.target \in Roots
  BY DEF MoveTyped, JournalType
<1>3. \A s \in InPlace : /\ Staged(s) \in JournalType /\ Staged(s).stage = s
                        /\ Staged(s).from = plan.from /\ Staged(s).backup
  BY <1>1 DEF Staged, JournalType
<1>4. LET j == [stage |-> "relocating", from |-> plan.from, backup |-> FALSE, target |-> To] IN
        j \in JournalType /\ j.stage = "relocating" /\ j.from = plan.from /\ j.target = To
  BY <1>1 DEF JournalType
<1>5. Behind \subseteq Parts
  BY DEF MoveTyped, Behind, Order, Parts
<1> QED
  BY <1>1, <1>2, <1>3, <1>4, <1>5, Names DEF MoveTyped, To, InPlace

(* What the operations on files do, part by part. *)
Changed(f, p, c) ==
  /\ disk' \in Disks /\ disk'[f][p] = c
  /\ \A q \in Parts \ {p} : disk'[f][q] = disk[f][q]
  /\ \A g \in Folders \ {f} : disk'[g] = disk[g]
Walked(from, to) ==
  /\ step = from /\ part' \in 1..4
  /\ \/ step' = to /\ part' = 1 /\ Behind' = {} /\ Parts = Behind \cup {Order[part]}
     \/ step' = from /\ Behind' = Behind \cup {Order[part]}
Copied(from, to, a, b) ==
  /\ Walked(from, to) /\ UNCHANGED <<marker, kept, journal, rest>>
  /\ Order[part] \in Parts
  /\ Changed(b, Order[part], IF disk[a][Order[part]] = Nothing THEN disk[b][Order[part]] ELSE disk[a][Order[part]])
Deleted(from, to, f) ==
  /\ Walked(from, to) /\ UNCHANGED <<marker, kept, journal, rest>>
  /\ Order[part] \in Parts /\ Changed(f, Order[part], Nothing)
Rewrote(half, done, next, p) ==
  /\ UNCHANGED <<marker, kept, journal, rest>> /\ part' = 1
  /\ \/ step = half /\ step' = done /\ Changed(plan.from, p, Mixed)
     \/ step = done /\ step' = next /\ Changed(plan.from, p, plan.new)

LEMMA PutsDoes ==
  ASSUME disk \in Disks, NEW f \in Folders, NEW p \in Parts, NEW c \in Contents, Puts(f, p, c)
  PROVE  UNCHANGED <<marker, kept, journal>> /\ Changed(f, p, c)
BY DEF Puts, Disks, Changed

LEMMA WalkDoes ==
  ASSUME part \in 1..4, NEW from, NEW to, Walk(from, to)
  PROVE  Order[part] \in Parts /\ Walked(from, to)
BY DEF Walk, Order, Parts, Behind, Walked

LEMMA AtFirstPart == part' = 1 => Behind' = {}
BY DEF Behind

LEMMA CopiesDoes ==
  ASSUME MoveTyped, NEW from, NEW to, NEW a \in Folders, NEW b \in Folders, Copies(from, to, a, b)
  PROVE  Copied(from, to, a, b)
<1> DEFINE c == IF disk[a][Order[part]] = Nothing THEN disk[b][Order[part]] ELSE disk[a][Order[part]]
<1>1. Walk(from, to) /\ Puts(b, Order[part], c) /\ UNCHANGED rest
  BY DEF Copies
<1>2. Order[part] \in Parts /\ Walked(from, to)
  BY <1>1, WalkDoes DEF MoveTyped
<1>3. c \in Contents
  BY <1>2 DEF MoveTyped, Disks
<1> HIDE DEF c
<1>4. UNCHANGED <<marker, kept, journal>> /\ Changed(b, Order[part], c)
  BY <1>1, <1>2, <1>3, PutsDoes DEF MoveTyped
<1> QED
  BY <1>1, <1>2, <1>4 DEF c, Copied

LEMMA DeletesDoes ==
  ASSUME MoveTyped, NEW from, NEW to, NEW f \in Folders, Deletes(from, to, f)
  PROVE  Deleted(from, to, f)
<1>1. Walk(from, to) /\ Puts(f, Order[part], Nothing) /\ UNCHANGED rest
  BY DEF Deletes
<1>2. Order[part] \in Parts /\ Walked(from, to)
  BY <1>1, WalkDoes DEF MoveTyped
<1>3. UNCHANGED <<marker, kept, journal>> /\ Changed(f, Order[part], Nothing)
  BY <1>1, <1>2, PutsDoes, Names DEF MoveTyped
<1> QED
  BY <1>1, <1>2, <1>3 DEF Deleted

LEMMA RewritesDoes ==
  ASSUME MoveTyped, NEW half, NEW done, NEW next, NEW p \in Parts, Rewrites(half, done, next, p)
  PROVE  Rewrote(half, done, next, p)
<1>0. plan.from \in Folders /\ plan.new \in Contents /\ Mixed \in Contents /\ disk \in Disks
  BY Names, Records DEF MoveTyped
<1>1. CASE Then(half, done) /\ Puts(plan.from, p, Mixed) /\ UNCHANGED rest
  BY <1>0, <1>1, PutsDoes DEF Then, Rewrote
<1>2. CASE Then(done, next) /\ Puts(plan.from, p, plan.new) /\ UNCHANGED rest
  BY <1>0, <1>2, PutsDoes DEF Then, Rewrote
<1> QED
  BY <1>1, <1>2 DEF Rewrites

(* What a removal of the backup, whole or torn, and an arrival do. *)
BackupGone ==
  /\ disk' \in Disks /\ (\A p \in Parts : disk'["backup"][p] = Nothing)
  /\ \A g \in Roots : disk'[g] = disk[g]
BackupTorn ==
  /\ disk' \in Disks /\ \A q \in Parts : disk'["backup"][q] \in {disk["backup"][q], Nothing}
  /\ \A g \in Roots : disk'[g] = disk[g]
Arrived(r) ==
  disk' \in Disks /\ (\A p \in Parts : disk'[r][p] = Foreign) /\ \A g \in Folders \ {r} : disk'[g] = disk[g]

LEMMA BackupGoes ==
  ASSUME MoveTyped, disk' = [disk EXCEPT !["backup"] = Empty]
  PROVE  BackupGone
BY Names DEF MoveTyped, BackupGone, Disks, Empty, Folders, Roots

LEMMA BackupTears ==
  ASSUME MoveTyped, NEW p \in Parts, disk' = [disk EXCEPT !["backup"][p] = Nothing]
  PROVE  BackupTorn
BY Names DEF MoveTyped, BackupTorn, Disks, Folders, Roots

LEMMA TheirsAppears ==
  ASSUME MoveTyped, NEW r \in Roots, disk' = [disk EXCEPT ![r] = Theirs]
  PROVE  Arrived(r)
BY Names DEF MoveTyped, Arrived, Disks, Theirs, Folders, Roots

LEMMA Unmoved == (plan' = plan => To' = To) /\ (part' = part => Behind' = Behind)
BY DEF To, Behind

LEMMA MoveTypedKept ==
  ASSUME MoveTyped, [MoveNext]_moveVars
  PROVE  MoveTyped'
<1> USE Names, Records, Places, AtFirstPart, Unmoved DEF MoveTyped, Then, rest
<1>1. ASSUME RemovesBackup("clear_backup", "make_backup") PROVE MoveTyped'
  <2>1. BackupGone
    BY <1>1, BackupGoes DEF RemovesBackup
  <2> QED
    BY <1>1, <2>1 DEF RemovesBackup, BackupGone
<1>2. ASSUME MakeBackup PROVE MoveTyped'
  BY <1>2 DEF MakeBackup
<1>3. ASSUME Copies("back_up", "journal_key", plan.from, "backup") PROVE MoveTyped'
  <2>1. Copied("back_up", "journal_key", plan.from, "backup")
    BY <1>3, CopiesDoes
  <2> QED
    BY <1>3, <2>1 DEF Copied, Walked, Changed
<1>4. ASSUME Journals("journal_key", "rekey", Staged("rekeying")) PROVE MoveTyped'
  BY <1>4 DEF Journals
<1>5. ASSUME Rewrites("rekey", "rekeyed", "journal_notes", "db") PROVE MoveTyped'
  <2>1. Rewrote("rekey", "rekeyed", "journal_notes", "db")
    BY <1>5, RewritesDoes
  <2> QED
    BY <1>5, <2>1 DEF Rewrote, Changed
<1>6. ASSUME Journals("journal_notes", "convert", Staged("markdown")) PROVE MoveTyped'
  BY <1>6 DEF Journals
<1>7. ASSUME Rewrites("convert", "converted", "convert_sidecars", "notes") PROVE MoveTyped'
  <2>1. Rewrote("convert", "converted", "convert_sidecars", "notes")
    BY <1>7, RewritesDoes
  <2> QED
    BY <1>7, <2>1 DEF Rewrote, Changed
<1>8. ASSUME Rewrites("convert_sidecars", "converted_sidecars", "journal_final", "sidecars")
      PROVE  MoveTyped'
  <2>1. Rewrote("convert_sidecars", "converted_sidecars", "journal_final", "sidecars")
    BY <1>8, RewritesDoes
  <2> QED
    BY <1>8, <2>1 DEF Rewrote, Changed
<1>9. ASSUME Journals("journal_final", "store_meta", Staged("finalizing")) PROVE MoveTyped'
  BY <1>9 DEF Journals
<1>10. ASSUME StoreMeta PROVE MoveTyped'
  <2>1. UNCHANGED <<marker, kept, journal>> /\ Changed(plan.from, "meta", plan.new)
    BY <1>10, PutsDoes DEF StoreMeta
  <2> QED
    BY <1>10, <2>1 DEF StoreMeta, Changed
<1>11. ASSUME SwapSession PROVE MoveTyped'
  BY <1>11 DEF SwapSession
<1>12. ASSUME RemovesBackup("remove_backup", "clear_key_journal") PROVE MoveTyped'
  <2>1. BackupGone
    BY <1>12, BackupGoes DEF RemovesBackup
  <2> QED
    BY <1>12, <2>1 DEF RemovesBackup, BackupGone
<1>13. ASSUME Journals("clear_key_journal", IF plan.move THEN "journal_move" ELSE "idle", NoJournal)
       PROVE  MoveTyped'
  BY <1>13 DEF Journals
<1>14. ASSUME Journals("journal_move", "recheck",
              [stage |-> "relocating", from |-> plan.from, backup |-> FALSE, target |-> To]) PROVE MoveTyped'
  BY <1>14 DEF Journals
<1>15. ASSUME Recheck PROVE MoveTyped'
  BY <1>15 DEF Recheck, Journals
<1>16. ASSUME Marks("mark", "copy", marker \cup {To}) PROVE MoveTyped'
  BY <1>16 DEF Marks
<1>17. ASSUME Copies("copy", "open_copy", plan.from, To) PROVE MoveTyped'
  <2>1. Copied("copy", "open_copy", plan.from, To)
    BY <1>17, CopiesDoes
  <2> QED
    BY <1>17, <2>1 DEF Copied, Walked, Changed
<1>18. ASSUME OpenCopy PROVE MoveTyped'
  BY <1>18 DEF OpenCopy
<1>19. ASSUME Commit PROVE MoveTyped'
  BY <1>19 DEF Commit
<1>20. ASSUME Deletes("delete_source", "unmark", plan.from) PROVE MoveTyped'
  <2>1. Deleted("delete_source", "unmark", plan.from)
    BY <1>20, DeletesDoes
  <2> QED
    BY <1>20, <2>1 DEF Deleted, Walked, Changed
<1>21. ASSUME Marks("unmark", "clear_move_journal", marker \ {To}) PROVE MoveTyped'
  BY <1>21 DEF Marks
<1>22. ASSUME NEW j \in {journal, NoJournal}, Journals("clear_move_journal", "idle", j)
       PROVE  MoveTyped'
  BY <1>22 DEF Journals
<1>23. ASSUME Discards("discard", "discard_marker", "clear_aborted", To) PROVE MoveTyped'
  <2>1. CASE To \in marker /\ Deletes("discard", "discard_marker", To)
    <3>1. Deleted("discard", "discard_marker", To)
      BY <2>1, DeletesDoes
    <3> QED
      BY <2>1, <3>1 DEF Deleted, Walked, Changed
  <2>2. CASE ~(To \in marker /\ Deletes("discard", "discard_marker", To))
    BY <1>23, <2>2 DEF Discards, Marks
  <2> QED
    BY <2>1, <2>2
<1>24. ASSUME Journals("clear_aborted", "reopen", NoJournal) PROVE MoveTyped'
  BY <1>24 DEF Journals
<1>25. ASSUME Reopen PROVE MoveTyped'
  BY <1>25 DEF Reopen
<1>26. ASSUME Recover PROVE MoveTyped'
  BY <1>26 DEF Recover, Repair
<1>27. ASSUME Deletes("clear_live", "restore", journal.from) PROVE MoveTyped'
  <2>1. Deleted("clear_live", "restore", journal.from)
    BY <1>27, DeletesDoes
  <2> QED
    BY <1>27, <2>1 DEF Deleted, Walked, Changed
<1>28. ASSUME Copies("restore", "remove_restored", "backup", journal.from) PROVE MoveTyped'
  <2>1. Copied("restore", "remove_restored", "backup", journal.from)
    BY <1>28, CopiesDoes
  <2> QED
    BY <1>28, <2>1 DEF Copied, Walked, Changed
<1>29. ASSUME RestoreFails PROVE MoveTyped'
  BY <1>29 DEF RestoreFails
<1>30. ASSUME RemovesBackup("remove_restored", "discard_target") PROVE MoveTyped'
  <2>1. BackupGone
    BY <1>30, BackupGoes DEF RemovesBackup
  <2> QED
    BY <1>30, <2>1 DEF RemovesBackup, BackupGone
<1>31. ASSUME Discards("discard_target", "discard_target_marker", "clear_recovered", journal.target)
       PROVE  MoveTyped'
  <2>1. CASE journal.target \in marker /\ Deletes("discard_target", "discard_target_marker", journal.target)
    <3>1. Deleted("discard_target", "discard_target_marker", journal.target)
      BY <2>1, DeletesDoes
    <3> QED
      BY <2>1, <3>1 DEF Deleted, Walked, Changed
  <2>2. CASE ~(journal.target \in marker /\ Deletes("discard_target", "discard_target_marker", journal.target))
    BY <1>31, <2>2 DEF Discards, Marks
  <2> QED
    BY <2>1, <2>2
<1>32. ASSUME Deletes("finish_move", "finish_unmark", journal.from) PROVE MoveTyped'
  <2>1. Deleted("finish_move", "finish_unmark", journal.from)
    BY <1>32, DeletesDoes
  <2> QED
    BY <1>32, <2>1 DEF Deleted, Walked, Changed
<1>33. ASSUME Marks("finish_unmark", "clear_recovered", marker \ {journal.target}) PROVE MoveTyped'
  BY <1>33 DEF Marks
<1>34. ASSUME Journals("clear_recovered", "open", NoJournal) PROVE MoveTyped'
  BY <1>34 DEF Journals
<1>35. ASSUME Open PROVE MoveTyped'
  BY <1>35 DEF Open
<1>36. ASSUME Begin PROVE MoveTyped'
  BY <1>36, MoveAssumption DEF Begin, PlanType, Keys
<1>37. ASSUME Fails PROVE MoveTyped'
  BY <1>37 DEF Fails, CannotFail
<1>38. ASSUME Stops PROVE MoveTyped'
  BY <1>38 DEF Stops
<1>39. ASSUME TearsBackup PROVE MoveTyped'
  <2>1. BackupTorn
    BY <1>39, BackupTears DEF TearsBackup
  <2>2. ~torn' => ~journal.backup
    BY <1>39, Zenon DEF TearsBackup
  <2> QED
    BY <1>39, <2>1, <2>2 DEF TearsBackup, BackupTorn
<1>40. ASSUME Quit PROVE MoveTyped'
  BY <1>40 DEF Quit
<1>41. ASSUME NEW r \in Roots, Appears(r) PROVE MoveTyped'
  <2>1. Arrived(r)
    BY <1>41, TheirsAppears DEF Appears
  <2>2. ~blind' => ~blind /\ step # "mark"
    BY <1>41, Zenon DEF Appears
  <2> QED
    BY <1>41, <2>1, <2>2 DEF Appears, Arrived
<1>42. ASSUME UNCHANGED moveVars PROVE MoveTyped'
  BY <1>42 DEF moveVars
<1> HIDE DEF MoveTyped, Then, rest, Working, OnDisk, ChangesKey, Moves, Repairs
<1> QED
  BY <1>1, <1>2, <1>3, <1>4, <1>5, <1>6, <1>7, <1>8, <1>9, <1>10, <1>11, <1>12, <1>13, <1>14,
     <1>15, <1>16, <1>17, <1>18, <1>19, <1>20, <1>21, <1>22, <1>23, <1>24, <1>25, <1>26, <1>27,
     <1>28, <1>29, <1>30, <1>31, <1>32, <1>33, <1>34, <1>35, <1>36, <1>37, <1>38, <1>39, <1>40,
     <1>41, <1>42
    DEF MoveNext, MoveMachine, ChangeKey, Move, Abort, Boot

LEMMA WorkingKept ==
  ASSUME MoveTyped, Working, [MoveNext]_moveVars
  PROVE  Working'
<1> USE Names, Records, Places, AtFirstPart, Unmoved DEF MoveTyped, Then, rest
<1> USE DEF Working, KeySteps, MoveSteps, MovedSteps, AbortSteps
<1>1. ASSUME RemovesBackup("clear_backup", "make_backup") PROVE Working'
  <2>1. BackupGone
    BY <1>1, BackupGoes DEF RemovesBackup
  <2> QED
    BY <1>1, <2>1 DEF RemovesBackup, BackupGone
<1>2. ASSUME MakeBackup PROVE Working'
  BY <1>2 DEF MakeBackup
<1>3. ASSUME Copies("back_up", "journal_key", plan.from, "backup") PROVE Working'
  <2>1. Copied("back_up", "journal_key", plan.from, "backup")
    BY <1>3, CopiesDoes
  <2> QED
    BY <1>3, <2>1 DEF Copied, Walked, Changed
<1>4. ASSUME Journals("journal_key", "rekey", Staged("rekeying")) PROVE Working'
  BY <1>4 DEF Journals
<1>5. ASSUME Rewrites("rekey", "rekeyed", "journal_notes", "db") PROVE Working'
  <2>1. Rewrote("rekey", "rekeyed", "journal_notes", "db")
    BY <1>5, RewritesDoes
  <2> QED
    BY <1>5, <2>1 DEF Rewrote, Changed
<1>6. ASSUME Journals("journal_notes", "convert", Staged("markdown")) PROVE Working'
  BY <1>6 DEF Journals
<1>7. ASSUME Rewrites("convert", "converted", "convert_sidecars", "notes") PROVE Working'
  <2>1. Rewrote("convert", "converted", "convert_sidecars", "notes")
    BY <1>7, RewritesDoes
  <2> QED
    BY <1>7, <2>1 DEF Rewrote, Changed
<1>8. ASSUME Rewrites("convert_sidecars", "converted_sidecars", "journal_final", "sidecars")
      PROVE  Working'
  <2>1. Rewrote("convert_sidecars", "converted_sidecars", "journal_final", "sidecars")
    BY <1>8, RewritesDoes
  <2> QED
    BY <1>8, <2>1 DEF Rewrote, Changed
<1>9. ASSUME Journals("journal_final", "store_meta", Staged("finalizing")) PROVE Working'
  BY <1>9 DEF Journals
<1>10. ASSUME StoreMeta PROVE Working'
  <2>1. UNCHANGED <<marker, kept, journal>> /\ Changed(plan.from, "meta", plan.new)
    BY <1>10, PutsDoes DEF StoreMeta
  <2> QED
    BY <1>10, <2>1 DEF StoreMeta, Changed
<1>11. ASSUME SwapSession PROVE Working'
  BY <1>11 DEF SwapSession
<1>12. ASSUME RemovesBackup("remove_backup", "clear_key_journal") PROVE Working'
  <2>1. BackupGone
    BY <1>12, BackupGoes DEF RemovesBackup
  <2> QED
    BY <1>12, <2>1 DEF RemovesBackup, BackupGone
<1>13. ASSUME Journals("clear_key_journal", IF plan.move THEN "journal_move" ELSE "idle", NoJournal)
       PROVE  Working'
  BY <1>13 DEF Journals
<1>14. ASSUME Journals("journal_move", "recheck",
              [stage |-> "relocating", from |-> plan.from, backup |-> FALSE, target |-> To]) PROVE Working'
  BY <1>14 DEF Journals
<1>15. ASSUME Recheck PROVE Working'
  BY <1>15 DEF Recheck, Journals
<1>16. ASSUME Marks("mark", "copy", marker \cup {To}) PROVE Working'
  BY <1>16 DEF Marks
<1>17. ASSUME Copies("copy", "open_copy", plan.from, To) PROVE Working'
  <2>1. Copied("copy", "open_copy", plan.from, To)
    BY <1>17, CopiesDoes
  <2> QED
    BY <1>17, <2>1 DEF Copied, Walked, Changed
<1>18. ASSUME OpenCopy PROVE Working'
  BY <1>18 DEF OpenCopy
<1>19. ASSUME Commit PROVE Working'
  BY <1>19 DEF Commit
<1>20. ASSUME Deletes("delete_source", "unmark", plan.from) PROVE Working'
  <2>1. Deleted("delete_source", "unmark", plan.from)
    BY <1>20, DeletesDoes
  <2> QED
    BY <1>20, <2>1 DEF Deleted, Walked, Changed
<1>21. ASSUME Marks("unmark", "clear_move_journal", marker \ {To}) PROVE Working'
  BY <1>21 DEF Marks
<1>22. ASSUME NEW j \in {journal, NoJournal}, Journals("clear_move_journal", "idle", j)
       PROVE  Working'
  BY <1>22 DEF Journals
<1>23. ASSUME Discards("discard", "discard_marker", "clear_aborted", To) PROVE Working'
  <2>1. CASE To \in marker /\ Deletes("discard", "discard_marker", To)
    <3>1. Deleted("discard", "discard_marker", To)
      BY <2>1, DeletesDoes
    <3> QED
      BY <2>1, <3>1 DEF Deleted, Walked, Changed
  <2>2. CASE ~(To \in marker /\ Deletes("discard", "discard_marker", To))
    BY <1>23, <2>2 DEF Discards, Marks
  <2> QED
    BY <2>1, <2>2
<1>24. ASSUME Journals("clear_aborted", "reopen", NoJournal) PROVE Working'
  BY <1>24 DEF Journals
<1>25. ASSUME Reopen PROVE Working'
  BY <1>25 DEF Reopen
<1>26. ASSUME Recover PROVE Working'
  BY <1>26 DEF Recover, Repair
<1>27. ASSUME Deletes("clear_live", "restore", journal.from) PROVE Working'
  <2>1. Deleted("clear_live", "restore", journal.from)
    BY <1>27, DeletesDoes
  <2> QED
    BY <1>27, <2>1 DEF Deleted, Walked, Changed
<1>28. ASSUME Copies("restore", "remove_restored", "backup", journal.from) PROVE Working'
  <2>1. Copied("restore", "remove_restored", "backup", journal.from)
    BY <1>28, CopiesDoes
  <2> QED
    BY <1>28, <2>1 DEF Copied, Walked, Changed
<1>29. ASSUME RestoreFails PROVE Working'
  BY <1>29 DEF RestoreFails
<1>30. ASSUME RemovesBackup("remove_restored", "discard_target") PROVE Working'
  <2>1. BackupGone
    BY <1>30, BackupGoes DEF RemovesBackup
  <2> QED
    BY <1>30, <2>1 DEF RemovesBackup, BackupGone
<1>31. ASSUME Discards("discard_target", "discard_target_marker", "clear_recovered", journal.target)
       PROVE  Working'
  <2>1. CASE journal.target \in marker /\ Deletes("discard_target", "discard_target_marker", journal.target)
    <3>1. Deleted("discard_target", "discard_target_marker", journal.target)
      BY <2>1, DeletesDoes
    <3> QED
      BY <2>1, <3>1 DEF Deleted, Walked, Changed
  <2>2. CASE ~(journal.target \in marker /\ Deletes("discard_target", "discard_target_marker", journal.target))
    BY <1>31, <2>2 DEF Discards, Marks
  <2> QED
    BY <2>1, <2>2
<1>32. ASSUME Deletes("finish_move", "finish_unmark", journal.from) PROVE Working'
  <2>1. Deleted("finish_move", "finish_unmark", journal.from)
    BY <1>32, DeletesDoes
  <2> QED
    BY <1>32, <2>1 DEF Deleted, Walked, Changed
<1>33. ASSUME Marks("finish_unmark", "clear_recovered", marker \ {journal.target}) PROVE Working'
  BY <1>33 DEF Marks
<1>34. ASSUME Journals("clear_recovered", "open", NoJournal) PROVE Working'
  BY <1>34 DEF Journals
<1>35. ASSUME Open PROVE Working'
  BY <1>35 DEF Open
<1>36. ASSUME Begin PROVE Working'
  BY <1>36 DEF Begin
<1>37. ASSUME Fails PROVE Working'
  BY <1>37 DEF Fails, CannotFail
<1>38. ASSUME Stops PROVE Working'
  BY <1>38 DEF Stops
<1>39. ASSUME TearsBackup PROVE Working'
  <2>1. BackupTorn
    BY <1>39, BackupTears DEF TearsBackup
  <2>2. ~torn' => ~journal.backup
    BY <1>39, Zenon DEF TearsBackup
  <2> QED
    BY <1>39, <2>1, <2>2 DEF TearsBackup, BackupTorn
<1>40. ASSUME Quit PROVE Working'
  BY <1>40 DEF Quit
<1>41. ASSUME NEW r \in Roots, Appears(r) PROVE Working'
  <2>1. Arrived(r)
    BY <1>41, TheirsAppears DEF Appears
  <2>2. ~blind' => ~blind /\ step # "mark"
    BY <1>41, Zenon DEF Appears
  <2> QED
    BY <1>41, <2>1, <2>2 DEF Appears, Arrived
<1>42. ASSUME UNCHANGED moveVars PROVE Working'
  BY <1>42 DEF moveVars
<1> HIDE DEF MoveTyped, Then, rest, Working, OnDisk, ChangesKey, Moves, Repairs
<1> QED
  BY <1>1, <1>2, <1>3, <1>4, <1>5, <1>6, <1>7, <1>8, <1>9, <1>10, <1>11, <1>12, <1>13, <1>14,
     <1>15, <1>16, <1>17, <1>18, <1>19, <1>20, <1>21, <1>22, <1>23, <1>24, <1>25, <1>26, <1>27,
     <1>28, <1>29, <1>30, <1>31, <1>32, <1>33, <1>34, <1>35, <1>36, <1>37, <1>38, <1>39, <1>40,
     <1>41, <1>42
    DEF MoveNext, MoveMachine, ChangeKey, Move, Abort, Boot

LEMMA OnlyOursKept ==
  ASSUME MoveTyped, Working, OnlyOurs, [MoveNext]_moveVars
  PROVE  OnlyOurs'
<1> USE Names, Records, Places, AtFirstPart, Unmoved DEF MoveTyped, Then, rest
<1> USE DEF Working, OnlyOurs, KeySteps, MoveSteps, MovedSteps, AbortSteps
<1>1. ASSUME RemovesBackup("clear_backup", "make_backup") PROVE OnlyOurs'
  <2>1. BackupGone
    BY <1>1, BackupGoes DEF RemovesBackup
  <2> QED
    BY <1>1, <2>1 DEF RemovesBackup, BackupGone
<1>2. ASSUME MakeBackup PROVE OnlyOurs'
  BY <1>2 DEF MakeBackup
<1>3. ASSUME Copies("back_up", "journal_key", plan.from, "backup") PROVE OnlyOurs'
  <2>1. Copied("back_up", "journal_key", plan.from, "backup")
    BY <1>3, CopiesDoes
  <2> QED
    BY <1>3, <2>1 DEF Copied, Walked, Changed
<1>4. ASSUME Journals("journal_key", "rekey", Staged("rekeying")) PROVE OnlyOurs'
  BY <1>4 DEF Journals
<1>5. ASSUME Rewrites("rekey", "rekeyed", "journal_notes", "db") PROVE OnlyOurs'
  <2>1. Rewrote("rekey", "rekeyed", "journal_notes", "db")
    BY <1>5, RewritesDoes
  <2> QED
    BY <1>5, <2>1 DEF Rewrote, Changed
<1>6. ASSUME Journals("journal_notes", "convert", Staged("markdown")) PROVE OnlyOurs'
  BY <1>6 DEF Journals
<1>7. ASSUME Rewrites("convert", "converted", "convert_sidecars", "notes") PROVE OnlyOurs'
  <2>1. Rewrote("convert", "converted", "convert_sidecars", "notes")
    BY <1>7, RewritesDoes
  <2> QED
    BY <1>7, <2>1 DEF Rewrote, Changed
<1>8. ASSUME Rewrites("convert_sidecars", "converted_sidecars", "journal_final", "sidecars")
      PROVE  OnlyOurs'
  <2>1. Rewrote("convert_sidecars", "converted_sidecars", "journal_final", "sidecars")
    BY <1>8, RewritesDoes
  <2> QED
    BY <1>8, <2>1 DEF Rewrote, Changed
<1>9. ASSUME Journals("journal_final", "store_meta", Staged("finalizing")) PROVE OnlyOurs'
  BY <1>9 DEF Journals
<1>10. ASSUME StoreMeta PROVE OnlyOurs'
  <2>1. UNCHANGED <<marker, kept, journal>> /\ Changed(plan.from, "meta", plan.new)
    BY <1>10, PutsDoes DEF StoreMeta
  <2> QED
    BY <1>10, <2>1 DEF StoreMeta, Changed
<1>11. ASSUME SwapSession PROVE OnlyOurs'
  BY <1>11 DEF SwapSession
<1>12. ASSUME RemovesBackup("remove_backup", "clear_key_journal") PROVE OnlyOurs'
  <2>1. BackupGone
    BY <1>12, BackupGoes DEF RemovesBackup
  <2> QED
    BY <1>12, <2>1 DEF RemovesBackup, BackupGone
<1>13. ASSUME Journals("clear_key_journal", IF plan.move THEN "journal_move" ELSE "idle", NoJournal)
       PROVE  OnlyOurs'
  BY <1>13 DEF Journals
<1>14. ASSUME Journals("journal_move", "recheck",
              [stage |-> "relocating", from |-> plan.from, backup |-> FALSE, target |-> To]) PROVE OnlyOurs'
  BY <1>14 DEF Journals
<1>15. ASSUME Recheck PROVE OnlyOurs'
  BY <1>15 DEF Recheck, Journals
<1>16. ASSUME Marks("mark", "copy", marker \cup {To}) PROVE OnlyOurs'
  BY <1>16 DEF Marks
<1>17. ASSUME Copies("copy", "open_copy", plan.from, To) PROVE OnlyOurs'
  <2>1. Copied("copy", "open_copy", plan.from, To)
    BY <1>17, CopiesDoes
  <2> QED
    BY <1>17, <2>1 DEF Copied, Walked, Changed
<1>18. ASSUME OpenCopy PROVE OnlyOurs'
  BY <1>18 DEF OpenCopy
<1>19. ASSUME Commit PROVE OnlyOurs'
  BY <1>19 DEF Commit
<1>20. ASSUME Deletes("delete_source", "unmark", plan.from) PROVE OnlyOurs'
  <2>1. Deleted("delete_source", "unmark", plan.from)
    BY <1>20, DeletesDoes
  <2> QED
    BY <1>20, <2>1 DEF Deleted, Walked, Changed
<1>21. ASSUME Marks("unmark", "clear_move_journal", marker \ {To}) PROVE OnlyOurs'
  BY <1>21 DEF Marks
<1>22. ASSUME NEW j \in {journal, NoJournal}, Journals("clear_move_journal", "idle", j)
       PROVE  OnlyOurs'
  BY <1>22 DEF Journals
<1>23. ASSUME Discards("discard", "discard_marker", "clear_aborted", To) PROVE OnlyOurs'
  <2>1. CASE To \in marker /\ Deletes("discard", "discard_marker", To)
    <3>1. Deleted("discard", "discard_marker", To)
      BY <2>1, DeletesDoes
    <3> QED
      BY <2>1, <3>1 DEF Deleted, Walked, Changed
  <2>2. CASE ~(To \in marker /\ Deletes("discard", "discard_marker", To))
    BY <1>23, <2>2 DEF Discards, Marks
  <2> QED
    BY <2>1, <2>2
<1>24. ASSUME Journals("clear_aborted", "reopen", NoJournal) PROVE OnlyOurs'
  BY <1>24 DEF Journals
<1>25. ASSUME Reopen PROVE OnlyOurs'
  BY <1>25 DEF Reopen
<1>26. ASSUME Recover PROVE OnlyOurs'
  BY <1>26 DEF Recover, Repair
<1>27. ASSUME Deletes("clear_live", "restore", journal.from) PROVE OnlyOurs'
  <2>1. Deleted("clear_live", "restore", journal.from)
    BY <1>27, DeletesDoes
  <2> QED
    BY <1>27, <2>1 DEF Deleted, Walked, Changed
<1>28. ASSUME Copies("restore", "remove_restored", "backup", journal.from) PROVE OnlyOurs'
  <2>1. Copied("restore", "remove_restored", "backup", journal.from)
    BY <1>28, CopiesDoes
  <2> QED
    BY <1>28, <2>1 DEF Copied, Walked, Changed
<1>29. ASSUME RestoreFails PROVE OnlyOurs'
  BY <1>29 DEF RestoreFails
<1>30. ASSUME RemovesBackup("remove_restored", "discard_target") PROVE OnlyOurs'
  <2>1. BackupGone
    BY <1>30, BackupGoes DEF RemovesBackup
  <2> QED
    BY <1>30, <2>1 DEF RemovesBackup, BackupGone
<1>31. ASSUME Discards("discard_target", "discard_target_marker", "clear_recovered", journal.target)
       PROVE  OnlyOurs'
  <2>1. CASE journal.target \in marker /\ Deletes("discard_target", "discard_target_marker", journal.target)
    <3>1. Deleted("discard_target", "discard_target_marker", journal.target)
      BY <2>1, DeletesDoes
    <3> QED
      BY <2>1, <3>1 DEF Deleted, Walked, Changed
  <2>2. CASE ~(journal.target \in marker /\ Deletes("discard_target", "discard_target_marker", journal.target))
    BY <1>31, <2>2 DEF Discards, Marks
  <2> QED
    BY <2>1, <2>2
<1>32. ASSUME Deletes("finish_move", "finish_unmark", journal.from) PROVE OnlyOurs'
  <2>1. Deleted("finish_move", "finish_unmark", journal.from)
    BY <1>32, DeletesDoes
  <2> QED
    BY <1>32, <2>1 DEF Deleted, Walked, Changed
<1>33. ASSUME Marks("finish_unmark", "clear_recovered", marker \ {journal.target}) PROVE OnlyOurs'
  BY <1>33 DEF Marks
<1>34. ASSUME Journals("clear_recovered", "open", NoJournal) PROVE OnlyOurs'
  BY <1>34 DEF Journals
<1>35. ASSUME Open PROVE OnlyOurs'
  BY <1>35 DEF Open
<1>36. ASSUME Begin PROVE OnlyOurs'
  BY <1>36 DEF Begin
<1>37. ASSUME Fails PROVE OnlyOurs'
  BY <1>37 DEF Fails, CannotFail
<1>38. ASSUME Stops PROVE OnlyOurs'
  BY <1>38 DEF Stops
<1>39. ASSUME TearsBackup PROVE OnlyOurs'
  <2>1. BackupTorn
    BY <1>39, BackupTears DEF TearsBackup
  <2>2. ~torn' => ~journal.backup
    BY <1>39, Zenon DEF TearsBackup
  <2> QED
    BY <1>39, <2>1, <2>2 DEF TearsBackup, BackupTorn
<1>40. ASSUME Quit PROVE OnlyOurs'
  BY <1>40 DEF Quit
<1>41. ASSUME NEW r \in Roots, Appears(r) PROVE OnlyOurs'
  <2>1. Arrived(r)
    BY <1>41, TheirsAppears DEF Appears
  <2>2. ~blind' => ~blind /\ step # "mark"
    BY <1>41, Zenon DEF Appears
  <2> QED
    BY <1>41, <2>1, <2>2 DEF Appears, Arrived
<1>42. ASSUME UNCHANGED moveVars PROVE OnlyOurs'
  BY <1>42 DEF moveVars
<1> HIDE DEF MoveTyped, Then, rest, Working, OnDisk, ChangesKey, Moves, Repairs
<1> QED
  BY <1>1, <1>2, <1>3, <1>4, <1>5, <1>6, <1>7, <1>8, <1>9, <1>10, <1>11, <1>12, <1>13, <1>14,
     <1>15, <1>16, <1>17, <1>18, <1>19, <1>20, <1>21, <1>22, <1>23, <1>24, <1>25, <1>26, <1>27,
     <1>28, <1>29, <1>30, <1>31, <1>32, <1>33, <1>34, <1>35, <1>36, <1>37, <1>38, <1>39, <1>40,
     <1>41, <1>42
    DEF MoveNext, MoveMachine, ChangeKey, Move, Abort, Boot

LEMMA MigrationKept ==
  ASSUME Heeds, MoveTyped, MoveTyped', Working, OnDisk, ChangesKey, Moves, Repairs, ~torn', [MoveNext]_moveVars
  PROVE  OnDisk' /\ ChangesKey' /\ Moves' /\ Repairs'
<1> USE Names, Records, Places, AtFirstPart, Unmoved DEF MoveTyped, Then, rest
<1> USE DEF Working, OnDisk, ChangesKey, Moves, Repairs, Full, Clean, Whole, NothingBeside,
           InBackup, Rekeyed, Converted, Rewritten, Stored,
           KeySteps, MoveSteps, MovedSteps, AbortSteps
<1>1. ASSUME RemovesBackup("clear_backup", "make_backup")
      PROVE  OnDisk' /\ ChangesKey' /\ Moves' /\ Repairs'
  <2>1. BackupGone
    BY <1>1, BackupGoes DEF RemovesBackup
  <2> QED
    BY <1>1, <2>1 DEF RemovesBackup, BackupGone
<1>2. ASSUME MakeBackup PROVE OnDisk' /\ ChangesKey' /\ Moves' /\ Repairs'
  BY <1>2 DEF MakeBackup
<1>3. ASSUME Copies("back_up", "journal_key", plan.from, "backup")
      PROVE  OnDisk' /\ ChangesKey' /\ Moves' /\ Repairs'
  <2>1. Copied("back_up", "journal_key", plan.from, "backup")
    BY <1>3, CopiesDoes
  <2> QED
    BY <1>3, <2>1 DEF Copied, Walked, Changed
<1>4. ASSUME Journals("journal_key", "rekey", Staged("rekeying"))
      PROVE  OnDisk' /\ ChangesKey' /\ Moves' /\ Repairs'
  BY <1>4 DEF Journals
<1>5. ASSUME Rewrites("rekey", "rekeyed", "journal_notes", "db")
      PROVE  OnDisk' /\ ChangesKey' /\ Moves' /\ Repairs'
  <2>1. Rewrote("rekey", "rekeyed", "journal_notes", "db")
    BY <1>5, RewritesDoes
  <2> QED
    BY <1>5, <2>1 DEF Rewrote, Changed
<1>6. ASSUME Journals("journal_notes", "convert", Staged("markdown"))
      PROVE  OnDisk' /\ ChangesKey' /\ Moves' /\ Repairs'
  BY <1>6 DEF Journals
<1>7. ASSUME Rewrites("convert", "converted", "convert_sidecars", "notes")
      PROVE  OnDisk' /\ ChangesKey' /\ Moves' /\ Repairs'
  <2>1. Rewrote("convert", "converted", "convert_sidecars", "notes")
    BY <1>7, RewritesDoes
  <2> QED
    BY <1>7, <2>1 DEF Rewrote, Changed
<1>8. ASSUME Rewrites("convert_sidecars", "converted_sidecars", "journal_final", "sidecars")
      PROVE  OnDisk' /\ ChangesKey' /\ Moves' /\ Repairs'
  <2>1. Rewrote("convert_sidecars", "converted_sidecars", "journal_final", "sidecars")
    BY <1>8, RewritesDoes
  <2> QED
    BY <1>8, <2>1 DEF Rewrote, Changed
<1>9. ASSUME Journals("journal_final", "store_meta", Staged("finalizing"))
      PROVE  OnDisk' /\ ChangesKey' /\ Moves' /\ Repairs'
  BY <1>9 DEF Journals
<1>10. ASSUME StoreMeta PROVE OnDisk' /\ ChangesKey' /\ Moves' /\ Repairs'
  <2>1. UNCHANGED <<marker, kept, journal>> /\ Changed(plan.from, "meta", plan.new)
    BY <1>10, PutsDoes DEF StoreMeta
  <2> QED
    BY <1>10, <2>1 DEF StoreMeta, Changed
<1>11. ASSUME SwapSession PROVE OnDisk' /\ ChangesKey' /\ Moves' /\ Repairs'
  BY <1>11 DEF SwapSession
<1>12. ASSUME RemovesBackup("remove_backup", "clear_key_journal")
       PROVE  OnDisk' /\ ChangesKey' /\ Moves' /\ Repairs'
  <2>1. BackupGone
    BY <1>12, BackupGoes DEF RemovesBackup
  <2> QED
    BY <1>12, <2>1 DEF RemovesBackup, BackupGone
<1>13. ASSUME Journals("clear_key_journal", IF plan.move THEN "journal_move" ELSE "idle", NoJournal)
       PROVE  OnDisk' /\ ChangesKey' /\ Moves' /\ Repairs'
  BY <1>13 DEF Journals
<1>14. ASSUME Journals("journal_move", "recheck",
              [stage |-> "relocating", from |-> plan.from, backup |-> FALSE, target |-> To])
       PROVE  OnDisk' /\ ChangesKey' /\ Moves' /\ Repairs'
  BY <1>14 DEF Journals
<1>15. ASSUME Recheck PROVE OnDisk' /\ ChangesKey' /\ Moves' /\ Repairs'
  BY <1>15 DEF Recheck, Journals
<1>16. ASSUME Marks("mark", "copy", marker \cup {To})
       PROVE  OnDisk' /\ ChangesKey' /\ Moves' /\ Repairs'
  BY <1>16 DEF Marks
<1>17. ASSUME Copies("copy", "open_copy", plan.from, To)
       PROVE  OnDisk' /\ ChangesKey' /\ Moves' /\ Repairs'
  <2>1. Copied("copy", "open_copy", plan.from, To)
    BY <1>17, CopiesDoes
  <2> QED
    BY <1>17, <2>1 DEF Copied, Walked, Changed
<1>18. ASSUME OpenCopy PROVE OnDisk' /\ ChangesKey' /\ Moves' /\ Repairs'
  BY <1>18 DEF OpenCopy
<1>19. ASSUME Commit PROVE OnDisk' /\ ChangesKey' /\ Moves' /\ Repairs'
  BY <1>19 DEF Commit
<1>20. ASSUME Deletes("delete_source", "unmark", plan.from)
       PROVE  OnDisk' /\ ChangesKey' /\ Moves' /\ Repairs'
  <2>1. Deleted("delete_source", "unmark", plan.from)
    BY <1>20, DeletesDoes
  <2> QED
    BY <1>20, <2>1 DEF Deleted, Walked, Changed
<1>21. ASSUME Marks("unmark", "clear_move_journal", marker \ {To})
       PROVE  OnDisk' /\ ChangesKey' /\ Moves' /\ Repairs'
  BY <1>21 DEF Marks
<1>22. ASSUME NEW j \in {journal, NoJournal}, Journals("clear_move_journal", "idle", j)
       PROVE  OnDisk' /\ ChangesKey' /\ Moves' /\ Repairs'
  BY <1>22 DEF Journals
<1>23. ASSUME Discards("discard", "discard_marker", "clear_aborted", To)
       PROVE  OnDisk' /\ ChangesKey' /\ Moves' /\ Repairs'
  <2>1. CASE To \in marker /\ Deletes("discard", "discard_marker", To)
    <3>1. Deleted("discard", "discard_marker", To)
      BY <2>1, DeletesDoes
    <3> QED
      BY <2>1, <3>1 DEF Deleted, Walked, Changed
  <2>2. CASE ~(To \in marker /\ Deletes("discard", "discard_marker", To))
    BY <1>23, <2>2 DEF Discards, Marks
  <2> QED
    BY <2>1, <2>2
<1>24. ASSUME Journals("clear_aborted", "reopen", NoJournal)
       PROVE  OnDisk' /\ ChangesKey' /\ Moves' /\ Repairs'
  BY <1>24 DEF Journals
<1>25. ASSUME Reopen PROVE OnDisk' /\ ChangesKey' /\ Moves' /\ Repairs'
  BY <1>25 DEF Reopen
<1>26. ASSUME Recover PROVE OnDisk' /\ ChangesKey' /\ Moves' /\ Repairs'
  <2>1. CASE journal.stage = "none"
    BY <1>26, <2>1 DEF Recover, Repair
  <2>2. CASE journal.stage \in InPlace
    BY <1>26, <2>2 DEF Recover, Repair
  <2>3. CASE journal.stage = "relocating"
    BY <1>26, <2>3 DEF Recover, Repair
  <2> QED
    BY <2>1, <2>2, <2>3 DEF JournalType
<1>27. ASSUME Deletes("clear_live", "restore", journal.from)
       PROVE  OnDisk' /\ ChangesKey' /\ Moves' /\ Repairs'
  <2>1. Deleted("clear_live", "restore", journal.from)
    BY <1>27, DeletesDoes
  <2> QED
    BY <1>27, <2>1 DEF Deleted, Walked, Changed
<1>28. ASSUME Copies("restore", "remove_restored", "backup", journal.from)
       PROVE  OnDisk' /\ ChangesKey' /\ Moves' /\ Repairs'
  <2>1. Copied("restore", "remove_restored", "backup", journal.from)
    BY <1>28, CopiesDoes
  <2> QED
    BY <1>28, <2>1 DEF Copied, Walked, Changed
<1>29. ASSUME RestoreFails PROVE OnDisk' /\ ChangesKey' /\ Moves' /\ Repairs'
  BY <1>29 DEF RestoreFails
<1>30. ASSUME RemovesBackup("remove_restored", "discard_target")
       PROVE  OnDisk' /\ ChangesKey' /\ Moves' /\ Repairs'
  <2>1. BackupGone
    BY <1>30, BackupGoes DEF RemovesBackup
  <2> QED
    BY <1>30, <2>1 DEF RemovesBackup, BackupGone
<1>31. ASSUME Discards("discard_target", "discard_target_marker", "clear_recovered", journal.target)
       PROVE  OnDisk' /\ ChangesKey' /\ Moves' /\ Repairs'
  <2>0. journal.stage \in InPlace \/ journal.stage = "relocating" \/ journal.stage = "none"
    BY DEF JournalType
  <2>1. CASE journal.target \in marker /\ Deletes("discard_target", "discard_target_marker", journal.target)
    <3>1. Deleted("discard_target", "discard_target_marker", journal.target)
      BY <2>1, DeletesDoes
    <3>2. journal.stage = "relocating" /\ pointer = journal.from /\ kept' = kept /\ journal' = journal
      BY <2>0, <2>1, <3>1 DEF Deleted, Walked
    <3>3. \A p \in Behind \cup {Order[part]} : disk'[journal.target][p] \in {Nothing, Foreign}
      BY <2>1, <3>1 DEF Deleted, Walked, Changed
    <3>4. OnDisk'
      BY <3>1, <3>2 DEF Deleted, Walked, Changed
    <3>5. ChangesKey' /\ Moves'
      BY <3>1, <3>2 DEF Deleted, Walked
    <3>6. Repairs'
      BY <3>1, <3>2, <3>3 DEF Deleted, Walked
    <3> QED
      BY <3>4, <3>5, <3>6
  <2>2. CASE journal.target \notin marker /\ Then("discard_target", "clear_recovered")
             /\ UNCHANGED <<disk, marker, kept, journal, rest>>
    <3>1. Whole(pointer) /\ NothingBeside
      BY <2>0, <2>2
    <3> QED
      BY <2>2, <3>1
  <2>3. CASE Marks("discard_target_marker", "clear_recovered", marker \ {journal.target})
    <3>1. Whole(pointer) /\ Clean(Other(pointer)) /\ marker' = {}
      BY <2>3 DEF Marks
    <3> QED
      BY <2>3, <3>1 DEF Marks
  <2> QED
    BY <1>31, <2>1, <2>2, <2>3 DEF Discards
<1>32. ASSUME Deletes("finish_move", "finish_unmark", journal.from)
       PROVE  OnDisk' /\ ChangesKey' /\ Moves' /\ Repairs'
  <2>1. Deleted("finish_move", "finish_unmark", journal.from)
    BY <1>32, DeletesDoes
  <2> QED
    BY <1>32, <2>1 DEF Deleted, Walked, Changed
<1>33. ASSUME Marks("finish_unmark", "clear_recovered", marker \ {journal.target})
       PROVE  OnDisk' /\ ChangesKey' /\ Moves' /\ Repairs'
  BY <1>33 DEF Marks
<1>34. ASSUME Journals("clear_recovered", "open", NoJournal)
       PROVE  OnDisk' /\ ChangesKey' /\ Moves' /\ Repairs'
  BY <1>34 DEF Journals
<1>35. ASSUME Open PROVE OnDisk' /\ ChangesKey' /\ Moves' /\ Repairs'
  BY <1>35 DEF Open
<1>36. ASSUME Begin PROVE OnDisk' /\ ChangesKey' /\ Moves' /\ Repairs'
  BY <1>36 DEF Begin
<1>37. ASSUME Fails PROVE OnDisk' /\ ChangesKey' /\ Moves' /\ Repairs'
  BY <1>37 DEF Fails, CannotFail
<1>38. ASSUME Stops PROVE OnDisk' /\ ChangesKey' /\ Moves' /\ Repairs'
  BY <1>38 DEF Stops
<1>39. ASSUME TearsBackup PROVE OnDisk' /\ ChangesKey' /\ Moves' /\ Repairs'
  <2>1. BackupTorn
    BY <1>39, BackupTears DEF TearsBackup
  <2>2. ~torn' => ~journal.backup
    BY <1>39, Zenon DEF TearsBackup
  <2> QED
    BY <1>39, <2>1, <2>2 DEF TearsBackup, BackupTorn
<1>40. ASSUME Quit PROVE OnDisk' /\ ChangesKey' /\ Moves' /\ Repairs'
  BY <1>40 DEF Quit
<1>41. ASSUME NEW r \in Roots, Appears(r) PROVE OnDisk' /\ ChangesKey' /\ Moves' /\ Repairs'
  <2>1. Arrived(r)
    BY <1>41, TheirsAppears DEF Appears
  <2>2. ~blind' => ~blind /\ step # "mark"
    BY <1>41, Zenon DEF Appears
  <2> QED
    BY <1>41, <2>1, <2>2 DEF Appears, Arrived
<1>42. ASSUME UNCHANGED moveVars PROVE OnDisk' /\ ChangesKey' /\ Moves' /\ Repairs'
  BY <1>42 DEF moveVars
<1> HIDE DEF MoveTyped, Then, rest, Working, OnDisk, ChangesKey, Moves, Repairs
<1> QED
  BY <1>1, <1>2, <1>3, <1>4, <1>5, <1>6, <1>7, <1>8, <1>9, <1>10, <1>11, <1>12, <1>13, <1>14,
     <1>15, <1>16, <1>17, <1>18, <1>19, <1>20, <1>21, <1>22, <1>23, <1>24, <1>25, <1>26, <1>27,
     <1>28, <1>29, <1>30, <1>31, <1>32, <1>33, <1>34, <1>35, <1>36, <1>37, <1>38, <1>39, <1>40,
     <1>41, <1>42
    DEF MoveNext, MoveMachine, ChangeKey, Move, Abort, Boot

(* Once torn, for good. *)
LEMMA TornStays == torn /\ [MoveNext]_moveVars => torn'
<1> SUFFICES ASSUME torn, [MoveNext]_moveVars PROVE torn'
  OBVIOUS
<1>1. CASE TearsBackup
  BY <1>1, Zenon DEF TearsBackup
<1>2. CASE ~TearsBackup
  BY <1>2
    DEF MoveNext, MoveMachine, ChangeKey, Move, Abort, Boot, Begin, Fails, Stops, Quit, Appears,
        moveVars, rest,
     RemovesBackup, MakeBackup, Copies, Journals, Rewrites, StoreMeta, SwapSession, Recheck, Marks, OpenCopy, Commit,
     Deletes, Discards, Reopen, Recover, RestoreFails, Open
<1> QED
  BY <1>1, <1>2

LEMMA MoveInvAtFirst == MoveInit => MoveInv
<1> SUFFICES ASSUME MoveInit PROVE MoveInv
  OBVIOUS
<1> USE Names, Records DEF MoveInit
<1>0. /\ disk \in Disks /\ \A p \in Parts : disk["here"][p] = 0 /\ disk["there"][p] = Nothing
      /\ disk["backup"]["meta"] = Nothing
  BY MoveAssumption DEF Disks, Folders, Roots, Empty, Contents, Keys, Parts
<1>1. MoveTyped
  BY <1>0, MoveAssumption DEF MoveTyped, PlanType, Keys
<1>2. Working /\ OnlyOurs
  BY <1>0
    DEF Working, OnlyOurs, KeySteps, MoveSteps, MovedSteps, AbortSteps, InPlace, NoJournal,
        Nothing, Foreign
<1>3. OnDisk
  BY <1>0, MoveAssumption DEF OnDisk, Whole, NothingBeside, Clean, Keys, Other, InPlace, NoJournal
<1>4. ChangesKey /\ Moves /\ Repairs
  BY DEF ChangesKey, Moves, Repairs, InBackup, Rekeyed, Converted, Rewritten, Stored, KeySteps,
         MoveSteps, MovedSteps, AbortSteps
<1> QED
  BY <1>1, <1>2, <1>3, <1>4 DEF MoveInv

LEMMA MoveInvKept == MoveInv /\ [MoveNext]_moveVars => MoveInv'
<1> SUFFICES ASSUME MoveInv, [MoveNext]_moveVars PROVE MoveInv'
  OBVIOUS
<1>1. MoveTyped' /\ Working' /\ OnlyOurs'
  BY MoveTypedKept, WorkingKept, OnlyOursKept DEF MoveInv
<1>2. ASSUME Heeds, ~torn' PROVE OnDisk' /\ ChangesKey' /\ Moves' /\ Repairs'
  BY <1>1, <1>2, TornStays, MigrationKept DEF MoveInv
<1> QED
  BY <1>1, <1>2 DEF MoveInv

(* At every step of a change, a move or a repair the vault's invariant      *)
(* holds, types included, for any number of keys and of crashes.            *)
THEOREM MoveInvariant == MoveSpec => []MoveInv
BY MoveInvAtFirst, MoveInvKept, PTL DEF MoveSpec

(* No crash in a change of key, a move, their undoing or their repair       *)
(* leaves the vault whole nowhere, nor a settled vault anywhere but where   *)
(* the pointer says, for any number of keys and of crashes: for the user    *)
(* who restarts after a failure, and the torn backup aside.                 *)
THEOREM NeverLostSafe ==
  ASSUME Heeds
  PROVE  MoveSpec => []NeverLost
<1>1. MoveInv => NeverLost
  <2> SUFFICES ASSUME MoveInv, ~torn PROVE AlwaysWhole /\ (AtRest => RestsWhole)
    BY DEF NeverLost
  <2>1. OnDisk /\ MoveTyped
    BY DEF MoveInv
  <2>2. journal.stage \in InPlace \/ journal.stage = "relocating" \/ journal.stage = "none"
    BY <2>1 DEF MoveTyped, JournalType
  <2>3. Whole(pointer) \/ Whole("backup")
    BY <2>1, <2>2 DEF OnDisk
  <2>4. AtRest => RestsWhole
    BY <2>1, Records DEF OnDisk, AtRest, RestsWhole, NothingBeside, Clean
  <2> QED
    BY <2>1, <2>3, <2>4, Names DEF AlwaysWhole, MoveTyped
<1> QED
  BY <1>1, MoveInvariant, PTL

(* What is another's for sure: a vault of theirs has a foreign metadata.    *)
TheirsStay == \A r \in Roots : disk[r] = Theirs /\ ~blind /\ ~ClearsSource => disk'[r] = Theirs

LEMMA TheirsUntouched ==
  ASSUME MoveTyped, Working, OnlyOurs, [MoveNext]_moveVars
  PROVE  TheirsStay
<1> SUFFICES ASSUME NEW r \in Roots, disk[r] = Theirs, ~blind, ~ClearsSource
             PROVE  disk'[r] = Theirs
  BY DEF TheirsStay
<1>0. r # pointer /\ r \notin marker /\ r # "backup" /\ r \in Folders
  BY Names DEF OnlyOurs, Theirs
<1>1. CASE RemovesBackup("clear_backup", "make_backup")
  <2>1. BackupGone
    BY <1>1, Names, Places, BackupGoes DEF MoveTyped, RemovesBackup
  <2> QED
    BY <1>0, <1>1, <2>1, Names
      DEF BackupGone, Walked, Changed, Working, KeySteps, MoveSteps, MovedSteps, AbortSteps,
          MoveTyped, ClearsSource
<1>2. CASE Copies("back_up", "journal_key", plan.from, "backup")
  <2>1. Copied("back_up", "journal_key", plan.from, "backup")
    BY <1>2, Names, Places, CopiesDoes DEF MoveTyped
  <2> QED
    BY <1>0, <1>2, <2>1, Names
      DEF Copied, Walked, Changed, Working, KeySteps, MoveSteps, MovedSteps, AbortSteps,
          MoveTyped, ClearsSource
<1>3. CASE Rewrites("rekey", "rekeyed", "journal_notes", "db")
  <2>1. Rewrote("rekey", "rekeyed", "journal_notes", "db")
    BY <1>3, Names, Places, RewritesDoes DEF MoveTyped
  <2> QED
    BY <1>0, <1>3, <2>1, Names
      DEF Rewrote, Walked, Changed, Working, KeySteps, MoveSteps, MovedSteps, AbortSteps,
          MoveTyped, ClearsSource
<1>4. CASE Rewrites("convert", "converted", "convert_sidecars", "notes")
  <2>1. Rewrote("convert", "converted", "convert_sidecars", "notes")
    BY <1>4, Names, Places, RewritesDoes DEF MoveTyped
  <2> QED
    BY <1>0, <1>4, <2>1, Names
      DEF Rewrote, Walked, Changed, Working, KeySteps, MoveSteps, MovedSteps, AbortSteps,
          MoveTyped, ClearsSource
<1>5. CASE Rewrites("convert_sidecars", "converted_sidecars", "journal_final", "sidecars")
  <2>1. Rewrote("convert_sidecars", "converted_sidecars", "journal_final", "sidecars")
    BY <1>5, Names, Places, RewritesDoes DEF MoveTyped
  <2> QED
    BY <1>0, <1>5, <2>1, Names
      DEF Rewrote, Walked, Changed, Working, KeySteps, MoveSteps, MovedSteps, AbortSteps,
          MoveTyped, ClearsSource
<1>6. CASE StoreMeta
  <2>1. Changed(plan.from, "meta", plan.new)
    BY <1>6, Names, Places, PutsDoes DEF MoveTyped, StoreMeta
  <2> QED
    <3>1. plan.from = pointer
      BY <1>6 DEF StoreMeta, Then, Working, KeySteps
    <3> QED
      BY <1>0, <2>1, <3>1 DEF Changed
<1>7. CASE RemovesBackup("remove_backup", "clear_key_journal")
  <2>1. BackupGone
    BY <1>7, Names, Places, BackupGoes DEF MoveTyped, RemovesBackup
  <2> QED
    BY <1>0, <1>7, <2>1, Names
      DEF BackupGone, Walked, Changed, Working, KeySteps, MoveSteps, MovedSteps, AbortSteps,
          MoveTyped, ClearsSource
<1>8. CASE Copies("copy", "open_copy", plan.from, To)
  <2>1. Copied("copy", "open_copy", plan.from, To)
    BY <1>8, Names, Places, CopiesDoes DEF MoveTyped
  <2> QED
    BY <1>0, <1>8, <2>1, Names
      DEF Copied, Walked, Changed, Working, KeySteps, MoveSteps, MovedSteps, AbortSteps,
          MoveTyped, ClearsSource
<1>9. CASE Deletes("delete_source", "unmark", plan.from)
  <2>1. Deleted("delete_source", "unmark", plan.from)
    BY <1>9, Names, Places, DeletesDoes DEF MoveTyped
  <2> QED
    BY <1>0, <1>9, <2>1, Names
      DEF Deleted, Walked, Changed, Working, KeySteps, MoveSteps, MovedSteps, AbortSteps,
          MoveTyped, ClearsSource
<1>10. CASE Discards("discard", "discard_marker", "clear_aborted", To)
  <2>1. CASE To \in marker /\ Deletes("discard", "discard_marker", To)
    <3>1. Deleted("discard", "discard_marker", To)
      BY <2>1, Places, DeletesDoes
    <3> QED
      BY <1>0, <2>1, <3>1 DEF Deleted, Changed
  <2>2. CASE ~(To \in marker /\ Deletes("discard", "discard_marker", To))
    BY <1>10, <2>2 DEF Discards, Marks
  <2> QED
    BY <2>1, <2>2
<1>11. CASE Deletes("clear_live", "restore", journal.from)
  <2>1. Deleted("clear_live", "restore", journal.from)
    BY <1>11, Names, Places, DeletesDoes DEF MoveTyped
  <2> QED
    BY <1>0, <1>11, <2>1, Names
      DEF Deleted, Walked, Changed, Working, KeySteps, MoveSteps, MovedSteps, AbortSteps,
          MoveTyped, ClearsSource
<1>12. CASE Copies("restore", "remove_restored", "backup", journal.from)
  <2>1. Copied("restore", "remove_restored", "backup", journal.from)
    BY <1>12, Names, Places, CopiesDoes DEF MoveTyped
  <2> QED
    BY <1>0, <1>12, <2>1, Names
      DEF Copied, Walked, Changed, Working, KeySteps, MoveSteps, MovedSteps, AbortSteps,
          MoveTyped, ClearsSource
<1>13. CASE RemovesBackup("remove_restored", "discard_target")
  <2>1. BackupGone
    BY <1>13, Names, Places, BackupGoes DEF MoveTyped, RemovesBackup
  <2> QED
    BY <1>0, <1>13, <2>1, Names
      DEF BackupGone, Walked, Changed, Working, KeySteps, MoveSteps, MovedSteps, AbortSteps,
          MoveTyped, ClearsSource
<1>14. CASE Discards("discard_target", "discard_target_marker", "clear_recovered", journal.target)
  <2>1. CASE journal.target \in marker /\ Deletes("discard_target", "discard_target_marker", journal.target)
    <3>1. Deleted("discard_target", "discard_target_marker", journal.target)
      BY <2>1, Places, DeletesDoes
    <3> QED
      BY <1>0, <2>1, <3>1 DEF Deleted, Changed
  <2>2. CASE ~(journal.target \in marker /\ Deletes("discard_target", "discard_target_marker", journal.target))
    BY <1>14, <2>2 DEF Discards, Marks
  <2> QED
    BY <2>1, <2>2
<1>15. CASE Deletes("finish_move", "finish_unmark", journal.from)
  <2>1. Deleted("finish_move", "finish_unmark", journal.from)
    BY <1>15, Names, Places, DeletesDoes DEF MoveTyped
  <2> QED
    BY <1>0, <1>15, <2>1, Names
      DEF Deleted, Walked, Changed, Working, KeySteps, MoveSteps, MovedSteps, AbortSteps,
          MoveTyped, ClearsSource
<1>16. CASE TearsBackup
  <2>1. BackupTorn
    BY <1>16, Names, Places, BackupTears DEF MoveTyped, TearsBackup
  <2> QED
    BY <1>0, <1>16, <2>1, Names
      DEF BackupTorn, Walked, Changed, Working, KeySteps, MoveSteps, MovedSteps, AbortSteps,
          MoveTyped, ClearsSource
<1>17. CASE \E q \in Roots : Appears(q)
  <2>1. PICK q \in Roots : Appears(q)
    BY <1>17
  <2>2. q # r
    BY <2>1 DEF Appears, Theirs, Empty, Foreign, Nothing, Parts
  <2> QED
    BY <1>0, <2>1, <2>2, TheirsAppears DEF Appears, Arrived
<1>18. CASE UNCHANGED disk
  BY <1>18
<1> QED
  BY <1>1, <1>2, <1>3, <1>4, <1>5, <1>6, <1>7, <1>8, <1>9, <1>10, <1>11, <1>12, <1>13, <1>14,
     <1>15, <1>16, <1>17, <1>18
  DEF MoveNext, MoveMachine, ChangeKey, Move, Abort, Boot, Begin, Fails, Stops, Quit, moveVars,
      rest, MakeBackup, Journals,
      SwapSession, Recheck, Marks, OpenCopy, Commit, Reopen, Recover, RestoreFails, Open

(* Another account's vault in the folder a move goes to is not touched by   *)
(* the move, its undoing or a repair, unless it appeared between the second *)
(* look and the marker; also for a user who goes on after a failure.        *)
THEOREM TargetKeptSafe == MoveSpec => TargetKept
<1>1. MoveInv /\ [MoveNext]_moveVars => [TheirsStay]_moveVars
  BY TheirsUntouched DEF MoveInv
<1> QED
  BY <1>1, MoveInvariant, PTL DEF MoveSpec, TargetKept, TheirsStay
=============================================================================
