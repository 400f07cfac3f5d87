---------------------------- MODULE WritesProofs ----------------------------
(***************************************************************************)
(* Theorems about OneWrites, for any number of writes and of changes made  *)
(* by other clients: a delete the user took back, or that PM dropped as it *)
(* quit, is never sent; what lands, at once or late, lands on what the     *)
(* user saw; and what the user is told of a write is so.                   *)
(*                                                                         *)
(* One invariant carries all three.  It says which copies of a request can *)
(* still land (all sent on the etag Google has), what a write may have     *)
(* left in the event at each point of its way (nothing before it is sent,  *)
(* and afterwards only what it sent), and that what a write sets differs   *)
(* from what the user saw, so that a look at the event tells whether the   *)
(* write is in it.                                                         *)
(***************************************************************************)
EXTENDS OneWrites, TLAPS

UpTo(n) == {k \in Nat : k <= n}
Kinds == {"save", "move", "undo", "delete"}
Whole == [Fields -> FieldValues]   \* of every field
Jobs ==
  [kind : Kinds \cup {"none"}, at : {"none", "read", "sent", "look", "show"}, n : UpTo(asked),
   puts : Some, saw : Some, sent : [puts : Some, saw : Some], round : {1, 2}, tag : Nat,
   attempt : {1, 2}, maybe : BOOLEAN, heard : Verdicts \cup {"none", "lost"}]
CopiesOut == [n : UpTo(asked) \ {0}, kind : Kinds, puts : Some, saw : Some, tag : Nat]

\* with a bound on the numbers that the writes asked for give
WritesTyped ==
  /\ event \in [there : BOOLEAN, holds : Whole, etag : Nat,
                who : [Fields \cup {"there"} -> UpTo(asked)]]
  /\ late \subseteq CopiesOut
  /\ asked \in Nat /\ letGo \subseteq UpTo(asked) \ {0}
  /\ mirrored \in [there : BOOLEAN, holds : Whole]
  /\ session \in Whole \cup {NoFields} /\ undo \in [was : Some, left : Some]
  /\ claimed \in BOOLEAN /\ quitting \in BOOLEAN /\ job \in Jobs
  /\ hold \in [at : {"none", "waiting", "due"}, n : UpTo(asked), saw : Some]
  /\ heldEntry \in UpTo(asked)

\* nothing of write n is in the event, and nothing of it will come
NotIn(n) ==
  /\ \A c \in late : c.n # n
  /\ event.who["there"] # n
  /\ event.there => \A f \in Fields : event.who[f] # n
Unsent(n) == (\A c \in late : c.n # n) /\ \A f \in Fields \cup {"there"} : event.who[f] # n

\* one claim: a write under way, or a held delete, which its entry names
OneAtATime ==
  /\ job.at = "none" => job = NoWrite
  /\ job.at # "none" => claimed /\ hold.at = "none" /\ job.n # 0 /\ job.kind # "none"
  /\ hold.at # "none" => claimed /\ hold.n # 0
  /\ heldEntry # 0 =>
       hold.at # "none" /\ hold.n = heldEntry /\ heldEntry \notin letGo /\ ~quitting
  /\ job.kind = "save" => session # NoFields

\* what has not gone out, or was certainly not taken, is not in the event
NotYet ==
  /\ hold.at # "none" => Unsent(hold.n)
  /\ job.at = "read" /\ job.round = 1 => Unsent(job.n)
  /\ job.at \in {"read", "show"} \/ (job.at = "sent" /\ ~job.maybe) => NotIn(job.n)

\* a copy that may still land was sent on the etag Google has, and Google
\* has moved on from no other
LateSeen == \A c \in late : Accepts(c) /\ \A f \in DOMAIN c.saw : event.holds[f] = c.saw[f]
LateIsOfJob == \A c \in late : c.n = job.n => c = CopyOf(job)

\* a request whose etag still stands would land on what the user saw
JobSeen ==
  /\ job.at # "look" => job.heard = "none"
  /\ job.at \in {"sent", "look"} =>
       /\ job.tag <= event.etag
       /\ job.tag = event.etag => \A f \in DOMAIN job.sent.saw : event.holds[f] = job.sent.saw[f]
       /\ job.heard = "conflict" => job.tag # event.etag
       /\ job.at = "look" => job.heard # "none" /\ (job.heard = "gone" => job.kind # "delete")

\* a write changes every field it sets
Differ(puts, saw) == DOMAIN puts = DOMAIN saw /\ \A f \in DOMAIN puts : puts[f] # saw[f]
Differs ==
  /\ Differ(undo.was, undo.left)
  /\ job.kind # "delete" => Differ(job.puts, job.saw) /\ Differ(job.sent.puts, job.sent.saw)
  /\ job.kind = "delete" => job.puts = NoFields /\ job.sent.puts = NoFields
  /\ job.at = "none" \/ (job.at = "read" /\ job.round = 1) => job.sent = NothingSent

\* what a write left in the event is what it sent
GoneForGood == event.who["there"] # 0 => ~event.there
Wrote ==
  job.n # 0 =>
    /\ event.who["there"] = job.n => job.kind = "delete"
    /\ event.there => \A f \in Fields : event.who[f] = job.n =>
         f \in DOMAIN job.sent.puts /\ event.holds[f] = job.sent.puts[f]

WritesInv ==
  /\ WritesTyped /\ OneAtATime /\ NotYet /\ LateSeen /\ LateIsOfJob /\ JobSeen /\ Differs
  /\ GoneForGood /\ Wrote /\ LetGoIsKept

\* how a write ends, as far as the invariant is about it
Ended ==
  /\ job.at # "none" /\ job' = NoWrite /\ claimed' = FALSE /\ UNCHANGED <<held, asked>>
  /\ session' \in Whole \cup {NoFields} /\ mirrored' \in [there : BOOLEAN, holds : Whole]
  /\ undo' \in [was : Some, left : Some] /\ Differ(undo'.was, undo'.left)

-----------------------------------------------------------------------------
(* Records of some fields, and what Google does with a request it takes.   *)

LEMMA Empties == NoFields \in Some /\ DOMAIN NoFields = {} /\ Differ(NoFields, NoFields)
<1>1. NoFields \in [{} -> FieldValues]
  BY DEF NoFields
<1> QED
  BY <1>1 DEF Some, Differ

LEMMA SomeIs ==
  /\ \A x \in Some : DOMAIN x \subseteq Fields /\ \A f \in DOMAIN x : x[f] \in FieldValues
  /\ Whole \subseteq Some
  /\ \A S \in SUBSET Fields, h \in Some : S \subseteq DOMAIN h => Only(S, h) \in Some
     /\ DOMAIN Only(S, h) = S
  /\ \A h \in Whole : DOMAIN h = Fields
  /\ \A x \in Some, h \in Whole : Onto(x, h) \in Whole
<1>1. \A x \in Some : DOMAIN x \subseteq Fields /\ \A f \in DOMAIN x : x[f] \in FieldValues
  BY DEF Some
<1>2. Whole \subseteq Some
  BY DEF Some, Whole
<1>3. ASSUME NEW S \in SUBSET Fields, NEW h \in Some, S \subseteq DOMAIN h
      PROVE  Only(S, h) \in Some /\ DOMAIN Only(S, h) = S
  <2>1. [f \in S |-> h[f]] \in [S -> FieldValues]
    BY <1>1, <1>3
  <2> QED
    BY <2>1 DEF Some, Only
<1>4. \A x \in Some, h \in Whole : Onto(x, h) \in Whole
  BY <1>1 DEF Onto, Whole
<1> QED
  BY <1>1, <1>2, <1>3, <1>4 DEF Whole

LEMMA NoWriteIs ==
  ASSUME asked \in Nat
  PROVE  /\ NoWrite \in Jobs /\ NoWrite.heard = "none" /\ NoWrite.kind = "none"
            /\ NoWrite.at = "none" /\ NoWrite.n = 0
         /\ NoWrite.puts = NoFields /\ NoWrite.saw = NoFields /\ NoWrite.sent = NothingSent
         /\ NothingSent.puts = NoFields /\ NothingSent.saw = NoFields /\ NoWrite.maybe = FALSE
  BY Empties DEF NoWrite, Jobs, NothingSent, UpTo

LEMMA Landed ==
  ASSUME WritesTyped, NEW c, c.n \in UpTo(asked), c.puts \in Some, Takes(c)
  PROVE  /\ event'
              \in [there : BOOLEAN, holds : Whole, etag : Nat,
                   who : [Fields \cup {"there"} -> UpTo(asked)]]
         /\ late' = {} /\ event.there /\ event'.there = (c.kind # "delete")
            /\ event'.etag = event.etag + 1
         /\ event'.who["there"] = IF c.kind = "delete" THEN c.n ELSE event.who["there"]
         /\ \A f \in Fields :
              /\ event'.who[f] = IF f \in DOMAIN c.puts THEN c.n ELSE event.who[f]
              /\ event'.holds[f] = IF f \in DOMAIN c.puts THEN c.puts[f] ELSE event.holds[f]
<1>1. Onto(c.puts, event.holds) \in Whole
  BY SomeIs DEF WritesTyped
<1>2. "there" \notin Fields /\ DOMAIN event.who = Fields \cup {"there"} /\ event.etag + 1 \in Nat
  BY DEF WritesTyped, Fields
<1>3. "there" \notin DOMAIN c.puts
  BY <1>2, SomeIs
<1>4. event' = Applied(c) /\ late' = {} /\ event.there
  BY DEF Takes, Accepts
<1>5. \A f \in Fields :
        Onto(c.puts, event.holds)[f] = IF f \in DOMAIN c.puts THEN c.puts[f] ELSE event.holds[f]
  BY DEF Onto
<1>6. [f \in DOMAIN event.who |->
          IF f \in DOMAIN c.puts \/ (f = "there" /\ c.kind = "delete") THEN c.n ELSE event.who[f]]
        \in [Fields \cup {"there"} -> UpTo(asked)]
  BY <1>2 DEF WritesTyped
<1> QED
  BY <1>1, <1>2, <1>3, <1>4, <1>5, <1>6 DEF Applied

-----------------------------------------------------------------------------
(* Each move of Google's, of the user's and of PM's keeps the invariant.   *)

(* A copy that lands is a write of PM's on the etag it was sent on.        *)
LEMMA LandsLateKeeps ==
  ASSUME WritesInv, LandsLate
  PROVE  WritesInv'
<1>0. WritesTyped
  BY DEF WritesInv
<1>1. PICK c \in late : Takes(c)
  BY DEF LandsLate
<1>2. c \in CopiesOut /\ c.n # 0 /\ Accepts(c)
  BY <1>0, <1>1 DEF WritesTyped, CopiesOut, Takes
<1>3. /\ event'
           \in [there : BOOLEAN, holds : Whole, etag : Nat,
                who : [Fields \cup {"there"} -> UpTo(asked)]]
      /\ late' = {} /\ event.there /\ event'.there = (c.kind # "delete")
         /\ event'.etag = event.etag + 1
      /\ event'.who["there"] = IF c.kind = "delete" THEN c.n ELSE event.who["there"]
      /\ \A f \in Fields :
           /\ event'.who[f] = IF f \in DOMAIN c.puts THEN c.n ELSE event.who[f]
           /\ event'.holds[f] = IF f \in DOMAIN c.puts THEN c.puts[f] ELSE event.holds[f]
  BY <1>0, <1>1, <1>2, Landed DEF CopiesOut
<1>4. UNCHANGED <<mirrored, session, undo, claimed, job, hold, heldEntry, quitting, letGo, asked>>
  BY DEF LandsLate, atGoogle, shown, held
<1>types. WritesTyped'
  BY <1>0, <1>1, <1>2, <1>3, <1>4 DEF WritesTyped, CopiesOut, Jobs, UpTo
<1>one. OneAtATime'
  BY <1>1, <1>2, <1>3, <1>4 DEF WritesInv, OneAtATime
<1>yet. NotYet'
  BY <1>1, <1>2, <1>3, <1>4 DEF WritesInv, NotYet, NotIn, Unsent
<1>seen. LateSeen'
  BY <1>1, <1>2, <1>3, <1>4 DEF WritesInv, LateSeen, Accepts
<1>ofjob. LateIsOfJob'
  BY <1>1, <1>2, <1>3, <1>4 DEF WritesInv, LateIsOfJob, CopyOf
<1>jobseen. JobSeen'
  BY <1>0, <1>3, <1>4 DEF WritesInv, JobSeen, WritesTyped, Jobs
<1>differs. Differs'
  BY <1>1, <1>2, <1>3, <1>4 DEF WritesInv, Differs
<1>gone. GoneForGood'
  BY <1>1, <1>2, <1>3, <1>4 DEF WritesInv, GoneForGood
<1>wrote. Wrote'
  BY <1>1, <1>2, <1>3, <1>4
    DEF WritesInv, Wrote, OneAtATime, NotYet, LateIsOfJob, Differs, GoneForGood, NotIn, Unsent,
        CopyOf
<1>letgo. LetGoIsKept'
  BY <1>1, <1>2, <1>3, <1>4 DEF WritesInv, LetGoIsKept
<1> QED
  BY <1>types, <1>one, <1>yet, <1>seen, <1>ofjob, <1>jobseen, <1>differs, <1>gone, <1>wrote,
     <1>letgo
    DEF WritesInv

(* Another client's change: its fields are nobody's of PM's, and no copy   *)
(* stays.                                                                  *)
LEMMA OthersChangeKeeps ==
  ASSUME WritesInv, OthersChange
  PROVE  WritesInv'
<1>0. WritesTyped
  BY DEF WritesInv
<1>1. /\ event'
           \in [there : BOOLEAN, holds : Whole, etag : Nat,
                who : [Fields \cup {"there"} -> UpTo(asked)]]
      /\ event'.who["there"] = event.who["there"] /\ (event'.there => event.there) /\ event.there
         /\ late' = {}
      /\ \A f \in Fields : (event'.who[f] = event.who[f] /\ event'.holds[f] = event.holds[f])
         \/ event'.who[f] = 0
      /\ event'.etag > event.etag \/ (event'.etag = event.etag /\ event'.holds = event.holds)
  <2>1. CASE event' = [event EXCEPT !.there = FALSE]
    BY <1>0, <2>1 DEF OthersChange, WritesTyped
  <2>2. ASSUME NEW x \in Fields, NEW v \in FieldValues,
               event' = [event EXCEPT !.holds[x] = v, !.who[x] = 0, !.etag = @ + 1]
        PROVE  /\ event'
                    \in [there : BOOLEAN, holds : Whole, etag : Nat,
                         who : [Fields \cup {"there"} -> UpTo(asked)]]
               /\ event'.who["there"] = event.who["there"] /\ (event'.there => event.there)
                  /\ event.there /\ late' = {}
               /\ \A f \in Fields : (event'.who[f] = event.who[f] /\ event'.holds[f] = event.holds[f]) \/ event'.who[f] = 0
               /\ event'.etag > event.etag
                  \/ (event'.etag = event.etag /\ event'.holds = event.holds)
    <3>1. x # "there" /\ 0 \in UpTo(asked)
      BY <1>0 DEF Fields, WritesTyped, UpTo
    <3>2. event'.holds = [event.holds EXCEPT ![x] = v] /\ event'.who = [event.who EXCEPT ![x] = 0]
          /\ event'.there = event.there /\ event'.etag = event.etag + 1
      BY <1>0, <2>2 DEF WritesTyped
    <3>3. event'.holds \in Whole /\ event'.who \in [Fields \cup {"there"} -> UpTo(asked)]
      BY <1>0, <3>1, <3>2 DEF WritesTyped, Whole
    <3>4. \A g \in Fields : (event'.who[g] = event.who[g] /\ event'.holds[g] = event.holds[g])
          \/ event'.who[g] = 0
      BY <1>0, <3>2 DEF WritesTyped, Whole
    <3>5. event'.who["there"] = event.who["there"] /\ event'.etag > event.etag
      BY <1>0, <3>1, <3>2 DEF WritesTyped
    <3>6. event' = [there |-> event'.there, holds |-> event'.holds, etag |-> event'.etag,
                    who |-> event'.who]
      BY <1>0, <2>2 DEF WritesTyped
    <3>7. event.there /\ late' = {}
      BY DEF OthersChange
    <3>8. event'.there \in BOOLEAN /\ event'.etag \in Nat
      BY <1>0, <3>2 DEF WritesTyped
    <3>9. event'
            \in [there : BOOLEAN, holds : Whole, etag : Nat,
                 who : [Fields \cup {"there"} -> UpTo(asked)]]
      BY <3>3, <3>6, <3>8
    <3> QED
      BY <3>2, <3>4, <3>5, <3>7, <3>9
  <2> QED
    BY <2>1, <2>2 DEF OthersChange
<1>2. UNCHANGED <<mirrored, session, undo, claimed, job, hold, heldEntry, quitting, letGo, asked>>
  BY DEF OthersChange, atGoogle, shown, held
<1>types. WritesTyped'
  BY <1>0, <1>1, <1>2 DEF WritesTyped, CopiesOut, Jobs, UpTo
<1>one. OneAtATime'
  BY <1>1, <1>2 DEF WritesInv, OneAtATime
<1>yet. NotYet'
  BY <1>1, <1>2
    DEF WritesInv, NotYet, NotIn, Unsent, OneAtATime, GoneForGood, Wrote, LateIsOfJob, CopyOf
<1>seen. LateSeen'
  BY <1>1, <1>2 DEF WritesInv, LateSeen, Accepts
<1>ofjob. LateIsOfJob'
  BY <1>1, <1>2 DEF WritesInv, LateIsOfJob, CopyOf
<1>jobseen. JobSeen'
  BY <1>0, <1>1, <1>2 DEF WritesInv, JobSeen, WritesTyped, Jobs
<1>differs. Differs'
  BY <1>1, <1>2 DEF WritesInv, Differs
<1>gone. GoneForGood'
  BY <1>1, <1>2 DEF WritesInv, GoneForGood
<1>wrote. Wrote'
  BY <1>1, <1>2 DEF WritesInv, Wrote
<1>letgo. LetGoIsKept'
  BY <1>1, <1>2 DEF WritesInv, LetGoIsKept
<1> QED
  BY <1>types, <1>one, <1>yet, <1>seen, <1>ofjob, <1>jobseen, <1>differs, <1>gone, <1>wrote,
     <1>letgo
    DEF WritesInv

(* Only what the user has before them changes.                             *)
LEMMA ViewsKeeps ==
  ASSUME WritesInv,
         UNCHANGED <<event, late, claimed, job, hold, heldEntry, quitting, letGo, asked>>,
         mirrored' \in [there : BOOLEAN, holds : Whole], session' \in Whole \cup {session},
         undo' \in {undo, NoUndo}
  PROVE  WritesInv'
<1>0. WritesTyped
  BY DEF WritesInv
<1>1. undo' \in [was : Some, left : Some] /\ Differ(undo'.was, undo'.left)
  BY <1>0, Empties DEF WritesInv, Differs, NoUndo, WritesTyped
<1>2. session # NoFields => session' # NoFields
  BY Empties, SomeIs DEF Fields
<1>types. WritesTyped'
  BY <1>0, <1>1, <1>2 DEF WritesTyped, CopiesOut, Jobs, UpTo
<1>one. OneAtATime'
  BY <1>2 DEF WritesInv, OneAtATime
<1>yet. NotYet'
  BY <1>1, <1>2 DEF WritesInv, NotYet, NotIn, Unsent
<1>seen. LateSeen'
  BY <1>1, <1>2 DEF WritesInv, LateSeen, Accepts
<1>ofjob. LateIsOfJob'
  BY <1>1, <1>2 DEF WritesInv, LateIsOfJob, CopyOf
<1>jobseen. JobSeen'
  BY <1>1, <1>2 DEF WritesInv, JobSeen, Accepts
<1>differs. Differs'
  BY <1>1, <1>2 DEF WritesInv, Differs
<1>gone. GoneForGood'
  BY <1>1, <1>2 DEF WritesInv, GoneForGood
<1>wrote. Wrote'
  BY <1>1, <1>2 DEF WritesInv, Wrote
<1>letgo. LetGoIsKept'
  BY <1>1, <1>2 DEF WritesInv, LetGoIsKept
<1> QED
  BY <1>types, <1>one, <1>yet, <1>seen, <1>ofjob, <1>jobseen, <1>differs, <1>gone, <1>wrote,
     <1>letgo
    DEF WritesInv

(* A save, a move or an Undo claims the row.                               *)
LEMMA StartsWriteKeeps ==
  ASSUME WritesInv, NEW kind \in Kinds \ {"delete"}, NEW puts \in Some, NEW saw \in Some,
         Differ(puts, saw), kind = "save" => session # NoFields, StartsWrite(kind, puts, saw),
         UNCHANGED <<mirrored, session>>, undo' \in {undo, NoUndo}
  PROVE  WritesInv'
<1>0. WritesTyped
  BY DEF WritesInv
<1>1. /\ ~claimed /\ claimed' /\ ~quitting /\ asked' = asked + 1
         /\ UpTo(asked) \subseteq UpTo(asked') /\ asked + 1 \in UpTo(asked')
      /\ asked + 1 \notin UpTo(asked)
  BY <1>0 DEF StartsWrite, Asks, WritesTyped, UpTo
<1>2. /\ job'.kind = kind /\ job'.at = "read" /\ job'.n = asked + 1 /\ job'.puts = puts
         /\ job'.saw = saw
      /\ job'.sent = NothingSent /\ job'.round = 1 /\ job'.heard = "none" /\ job' \in Jobs'
  BY <1>0, <1>1, Empties DEF StartsWrite, NoWrite, Jobs, NothingSent
<1>3. undo' \in [was : Some, left : Some] /\ Differ(undo'.was, undo'.left)
      /\ Differ(NothingSent.puts, NothingSent.saw)
  BY <1>0, Empties DEF WritesInv, Differs, NoUndo, WritesTyped, NothingSent
<1>4. UNCHANGED <<event, late, mirrored, session, hold, heldEntry, quitting, letGo>>
  BY DEF StartsWrite, atGoogle, shown, held
<1>types. WritesTyped'
  BY <1>0, <1>1, <1>2, <1>3, <1>4 DEF WritesTyped, CopiesOut
<1>one. OneAtATime'
  BY <1>0, <1>1, <1>2, <1>4 DEF WritesInv, OneAtATime, WritesTyped, Kinds
<1>yet. NotYet'
  BY <1>0, <1>types, <1>1, <1>2, <1>3, <1>4
    DEF WritesInv, NotYet, NotIn, Unsent, OneAtATime, GoneForGood, Wrote, LateIsOfJob, CopyOf,
        WritesTyped, UpTo, CopiesOut
<1>seen. LateSeen'
  BY <1>1, <1>2, <1>3, <1>4 DEF WritesInv, LateSeen, Accepts
<1>ofjob. LateIsOfJob'
  BY <1>0, <1>types, <1>1, <1>2, <1>3, <1>4
    DEF WritesInv, LateIsOfJob, CopyOf, OneAtATime, NotYet, NotIn, Unsent, WritesTyped, UpTo,
        CopiesOut
<1>jobseen. JobSeen'
  BY <1>1, <1>2, <1>3, <1>4 DEF WritesInv, JobSeen, Accepts
<1>differs. Differs'
  BY <1>1, <1>2, <1>3, <1>4 DEF WritesInv, Differs
<1>gone. GoneForGood'
  BY <1>1, <1>2, <1>3, <1>4 DEF WritesInv, GoneForGood
<1>wrote. Wrote'
  BY <1>0, <1>types, <1>1, <1>2, <1>3, <1>4
    DEF WritesInv, Wrote, OneAtATime, NotYet, LateIsOfJob, Differs, GoneForGood, NotIn, Unsent,
        CopyOf, WritesTyped, UpTo, CopiesOut
<1>letgo. LetGoIsKept'
  BY <1>1, <1>2, <1>3, <1>4 DEF WritesInv, LetGoIsKept
<1> QED
  BY <1>types, <1>one, <1>yet, <1>seen, <1>ofjob, <1>jobseen, <1>differs, <1>gone, <1>wrote,
     <1>letgo
    DEF WritesInv

(* A delete claims the row and waits.                                      *)
LEMMA DeleteEventKeeps ==
  ASSUME WritesInv, DeleteEvent
  PROVE  WritesInv'
<1>0. WritesTyped
  BY DEF WritesInv
<1>1. /\ ~claimed /\ claimed' /\ ~quitting /\ asked' = asked + 1
         /\ UpTo(asked) \subseteq UpTo(asked') /\ asked + 1 \in UpTo(asked')
      /\ asked + 1 \notin UpTo(asked) /\ asked + 1 # 0
  BY <1>0 DEF DeleteEvent, Asks, WritesTyped, UpTo
<1>2. /\ hold'.at = "waiting" /\ hold'.n = asked + 1 /\ heldEntry' = asked + 1
      /\ hold' \in [at : {"none", "waiting", "due"}, n : UpTo(asked'), saw : Some]
  BY <1>0, <1>1, SomeIs DEF DeleteEvent, Asks, WritesTyped
<1>3. job \in Jobs'
  BY <1>0, <1>1 DEF WritesTyped, Jobs
<1>4. UNCHANGED <<event, late, mirrored, session, undo, job, quitting, letGo>>
  BY DEF DeleteEvent, atGoogle, shown, held
<1>types. WritesTyped'
  BY <1>0, <1>1, <1>2, <1>3, <1>4 DEF WritesTyped, CopiesOut
<1>one. OneAtATime'
  BY <1>0, <1>types, <1>1, <1>2, <1>3, <1>4
    DEF WritesInv, OneAtATime, NotYet, NotIn, Unsent, WritesTyped, UpTo, CopiesOut
<1>yet. NotYet'
  BY <1>0, <1>types, <1>1, <1>2, <1>3, <1>4
    DEF WritesInv, NotYet, NotIn, Unsent, OneAtATime, GoneForGood, Wrote, LateIsOfJob, CopyOf,
        WritesTyped, UpTo, CopiesOut
<1>seen. LateSeen'
  BY <1>1, <1>2, <1>3, <1>4 DEF WritesInv, LateSeen, Accepts
<1>ofjob. LateIsOfJob'
  BY <1>1, <1>2, <1>3, <1>4 DEF WritesInv, LateIsOfJob, CopyOf
<1>jobseen. JobSeen'
  BY <1>1, <1>2, <1>3, <1>4 DEF WritesInv, JobSeen, Accepts
<1>differs. Differs'
  BY <1>1, <1>2, <1>3, <1>4 DEF WritesInv, Differs
<1>gone. GoneForGood'
  BY <1>1, <1>2, <1>3, <1>4 DEF WritesInv, GoneForGood
<1>wrote. Wrote'
  BY <1>1, <1>2, <1>3, <1>4 DEF WritesInv, Wrote
<1>letgo. LetGoIsKept'
  BY <1>1, <1>2, <1>3, <1>4 DEF WritesInv, LetGoIsKept
<1> QED
  BY <1>types, <1>one, <1>yet, <1>seen, <1>ofjob, <1>jobseen, <1>differs, <1>gone, <1>wrote,
     <1>letgo
    DEF WritesInv

(* The entry of a held delete goes, on its Undo or as PM quits.            *)
LEMMA DropsKeeps ==
  ASSUME WritesInv, Dropped,
         UNCHANGED <<event, late, mirrored, session, undo, claimed, job, hold, asked>>,
         quitting' \in BOOLEAN
  PROVE  WritesInv'
<1>0. WritesTyped
  BY DEF WritesInv
<1>1. letGo' = letGo \cup ({heldEntry} \ {0}) /\ heldEntry' = 0 /\ 0 \in UpTo(asked)
  BY <1>0 DEF Dropped, WritesTyped, UpTo
<1>types. WritesTyped'
  BY <1>0, <1>1 DEF WritesTyped, CopiesOut, Jobs, UpTo
<1>one. OneAtATime'
  BY <1>1 DEF WritesInv, OneAtATime
<1>yet. NotYet'
  BY <1>1 DEF WritesInv, NotYet, NotIn, Unsent
<1>seen. LateSeen'
  BY <1>1 DEF WritesInv, LateSeen, Accepts
<1>ofjob. LateIsOfJob'
  BY <1>1 DEF WritesInv, LateIsOfJob, CopyOf
<1>jobseen. JobSeen'
  BY <1>1 DEF WritesInv, JobSeen, Accepts
<1>differs. Differs'
  BY <1>1 DEF WritesInv, Differs
<1>gone. GoneForGood'
  BY <1>1 DEF WritesInv, GoneForGood
<1>wrote. Wrote'
  BY <1>1 DEF WritesInv, Wrote
<1>letgo. LetGoIsKept'
  <2>1. CASE heldEntry = 0
    BY <1>1, <2>1 DEF WritesInv, LetGoIsKept
  <2>2. CASE heldEntry # 0
    <3>1. job.at = "none" /\ Unsent(heldEntry)
      BY <2>2 DEF WritesInv, OneAtATime, NotYet
    <3>2. job.kind = "none"
      BY <3>1, <1>0, NoWriteIs DEF WritesInv, OneAtATime, WritesTyped
    <3> QED
      BY <1>1, <2>2, <3>1, <3>2 DEF WritesInv, LetGoIsKept, Unsent
  <2> QED
    BY <2>1, <2>2
<1> QED
  BY <1>types, <1>one, <1>yet, <1>seen, <1>ofjob, <1>jobseen, <1>differs, <1>gone, <1>wrote,
     <1>letgo
    DEF WritesInv

(* The process ends; a request it sent may land later.                     *)
LEMMA EndQuitKeeps ==
  ASSUME WritesInv, EndQuit
  PROVE  WritesInv'
<1>0. WritesTyped
  BY DEF WritesInv
<1>1. job' = NoWrite /\ claimed' = FALSE /\ session' = NoFields /\ undo' = NoUndo /\ heldEntry = 0
      /\ quitting' = FALSE
  BY <1>0 DEF EndQuit, WritesInv, OneAtATime
<1>2. job' \in Jobs /\ job'.kind = "none" /\ job'.at = "none" /\ job'.n = 0 /\ job'.maybe = FALSE
      /\ job'.heard = "none" /\ job'.puts = NoFields
      /\ job'.saw = NoFields /\ job'.sent = NothingSent
  BY <1>0, <1>1, NoWriteIs DEF WritesTyped
<1>3. /\ hold' \in [at : {"none", "waiting", "due"}, n : UpTo(asked), saw : Some]
         /\ hold'.at = "none"
      /\ undo' \in [was : Some, left : Some] /\ Differ(undo'.was, undo'.left)
         /\ Differ(NothingSent.puts, NothingSent.saw)
  BY <1>0, Empties DEF EndQuit, NoHold, NoUndo, WritesTyped, UpTo, NothingSent
<1>4. \/ late' = late
      \/ job.at = "sent" /\ Accepts(CopyOf(job)) /\ late' = late \cup {CopyOf(job)}
  BY <1>0 DEF EndQuit, MayLandLate, atGoogle
<1>5. job.at = "sent" => CopyOf(job) \in CopiesOut
  BY <1>0 DEF WritesInv, OneAtATime, WritesTyped, Jobs, CopyOf, CopiesOut
<1>6. UNCHANGED <<event, mirrored, letGo, heldEntry, asked>>
  BY DEF EndQuit, MayLandLate, atGoogle
<1>types. WritesTyped'
  <2>1. late' \subseteq CopiesOut
    BY <1>0, <1>4, <1>5 DEF WritesTyped
  <2> QED
    BY <1>0, <1>1, <1>2, <1>3, <1>6, <2>1 DEF WritesTyped, CopiesOut, Jobs
<1>one. OneAtATime'
  BY <1>1, <1>2, <1>3, <1>4, <1>5, <1>6 DEF WritesInv, OneAtATime
<1>yet. NotYet'
  BY <1>1, <1>2, <1>3, <1>4, <1>5, <1>6 DEF WritesInv, NotYet, NotIn, Unsent
<1>seen. LateSeen'
  BY <1>0, <1>types, <1>1, <1>2, <1>3, <1>4, <1>5, <1>6
    DEF WritesInv, LateSeen, Accepts, JobSeen, OneAtATime, WritesTyped, UpTo, CopiesOut, CopyOf,
        Fields
<1>ofjob. LateIsOfJob'
  BY <1>0, <1>types, <1>1, <1>2, <1>3, <1>4, <1>5, <1>6
    DEF WritesInv, LateIsOfJob, CopyOf, OneAtATime, NotYet, NotIn, Unsent, WritesTyped, UpTo,
        CopiesOut
<1>jobseen. JobSeen'
  BY <1>1, <1>2, <1>3, <1>4, <1>5, <1>6 DEF WritesInv, JobSeen, Accepts
<1>differs. Differs'
  BY <1>2, <1>3, Empties DEF Differs
<1>gone. GoneForGood'
  BY <1>1, <1>2, <1>3, <1>4, <1>5, <1>6 DEF WritesInv, GoneForGood
<1>wrote. Wrote'
  BY <1>1, <1>2, <1>3, <1>4, <1>5, <1>6 DEF WritesInv, Wrote
<1>letgo. LetGoIsKept'
  BY <1>0, <1>types, <1>1, <1>2, <1>3, <1>4, <1>5, <1>6
    DEF WritesInv, LetGoIsKept, OneAtATime, NotYet, NotIn, Unsent, WritesTyped, UpTo, CopiesOut,
        CopyOf, Accepts, Fields
<1> QED
  BY <1>types, <1>one, <1>yet, <1>seen, <1>ofjob, <1>jobseen, <1>differs, <1>gone, <1>wrote,
     <1>letgo
    DEF WritesInv

(* The wait ends.                                                          *)
LEMMA TimerEndsKeeps ==
  ASSUME WritesInv, TimerEnds
  PROVE  WritesInv'
<1>0. WritesTyped
  BY DEF WritesInv
<1>1. hold'.at = "due" /\ hold.at = "waiting" /\ hold'.n = hold.n /\ hold'
        \in [at : {"none", "waiting", "due"}, n : UpTo(asked), saw : Some]
  BY <1>0 DEF TimerEnds, WritesTyped
<1>2. UNCHANGED <<event, late, mirrored, session, undo, claimed, job, heldEntry, quitting, letGo, asked>>
  BY DEF TimerEnds, atGoogle, shown, held
<1>types. WritesTyped'
  BY <1>0, <1>1, <1>2 DEF WritesTyped, CopiesOut, Jobs, UpTo
<1>one. OneAtATime'
  BY <1>1, <1>2 DEF WritesInv, OneAtATime
<1>yet. NotYet'
  BY <1>1, <1>2 DEF WritesInv, NotYet, NotIn, Unsent
<1>seen. LateSeen'
  BY <1>1, <1>2 DEF WritesInv, LateSeen, Accepts
<1>ofjob. LateIsOfJob'
  BY <1>1, <1>2 DEF WritesInv, LateIsOfJob, CopyOf
<1>jobseen. JobSeen'
  BY <1>1, <1>2 DEF WritesInv, JobSeen, Accepts
<1>differs. Differs'
  BY <1>1, <1>2 DEF WritesInv, Differs
<1>gone. GoneForGood'
  BY <1>1, <1>2 DEF WritesInv, GoneForGood
<1>wrote. Wrote'
  BY <1>1, <1>2 DEF WritesInv, Wrote
<1>letgo. LetGoIsKept'
  BY <1>1, <1>2 DEF WritesInv, LetGoIsKept
<1> QED
  BY <1>types, <1>one, <1>yet, <1>seen, <1>ofjob, <1>jobseen, <1>differs, <1>gone, <1>wrote,
     <1>letgo
    DEF WritesInv

(* The task finds its entry gone.                                          *)
LEMMA LetsGoKeeps ==
  ASSUME WritesInv, LetsGo, hold.at # "none"
  PROVE  WritesInv'
<1>0. WritesTyped
  BY DEF WritesInv
<1>1. hold'.at = "none" /\ heldEntry # hold.n /\ hold'
        \in [at : {"none", "waiting", "due"}, n : UpTo(asked), saw : Some] /\ claimed' = FALSE
  BY <1>0, Empties DEF LetsGo, WritesTyped, NoHold, UpTo
<1>2. UNCHANGED <<event, late, mirrored, session, undo, job, heldEntry, quitting, letGo, asked>>
  BY DEF LetsGo, atGoogle, shown, held
<1>types. WritesTyped'
  <2>1. claimed' \in BOOLEAN /\ quitting' \in BOOLEAN
    BY <1>0, <1>1, <1>2, Zenon DEF WritesTyped
  <2> QED
    BY <1>0, <1>1, <1>2, <2>1 DEF WritesTyped, CopiesOut, Jobs
<1>one. OneAtATime'
  BY <1>1, <1>2 DEF WritesInv, OneAtATime
<1>yet. NotYet'
  BY <1>1, <1>2 DEF WritesInv, NotYet, NotIn, Unsent
<1>seen. LateSeen'
  BY <1>1, <1>2 DEF WritesInv, LateSeen, Accepts
<1>ofjob. LateIsOfJob'
  BY <1>1, <1>2 DEF WritesInv, LateIsOfJob, CopyOf
<1>jobseen. JobSeen'
  BY <1>1, <1>2 DEF WritesInv, JobSeen, Accepts
<1>differs. Differs'
  BY <1>1, <1>2 DEF WritesInv, Differs
<1>gone. GoneForGood'
  BY <1>1, <1>2 DEF WritesInv, GoneForGood
<1>wrote. Wrote'
  BY <1>1, <1>2 DEF WritesInv, Wrote
<1>letgo. LetGoIsKept'
  BY <1>1, <1>2 DEF WritesInv, LetGoIsKept
<1> QED
  BY <1>types, <1>one, <1>yet, <1>seen, <1>ofjob, <1>jobseen, <1>differs, <1>gone, <1>wrote,
     <1>letgo
    DEF WritesInv

(* The task takes its entry: the delete is a write like the others.        *)
LEMMA SendsHeldKeeps ==
  ASSUME WritesInv, SendsHeld, hold.at = "due", heldEntry = hold.n
  PROVE  WritesInv'
<1>0. WritesTyped
  BY DEF WritesInv
<1>1. /\ job'.kind = "delete" /\ job'.at = "read" /\ job'.n = hold.n /\ job'.puts = NoFields
         /\ job'.saw = hold.saw
      /\ job'.sent = NothingSent /\ job'.round = 1 /\ job'.heard = "none" /\ job' \in Jobs
         /\ job'.sent.puts = NoFields
  <2>1. NoWrite \in Jobs /\ NoWrite.puts = NoFields /\ NoWrite.sent = NothingSent
        /\ NothingSent.puts = NoFields /\ NoWrite.heard = "none"
    BY <1>0, NoWriteIs DEF WritesTyped
  <2>2. hold.n \in UpTo(asked) /\ hold.saw \in Some
    BY <1>0 DEF WritesTyped
  <2>3. job' = [NoWrite EXCEPT !.kind = "delete", !.at = "read", !.n = hold.n, !.saw = hold.saw]
    BY DEF SendsHeld
  <2>4. NoWrite.round = 1
    BY DEF NoWrite
  <2> QED
    BY <2>1, <2>2, <2>3, <2>4 DEF Jobs, Kinds
<1>2. hold'.at = "none" /\ hold'
        \in [at : {"none", "waiting", "due"}, n : UpTo(asked), saw : Some] /\ heldEntry' = 0
        /\ 0 \in UpTo(asked)
  BY <1>0, Empties DEF SendsHeld, WritesTyped, NoHold, UpTo
<1>3. UNCHANGED <<event, late, mirrored, session, undo, claimed, quitting, letGo, asked>>
  BY DEF SendsHeld, atGoogle, shown, held
<1>types. WritesTyped'
  BY <1>0, <1>1, <1>2, <1>3 DEF WritesTyped, CopiesOut, Jobs, UpTo
<1>one. OneAtATime'
  BY <1>1, <1>2, <1>3 DEF WritesInv, OneAtATime
<1>yet. NotYet'
  BY <1>1, <1>2, <1>3 DEF WritesInv, NotYet, NotIn, Unsent
<1>seen. LateSeen'
  BY <1>1, <1>2, <1>3 DEF WritesInv, LateSeen, Accepts
<1>ofjob. LateIsOfJob'
  BY <1>1, <1>2, <1>3 DEF WritesInv, LateIsOfJob, CopyOf, OneAtATime, NotYet, NotIn, Unsent
<1>jobseen. JobSeen'
  BY <1>1, <1>2, <1>3 DEF WritesInv, JobSeen, Accepts
<1>differs. Differs'
  BY <1>1, <1>2, <1>3 DEF WritesInv, Differs
<1>gone. GoneForGood'
  BY <1>1, <1>2, <1>3 DEF WritesInv, GoneForGood
<1>wrote. Wrote'
  BY <1>1, <1>2, <1>3
    DEF WritesInv, Wrote, OneAtATime, NotYet, LateIsOfJob, Differs, GoneForGood, NotIn, Unsent,
        CopyOf
<1>letgo. LetGoIsKept'
  BY <1>1, <1>2, <1>3 DEF WritesInv, LetGoIsKept, OneAtATime, NotYet, NotIn, Unsent
<1> QED
  BY <1>types, <1>one, <1>yet, <1>seen, <1>ofjob, <1>jobseen, <1>differs, <1>gone, <1>wrote,
     <1>letgo
    DEF WritesInv

(* A write ends that changes nothing at Google as it does.                 *)
LEMMA EndsKeeps ==
  ASSUME WritesInv, Ended, UNCHANGED <<event, late>>
  PROVE  WritesInv'
<1>0. WritesTyped
  BY DEF WritesInv
<1>1. job' \in Jobs /\ job'.kind = "none" /\ job'.at = "none" /\ job'.n = 0 /\ job'.maybe = FALSE
      /\ job'.heard = "none" /\ job'.puts = NoFields
      /\ job'.saw = NoFields /\ job'.sent = NothingSent
         /\ Differ(NothingSent.puts, NothingSent.saw)
  BY <1>0, NoWriteIs, Empties DEF WritesTyped, Ended, NothingSent
<1>2. /\ job' = NoWrite /\ claimed' = FALSE
         /\ UNCHANGED <<hold, heldEntry, quitting, letGo, asked>>
      /\ session' \in Whole \cup {NoFields} /\ mirrored' \in [there : BOOLEAN, holds : Whole]
      /\ undo' \in [was : Some, left : Some] /\ Differ(undo'.was, undo'.left)
  BY DEF Ended, held
<1>types. WritesTyped'
  BY <1>0, <1>1, <1>2 DEF WritesTyped, CopiesOut, Jobs
<1>one. OneAtATime'
  BY <1>1, <1>2 DEF WritesInv, OneAtATime, Ended
<1>yet. NotYet'
  BY <1>1, <1>2 DEF WritesInv, NotYet, NotIn, Unsent
<1>seen. LateSeen'
  BY <1>1, <1>2 DEF WritesInv, LateSeen, Accepts
<1>ofjob. LateIsOfJob'
  BY <1>0, <1>types, <1>1, <1>2
    DEF WritesInv, LateIsOfJob, CopyOf, OneAtATime, NotYet, NotIn, Unsent, WritesTyped, UpTo,
        CopiesOut
<1>jobseen. JobSeen'
  BY <1>1, <1>2 DEF WritesInv, JobSeen, Accepts
<1>differs. Differs'
  BY <1>1, <1>2, Empties DEF Differs
<1>gone. GoneForGood'
  BY <1>1, <1>2 DEF WritesInv, GoneForGood
<1>wrote. Wrote'
  BY <1>1, <1>2 DEF WritesInv, Wrote
<1>letgo. LetGoIsKept'
  BY <1>1, <1>2 DEF WritesInv, LetGoIsKept
<1> QED
  BY <1>types, <1>one, <1>yet, <1>seen, <1>ofjob, <1>jobseen, <1>differs, <1>gone, <1>wrote,
     <1>letgo
    DEF WritesInv

(* Google takes the request and answers.                                   *)
LEMMA EndsTakenKeeps ==
  ASSUME WritesInv, Ended, job.at = "sent", Takes(CopyOf(job))
  PROVE  WritesInv'
<1>0. WritesTyped
  BY DEF WritesInv
<1>1. job' \in Jobs /\ job'.kind = "none" /\ job'.at = "none" /\ job'.n = 0 /\ job'.maybe = FALSE
      /\ job'.heard = "none" /\ job'.puts = NoFields
      /\ job'.saw = NoFields /\ job'.sent = NothingSent
         /\ Differ(NothingSent.puts, NothingSent.saw)
  BY <1>0, NoWriteIs, Empties DEF WritesTyped, Ended, NothingSent
<1>2. /\ job' = NoWrite /\ claimed' = FALSE
         /\ UNCHANGED <<hold, heldEntry, quitting, letGo, asked>>
      /\ session' \in Whole \cup {NoFields} /\ mirrored' \in [there : BOOLEAN, holds : Whole]
      /\ undo' \in [was : Some, left : Some] /\ Differ(undo'.was, undo'.left)
  BY DEF Ended, held
<1>3. CopyOf(job) \in CopiesOut /\ CopyOf(job).n = job.n /\ CopyOf(job).kind = job.kind
      /\ CopyOf(job).puts = job.sent.puts
  BY <1>0 DEF WritesInv, OneAtATime, WritesTyped, Jobs, CopyOf, CopiesOut
<1>4. /\ event'
           \in [there : BOOLEAN, holds : Whole, etag : Nat,
                who : [Fields \cup {"there"} -> UpTo(asked)]]
      /\ late' = {} /\ event.there /\ event'.there = (job.kind # "delete")
         /\ event'.etag = event.etag + 1
      /\ event'.who["there"] = IF job.kind = "delete" THEN job.n ELSE event.who["there"]
      /\ \A f \in Fields :
           /\ event'.who[f] = IF f \in DOMAIN job.sent.puts THEN job.n ELSE event.who[f]
           /\ event'.holds[f] = IF f \in DOMAIN job.sent.puts THEN job.sent.puts[f] ELSE event.holds[f]
  BY <1>0, <1>3, Landed DEF CopiesOut
<1>types. WritesTyped'
  BY <1>0, <1>1, <1>2, <1>3, <1>4 DEF WritesTyped, CopiesOut, Jobs, UpTo
<1>one. OneAtATime'
  BY <1>1, <1>2, <1>3, <1>4 DEF WritesInv, OneAtATime
<1>yet. NotYet'
  BY <1>1, <1>2, <1>3, <1>4
    DEF WritesInv, NotYet, NotIn, Unsent, OneAtATime, GoneForGood, Wrote, LateIsOfJob, CopyOf
<1>seen. LateSeen'
  BY <1>1, <1>2, <1>3, <1>4 DEF WritesInv, LateSeen, Accepts
<1>ofjob. LateIsOfJob'
  BY <1>1, <1>2, <1>3, <1>4 DEF WritesInv, LateIsOfJob, CopyOf
<1>jobseen. JobSeen'
  BY <1>1, <1>2, <1>3, <1>4 DEF WritesInv, JobSeen, Accepts
<1>differs. Differs'
  BY <1>1, <1>2, Empties DEF Differs
<1>gone. GoneForGood'
  BY <1>1, <1>2, <1>3, <1>4 DEF WritesInv, GoneForGood
<1>wrote. Wrote'
  BY <1>1, <1>2, <1>3, <1>4 DEF WritesInv, Wrote
<1>letgo. LetGoIsKept'
  BY <1>1, <1>2, <1>3, <1>4 DEF WritesInv, LetGoIsKept
<1> QED
  BY <1>types, <1>one, <1>yet, <1>seen, <1>ofjob, <1>jobseen, <1>differs, <1>gone, <1>wrote,
     <1>letgo
    DEF WritesInv

(* The request goes out on what was just read.                             *)
LEMMA GoesOutKeeps ==
  ASSUME WritesInv, job.at = "read", ReadReady
  PROVE  WritesInv'
<1>0. WritesTyped
  BY DEF WritesInv
<1>1. Body \in Some /\ Basis \in Some /\ (job.kind # "delete" => Differ(Body, Basis))
      /\ (job.kind = "delete" => Body = NoFields)
  <2>1. job.puts \in Some /\ job.saw \in Some /\ event.holds \in Whole
    BY <1>0 DEF WritesTyped, Jobs
  <2>2. CASE job.kind # "save"
    BY <1>0, <2>1, <2>2 DEF Body, Basis, WritesInv, Differs
  <2>3. CASE job.kind = "save"
    <3>1. DOMAIN job.puts = DOMAIN job.saw /\ \A f \in DOMAIN job.puts : job.puts[f] # job.saw[f]
      BY <1>0, <2>3 DEF WritesInv, Differs, Differ
    <3> DEFINE S == {f \in DOMAIN job.puts : event.holds[f] # job.puts[f]}
    <3>2. S \in SUBSET Fields /\ S \subseteq DOMAIN job.puts /\ S \subseteq DOMAIN job.saw
      BY <2>1, <3>1, SomeIs
    <3>3. Body = Only(S, job.puts) /\ Body \in Some /\ DOMAIN Body = S
      BY <2>1, <2>3, <3>2, SomeIs DEF Body
    <3>4. Basis = Only(S, job.saw) /\ Basis \in Some /\ DOMAIN Basis = S
      BY <2>1, <2>3, <3>2, <3>3, SomeIs DEF Basis
    <3>5. \A f \in S : Body[f] = job.puts[f] /\ Basis[f] = job.saw[f]
      BY <3>3, <3>4 DEF Only
    <3> QED
      BY <2>3, <3>1, <3>2, <3>3, <3>4, <3>5 DEF Differ
  <2> QED
    BY <2>2, <2>3
<1>2. /\ job'.sent = [puts |-> Body, saw |-> Basis] /\ job'.at = "sent" /\ job'.tag = event.etag
         /\ job'.maybe = FALSE
      /\ job'.n = job.n /\ job'.kind = job.kind /\ job'.puts = job.puts /\ job'.saw = job.saw
         /\ job'.heard = job.heard
      /\ job'.round = job.round /\ job' \in Jobs
  BY <1>0, <1>1 DEF ReadReady, GoesOut, WritesTyped, Jobs
<1>3. event.there /\ \A f \in DOMAIN Basis : event.holds[f] = Basis[f]
  BY DEF ReadReady, AsSeen
<1>4. UNCHANGED <<event, late, mirrored, session, undo, claimed, hold, heldEntry, quitting, letGo, asked>>
  BY DEF ReadReady, GoesOut, atGoogle, shown, held
<1>types. WritesTyped'
  BY <1>0, <1>1, <1>2, <1>3, <1>4 DEF WritesTyped, CopiesOut, Jobs, UpTo
<1>one. OneAtATime'
  BY <1>1, <1>2, <1>3, <1>4 DEF WritesInv, OneAtATime
<1>yet. NotYet'
  BY <1>1, <1>2, <1>3, <1>4 DEF WritesInv, NotYet, NotIn, Unsent
<1>seen. LateSeen'
  BY <1>1, <1>2, <1>3, <1>4 DEF WritesInv, LateSeen, Accepts
<1>ofjob. LateIsOfJob'
  BY <1>1, <1>2, <1>3, <1>4 DEF WritesInv, LateIsOfJob, CopyOf, OneAtATime, NotYet, NotIn, Unsent
<1>jobseen. JobSeen'
  BY <1>0, <1>2, <1>3, <1>4 DEF WritesInv, JobSeen, WritesTyped
<1>differs. Differs'
  BY <1>1, <1>2, <1>3, <1>4 DEF WritesInv, Differs
<1>gone. GoneForGood'
  BY <1>1, <1>2, <1>3, <1>4 DEF WritesInv, GoneForGood
<1>wrote. Wrote'
  BY <1>1, <1>2, <1>3, <1>4
    DEF WritesInv, Wrote, OneAtATime, NotYet, LateIsOfJob, Differs, GoneForGood, NotIn, Unsent,
        CopyOf
<1>letgo. LetGoIsKept'
  BY <1>1, <1>2, <1>3, <1>4 DEF WritesInv, LetGoIsKept
<1> QED
  BY <1>types, <1>one, <1>yet, <1>seen, <1>ofjob, <1>jobseen, <1>differs, <1>gone, <1>wrote,
     <1>letgo
    DEF WritesInv

(* A second round, or showing Google's copy.                               *)
LEMMA TurnsKeeps ==
  ASSUME WritesInv, NEW at \in {"read", "show"}, NextTo(at), job.at \in {"sent", "look"},
         NotIn(job.n)
  PROVE  WritesInv'
<1>0. WritesTyped
  BY DEF WritesInv
<1>1. /\ job'.at = at /\ job'.round = 2 /\ job'.heard = "none" /\ job'.n = job.n
         /\ job'.kind = job.kind /\ job'.puts = job.puts
      /\ job'.saw = job.saw /\ job'.sent = job.sent /\ job'.tag = job.tag /\ job' \in Jobs
  BY <1>0 DEF NextTo, WritesTyped, Jobs
<1>2. UNCHANGED <<event, late, mirrored, session, undo, claimed, hold, heldEntry, quitting, letGo, asked>>
  BY DEF NextTo, atGoogle, shown, held
<1>types. WritesTyped'
  BY <1>0, <1>1, <1>2 DEF WritesTyped, CopiesOut, Jobs, UpTo
<1>one. OneAtATime'
  BY <1>1, <1>2 DEF WritesInv, OneAtATime
<1>yet. NotYet'
  BY <1>1, <1>2 DEF WritesInv, NotYet, NotIn, Unsent
<1>seen. LateSeen'
  BY <1>1, <1>2 DEF WritesInv, LateSeen, Accepts
<1>ofjob. LateIsOfJob'
  BY <1>1, <1>2 DEF WritesInv, LateIsOfJob, CopyOf
<1>jobseen. JobSeen'
  BY <1>1, <1>2 DEF WritesInv, JobSeen, Accepts
<1>differs. Differs'
  BY <1>1, <1>2 DEF WritesInv, Differs
<1>gone. GoneForGood'
  BY <1>1, <1>2 DEF WritesInv, GoneForGood
<1>wrote. Wrote'
  BY <1>1, <1>2 DEF WritesInv, Wrote
<1>letgo. LetGoIsKept'
  BY <1>1, <1>2 DEF WritesInv, LetGoIsKept
<1> QED
  BY <1>types, <1>one, <1>yet, <1>seen, <1>ofjob, <1>jobseen, <1>differs, <1>gone, <1>wrote,
     <1>letgo
    DEF WritesInv

(* An answer that can't be trusted.                                        *)
LEMMA WillLookKeeps ==
  ASSUME WritesInv, NEW v \in Verdicts \cup {"lost"}, v = "gone" => job.kind # "delete",
         v = "conflict" => ~Accepts(CopyOf(job)) /\ event.there, job.at = "sent", WillLook(v),
         MayLandLate(CopyOf(job)) \/ UNCHANGED atGoogle
  PROVE  WritesInv'
<1>0. WritesTyped
  BY DEF WritesInv
<1>1. \/ late' = late
      \/ Accepts(CopyOf(job)) /\ late' = late \cup {CopyOf(job)}
  BY DEF MayLandLate, atGoogle
<1>2. CopyOf(job) \in CopiesOut /\ CopyOf(job).n = job.n /\ CopyOf(job).saw = job.sent.saw
      /\ CopyOf(job).tag = job.tag /\ CopyOf(job).kind = job.kind
  BY <1>0 DEF WritesInv, OneAtATime, WritesTyped, Jobs, CopyOf, CopiesOut
<1>3. /\ job'.at = "look" /\ job'.heard = v /\ job'.n = job.n /\ job'.kind = job.kind
         /\ job'.puts = job.puts /\ job'.saw = job.saw
      /\ job'.sent = job.sent /\ job'.tag = job.tag /\ job'.round = job.round /\ job' \in Jobs
         /\ v # "none"
  BY <1>0 DEF WillLook, WritesTyped, Jobs, Verdicts
<1>4. v = "conflict" => job.tag # event.etag
  BY <1>2 DEF Accepts
<1>5. UNCHANGED <<event, mirrored, session, undo, claimed, hold, heldEntry, quitting, letGo, asked>>
  BY DEF WillLook, MayLandLate, atGoogle, shown, held
<1>types. WritesTyped'
  BY <1>0, <1>1, <1>2, <1>3, <1>4, <1>5 DEF WritesTyped, CopiesOut, Jobs, UpTo
<1>one. OneAtATime'
  BY <1>1, <1>2, <1>3, <1>4, <1>5 DEF WritesInv, OneAtATime
<1>yet. NotYet'
  BY <1>1, <1>2, <1>3, <1>4, <1>5
    DEF WritesInv, NotYet, NotIn, Unsent, OneAtATime, GoneForGood, Wrote, LateIsOfJob, CopyOf
<1>seen. LateSeen'
  BY <1>1, <1>2, <1>3, <1>4, <1>5 DEF WritesInv, LateSeen, Accepts, JobSeen, OneAtATime
<1>ofjob. LateIsOfJob'
  BY <1>1, <1>2, <1>3, <1>4, <1>5 DEF WritesInv, LateIsOfJob, CopyOf
<1>jobseen. JobSeen'
  BY <1>1, <1>2, <1>3, <1>4, <1>5 DEF WritesInv, JobSeen, Accepts
<1>differs. Differs'
  BY <1>1, <1>2, <1>3, <1>4, <1>5 DEF WritesInv, Differs
<1>gone. GoneForGood'
  BY <1>1, <1>2, <1>3, <1>4, <1>5 DEF WritesInv, GoneForGood
<1>wrote. Wrote'
  BY <1>1, <1>2, <1>3, <1>4, <1>5 DEF WritesInv, Wrote
<1>letgo. LetGoIsKept'
  BY <1>1, <1>2, <1>3, <1>4, <1>5 DEF WritesInv, LetGoIsKept
<1> QED
  BY <1>types, <1>one, <1>yet, <1>seen, <1>ofjob, <1>jobseen, <1>differs, <1>gone, <1>wrote,
     <1>letgo
    DEF WritesInv

(* A second attempt.                                                       *)
LEMMA RetriesKeeps ==
  ASSUME WritesInv, NEW maybe \in BOOLEAN, job.maybe => maybe, job.at = "sent",
         job' = [job EXCEPT !.attempt = 2, !.maybe = maybe],
         (maybe /\ MayLandLate(CopyOf(job))) \/ UNCHANGED <<event, late>>,
         UNCHANGED <<shown, claimed, held, asked>>
  PROVE  WritesInv'
<1>0. WritesTyped
  BY DEF WritesInv
<1>1. \/ late' = late
      \/ maybe /\ Accepts(CopyOf(job)) /\ late' = late \cup {CopyOf(job)}
  BY DEF MayLandLate
<1>2. CopyOf(job) \in CopiesOut /\ CopyOf(job).n = job.n /\ CopyOf(job).saw = job.sent.saw
      /\ CopyOf(job).tag = job.tag /\ CopyOf(job).kind = job.kind
  BY <1>0 DEF WritesInv, OneAtATime, WritesTyped, Jobs, CopyOf, CopiesOut
<1>3. /\ job'.at = "sent" /\ job'.heard = job.heard /\ job'.n = job.n /\ job'.kind = job.kind
         /\ job'.puts = job.puts /\ job'.saw = job.saw
      /\ job'.sent = job.sent /\ job'.tag = job.tag /\ job'.round = job.round
         /\ job'.maybe = maybe /\ job' \in Jobs
  BY <1>0 DEF WritesTyped, Jobs
<1>4. UNCHANGED <<event, mirrored, session, undo, claimed, hold, heldEntry, quitting, letGo, asked>>
  BY DEF MayLandLate, atGoogle, shown, held
<1>types. WritesTyped'
  BY <1>0, <1>1, <1>2, <1>3, <1>4 DEF WritesTyped, CopiesOut, Jobs, UpTo
<1>one. OneAtATime'
  BY <1>1, <1>2, <1>3, <1>4 DEF WritesInv, OneAtATime
<1>yet. NotYet'
  BY <1>1, <1>2, <1>3, <1>4
    DEF WritesInv, NotYet, NotIn, Unsent, OneAtATime, GoneForGood, Wrote, LateIsOfJob, CopyOf
<1>seen. LateSeen'
  BY <1>1, <1>2, <1>3, <1>4 DEF WritesInv, LateSeen, Accepts, JobSeen, OneAtATime
<1>ofjob. LateIsOfJob'
  BY <1>1, <1>2, <1>3, <1>4 DEF WritesInv, LateIsOfJob, CopyOf
<1>jobseen. JobSeen'
  BY <1>1, <1>2, <1>3, <1>4 DEF WritesInv, JobSeen, Accepts
<1>differs. Differs'
  BY <1>1, <1>2, <1>3, <1>4 DEF WritesInv, Differs
<1>gone. GoneForGood'
  BY <1>1, <1>2, <1>3, <1>4 DEF WritesInv, GoneForGood
<1>wrote. Wrote'
  BY <1>1, <1>2, <1>3, <1>4 DEF WritesInv, Wrote
<1>letgo. LetGoIsKept'
  BY <1>1, <1>2, <1>3, <1>4 DEF WritesInv, LetGoIsKept
<1> QED
  BY <1>types, <1>one, <1>yet, <1>seen, <1>ofjob, <1>jobseen, <1>differs, <1>gone, <1>wrote,
     <1>letgo
    DEF WritesInv

-----------------------------------------------------------------------------
(* What a step does: it keeps the invariant, says only what is so, and lands *)
(* only what fits the event.  TellsTrue and LandsSeen are the steps of       *)
(* ToldIsSo and NothingUnseen.                                               *)
TellsTrue ==
  said' \notin {said, Unsaid} =>
    /\ said'.what = "saved" => InGoogle(job)
    /\ said'.what \in {"kept", "busy"} => ~IsIn(job.n)
LandsSeen == LandsOnSeen(CopyOf(job)) /\ \A c \in late : LandsOnSeen(c)
Right == WritesInv' /\ TellsTrue /\ LandsSeen

\* the write under way has left nothing in the event
Absent == event.who["there"] # job.n /\ (event.there => \A f \in Fields : event.who[f] # job.n)

LEMMA NothingLands ==
  ASSUME event' = event
  PROVE  LandsSeen
  BY DEF LandsSeen, LandsOnSeen

LEMMA Unmoved ==
  ASSUME WritesInv, UNCHANGED event, said' \in {said, Unsaid}, WritesInv'
  PROVE  Right
  BY NothingLands DEF Right, TellsTrue

-----------------------------------------------------------------------------
(* How a write ends, and each step of it.                                 *)

(* A write that changed nothing ends; "kept" and "busy" only where nothing *)
(* of it is in the event.                                                  *)
LEMMA EndsAsIs ==
  ASSUME WritesInv, job.at # "none", NEW what, EndsAs(what),
         what \in {"kept", "busy"} => Absent, what # "saved"
  PROVE  Right
<1>1. /\ job' = NoWrite /\ claimed' = FALSE
         /\ UNCHANGED <<event, late, session, mirrored, held, asked>> /\ said'.what = what
      /\ undo' = undo \/ (job.kind = "undo" /\ undo' = [was |-> job.puts, left |-> job.saw])
  BY DEF EndsAs, Tells, atGoogle
<1>2. undo' \in [was : Some, left : Some] /\ Differ(undo'.was, undo'.left)
  <2>1. undo \in [was : Some, left : Some] /\ Differ(undo.was, undo.left)
    BY DEF WritesInv, WritesTyped, Differs
  <2>2. job.puts \in Some /\ job.saw \in Some
    BY DEF WritesInv, WritesTyped, Jobs
  <2>3. job.kind = "undo" => Differ(job.puts, job.saw)
    BY DEF WritesInv, Differs
  <2> QED
    BY <1>1, <2>1, <2>2, <2>3
<1>3. Ended
  BY <1>1, <1>2 DEF Ended, WritesInv, WritesTyped
<1>4. WritesInv'
  BY <1>1, <1>3, EndsKeeps
<1>5. TellsTrue
  BY <1>1 DEF TellsTrue, IsIn, Absent
<1> QED
  BY <1>1, <1>4, <1>5, NothingLands DEF Right

(* The same, where Google's copy goes into the mirror.                     *)
LEMMA EndsShowingIs ==
  ASSUME WritesInv, job.at # "none", NEW what, EndsShowing(what),
         what \in {"kept", "busy"} => Absent, what # "saved"
  PROVE  Right
<1>1. /\ job' = NoWrite /\ claimed' = FALSE /\ UNCHANGED <<event, late, session, held, asked>>
         /\ said'.what = what
      /\ \/ UNCHANGED <<mirrored, undo>>
         \/ mirrored' = [there |-> event.there, holds |-> event.holds] /\ undo' = NoUndo
  BY DEF EndsShowing, Tells, atGoogle, LandsHere
<1>2. undo' \in [was : Some, left : Some] /\ Differ(undo'.was, undo'.left)
  BY <1>1, Empties DEF WritesInv, WritesTyped, Differs, NoUndo
<1>3. mirrored' \in [there : BOOLEAN, holds : Whole]
  BY <1>1 DEF WritesInv, WritesTyped
<1>4. Ended
  BY <1>1, <1>2, <1>3 DEF Ended, WritesInv, WritesTyped
<1>5. WritesInv'
  BY <1>1, <1>4, EndsKeeps
<1>6. TellsTrue
  BY <1>1 DEF TellsTrue, IsIn, Absent
<1> QED
  BY <1>1, <1>5, <1>6, NothingLands DEF Right

(* A write that is in the event ends.  Its Undo puts back what it changed, *)
(* which differs from what it left.                                        *)
LEMMA EndsSavedIs ==
  ASSUME WritesInv, job.at # "none", NEW what, EndsSaved(what),
         event'.there \in BOOLEAN, event'.holds \in Whole, what \in {"saved", "partly"},
         what = "saved" => InGoogle(job)
  PROVE  Ended /\ TellsTrue
<1>1. /\ job' = NoWrite /\ claimed' = FALSE /\ UNCHANGED <<held, asked>> /\ said'.what = what
         /\ session' = Rebased
      /\ \/ UNCHANGED <<mirrored, undo>>
         \/ mirrored' = [there |-> event'.there, holds |-> event'.holds] /\ undo' = NoUndo
         \/ /\ CanUndo(what) /\ mirrored' = [there |-> TRUE, holds |-> event'.holds]
            /\ undo' = [was |-> job.sent.saw, left |-> Only(DOMAIN job.sent.puts, event'.holds)]
  BY DEF EndsSaved, Tells, LandsHere
<1>2. mirrored' \in [there : BOOLEAN, holds : Whole]
  <2>1. mirrored \in [there : BOOLEAN, holds : Whole]
    BY DEF WritesInv, WritesTyped
  <2>2. [there |-> event'.there, holds |-> event'.holds] \in [there : BOOLEAN, holds : Whole]
    OBVIOUS
  <2>3. [there |-> TRUE, holds |-> event'.holds] \in [there : BOOLEAN, holds : Whole]
    OBVIOUS
  <2> QED
    BY <1>1, <2>1, <2>2, <2>3, Zenon
<1>3. job.sent.puts \in Some /\ job.sent.saw \in Some
  BY DEF WritesInv, WritesTyped, Jobs
<1> DEFINE now == Only(DOMAIN job.sent.puts, event'.holds)
<1>4. now \in Some /\ DOMAIN now = DOMAIN job.sent.puts
      /\ \A f \in DOMAIN job.sent.puts : now[f] = event'.holds[f]
  <2>1. DOMAIN job.sent.puts \subseteq Fields /\ event'.holds \in Some
        /\ DOMAIN event'.holds = Fields
    BY <1>3, SomeIs
  <2> QED
    BY <2>1, SomeIs DEF Only
<1>5. session' \in Whole \cup {NoFields}
  <2>1. CASE job.kind = "save"
    <3>1. session \in Whole
      BY <2>1 DEF WritesInv, OneAtATime, WritesTyped
    <3> QED
      BY <1>1, <1>4, <2>1, <3>1, SomeIs DEF Rebased
  <2>2. CASE job.kind # "save"
    BY <1>1, <2>2 DEF Rebased, WritesInv, WritesTyped
  <2> QED
    BY <2>1, <2>2
<1>6. undo' \in [was : Some, left : Some] /\ Differ(undo'.was, undo'.left)
  <2>1. CASE UNCHANGED undo \/ undo' = NoUndo
    BY <2>1, Empties DEF WritesInv, WritesTyped, Differs, NoUndo
  <2>2. CASE CanUndo(what) /\ undo' = [was |-> job.sent.saw, left |-> now]
    <3>1. Differ(job.sent.puts, job.sent.saw)
          /\ \A f \in DOMAIN job.sent.puts : event'.holds[f] = job.sent.puts[f]
      BY <2>2 DEF CanUndo, WritesInv, Differs, InGoogle
    <3>2. Differ(job.sent.saw, now)
      BY <1>4, <3>1 DEF Differ
    <3> QED
      BY <1>3, <1>4, <2>2, <3>2
  <2> QED
    BY <1>1, <2>1, <2>2
<1>7. Ended
  BY <1>1, <1>2, <1>5, <1>6 DEF Ended
<1>8. TellsTrue
  BY <1>1 DEF TellsTrue
<1> QED
  BY <1>7, <1>8

(* Turning to a second round, or to showing Google's copy, where nothing   *)
(* of the write is in the event or on its way there.                       *)
LEMMA TurnIs ==
  ASSUME WritesInv, NEW at \in {"read", "show"}, NextTo(at), job.at \in {"sent", "look"},
         NotIn(job.n)
  PROVE  Right
<1>1. UNCHANGED <<event, said>>
  BY DEF NextTo, atGoogle
<1> QED
  BY <1>1, TurnsKeeps, Unmoved

(* A trusted answer.                                                       *)
LEMMA ComesIs ==
  ASSUME WritesInv, job.at \in {"sent", "look"}, NEW v \in Verdicts, Comes(v),
         UNCHANGED atGoogle, Absent,
         v = "conflict" => NotIn(job.n), v = "gone" /\ job.kind = "delete" => ~event.there
  PROVE  Right
<1>1. CASE v = "conflict" /\ job.round = 1 /\ NextTo("read")
  BY <1>1, TurnIs
<1>2. CASE v = "conflict" /\ job.round = 2 /\ job.kind \in {"save", "delete"} /\ EndsAs("kept")
  BY <1>2, EndsAsIs
<1>3. CASE v = "conflict" /\ job.round = 2 /\ job.kind \in {"move", "undo"} /\ NextTo("show")
  BY <1>3, TurnIs
<1>4. CASE v = "gone" /\ job.kind = "delete" /\ UNCHANGED atGoogle /\ EndsSaved("saved")
  <2>1. UNCHANGED <<event, late>> /\ ~event'.there /\ event'.there \in BOOLEAN
        /\ event'.holds \in Whole
    BY <1>4 DEF atGoogle, WritesInv, WritesTyped
  <2>2. Ended /\ TellsTrue
    BY <1>4, <2>1, EndsSavedIs DEF InGoogle
  <2> QED
    BY <2>1, <2>2, EndsKeeps, NothingLands DEF Right
<1>5. CASE v = "gone" /\ job.kind # "delete" /\ EndsShowing("gone")
  BY <1>5, EndsShowingIs
<1>6. CASE v = "busy" /\ EndsAs("busy")
  BY <1>6, EndsAsIs
<1>7. CASE v = "refused" /\ EndsAs("kept")
  BY <1>7, EndsAsIs
<1> QED
  BY <1>1, <1>2, <1>3, <1>4, <1>5, <1>6, <1>7 DEF Comes

(* An answer that can't be trusted leads to a look.                        *)
LEMMA WillLookIs ==
  ASSUME WritesInv, job.at = "sent", NEW v \in Verdicts \cup {"lost"},
         v = "gone" => job.kind # "delete",
         v = "conflict" => ~Accepts(CopyOf(job)) /\ event.there,
         WillLook(v), MayLandLate(CopyOf(job)) \/ UNCHANGED atGoogle
  PROVE  Right
<1>1. UNCHANGED <<event, said>>
  BY DEF WillLook, MayLandLate, atGoogle
<1> QED
  BY <1>1, WillLookKeeps, Unmoved

LEMMA NotInIsAbsent ==
  ASSUME NotIn(job.n)
  PROVE  Absent
  BY DEF NotIn, Absent

(* A reading of Google's copy: nothing of the write is there yet.          *)
LEMMA ReadsIs ==
  ASSUME WritesInv, Reads
  PROVE  Right
<1>1. job.at = "read" /\ NotIn(job.n) /\ Absent
  BY NotInIsAbsent DEF Reads, WritesInv, NotYet
<1>2. CASE ReadReady
  <2>1. UNCHANGED <<event, said>>
    BY <1>2 DEF ReadReady, GoesOut, atGoogle
  <2> QED
    BY <1>1, <1>2, <2>1, GoesOutKeeps, Unmoved
<1>3. CASE ReadFails
  BY <1>1, <1>3, EndsAsIs DEF ReadFails
<1>4. CASE ReadGone
  BY <1>1, <1>4, EndsShowingIs DEF ReadGone
<1>5. CASE ReadRefused
  BY <1>1, <1>5, EndsAsIs, EndsShowingIs DEF ReadRefused
<1>6. CASE ReadNothing
  BY <1>1, <1>6, EndsAsIs DEF ReadNothing
<1>7. CASE ReadChanged
  BY <1>1, <1>7, EndsAsIs, EndsShowingIs DEF ReadChanged
<1> QED
  BY <1>2, <1>3, <1>4, <1>5, <1>6, <1>7 DEF Reads

(* An answer without a success: believed where no earlier attempt may have *)
(* been applied, or where a delete finds nothing to delete.                *)
LEMMA HearsIs ==
  ASSUME WritesInv, job.at = "sent", NEW v \in Verdicts, Hears(v), UNCHANGED atGoogle,
         v = "conflict" => ~Accepts(CopyOf(job)) /\ event.there, v = "gone" => ~event.there
  PROVE  Right
<1>1. CASE job.maybe /\ ~(v = "gone" /\ job.kind = "delete")
  BY <1>1, WillLookIs DEF Hears
<1>2. CASE ~job.maybe
  <2>1. NotIn(job.n) /\ Absent
    BY <1>2, NotInIsAbsent DEF WritesInv, NotYet
  <2> QED
    BY <1>2, <2>1, ComesIs DEF Hears
<1>3. CASE job.maybe /\ v = "gone" /\ job.kind = "delete"
  <2>1. EndsSaved("saved")
    BY <1>3 DEF Hears, Comes
  <2>2. UNCHANGED <<event, late>> /\ ~event'.there /\ event'.there \in BOOLEAN
        /\ event'.holds \in Whole
    BY <1>3 DEF atGoogle, WritesInv, WritesTyped
  <2>3. Ended /\ TellsTrue
    BY <1>3, <2>1, <2>2, EndsSavedIs DEF InGoogle
  <2> QED
    BY <2>2, <2>3, EndsKeeps, NothingLands DEF Right
<1> QED
  BY <1>1, <1>2, <1>3

(* A second attempt, where the first may have been applied or not.         *)
LEMMA RetryIs ==
  ASSUME WritesInv, job.at = "sent", NEW maybe \in BOOLEAN, job.maybe => maybe,
         job' = [job EXCEPT !.attempt = 2, !.maybe = maybe],
         (maybe /\ MayLandLate(CopyOf(job))) \/ UNCHANGED <<event, late>>,
         UNCHANGED <<shown, claimed, held, asked, said>>
  PROVE  Right
<1>1. UNCHANGED <<event, said>>
  BY DEF MayLandLate
<1> QED
  BY <1>1, RetriesKeeps, Unmoved

(* Google takes the request: what it lands on is what the user saw, since  *)
(* the etag was read with it.                                              *)
LEMMA TakenIs ==
  ASSUME WritesInv, job.at = "sent", Taken
  PROVE  Right
<1>0. WritesTyped
  BY DEF WritesInv
<1>1. CopyOf(job) \in CopiesOut /\ CopyOf(job).n = job.n /\ CopyOf(job).kind = job.kind
      /\ CopyOf(job).puts = job.sent.puts /\ CopyOf(job).saw = job.sent.saw
         /\ CopyOf(job).tag = job.tag
  BY <1>0 DEF WritesInv, OneAtATime, WritesTyped, Jobs, CopyOf, CopiesOut
<1>2. Takes(CopyOf(job)) /\ Accepts(CopyOf(job)) /\ EndsSaved("saved")
  BY DEF Taken, Takes
<1>3. /\ event'
           \in [there : BOOLEAN, holds : Whole, etag : Nat,
                who : [Fields \cup {"there"} -> UpTo(asked)]]
      /\ event'.there = (job.kind # "delete")
      /\ event'.who["there"] = IF job.kind = "delete" THEN job.n ELSE event.who["there"]
      /\ \A f \in Fields :
           /\ event'.who[f] = IF f \in DOMAIN job.sent.puts THEN job.n ELSE event.who[f]
           /\ event'.holds[f] = IF f \in DOMAIN job.sent.puts THEN job.sent.puts[f] ELSE event.holds[f]
  <2>1. CopyOf(job).n \in UpTo(asked) /\ CopyOf(job).puts \in Some
    BY <1>1 DEF CopiesOut
  <2>2. /\ CopyOf(job).kind = job.kind /\ CopyOf(job).n = job.n
           /\ CopyOf(job).puts = job.sent.puts
        /\ Takes(CopyOf(job))
    BY <1>1, <1>2
  <2>3. /\ event'
             \in [there : BOOLEAN, holds : Whole, etag : Nat,
                  who : [Fields \cup {"there"} -> UpTo(asked)]]
        /\ event'.there = (CopyOf(job).kind # "delete")
        /\ event'.who["there"] = IF CopyOf(job).kind = "delete" THEN CopyOf(job).n ELSE event.who["there"]
        /\ \A f \in Fields :
             /\ event'.who[f] = IF f \in DOMAIN CopyOf(job).puts THEN CopyOf(job).n ELSE event.who[f]
             /\ event'.holds[f] = IF f \in DOMAIN CopyOf(job).puts THEN CopyOf(job).puts[f] ELSE event.holds[f]
    BY <1>0, <2>1, <2>2, Landed
  <2> QED
    BY <2>2, <2>3
<1>4. InGoogle(job)
  BY <1>1, <1>3, SomeIs DEF InGoogle, CopiesOut
<1>5. Ended /\ TellsTrue
  BY <1>2, <1>3, <1>4, EndsSavedIs
<1>6. WritesInv'
  BY <1>2, <1>5, EndsTakenKeeps
<1>7. \A f \in DOMAIN CopyOf(job).saw : event.holds[f] = CopyOf(job).saw[f]
  BY <1>1, <1>2 DEF WritesInv, JobSeen, Accepts
<1>8. \A c \in late : \A f \in DOMAIN c.saw : event.holds[f] = c.saw[f]
  BY DEF WritesInv, LateSeen
<1>9. LandsSeen
  BY <1>7, <1>8 DEF LandsSeen, LandsOnSeen
<1> QED
  BY <1>5, <1>6, <1>9 DEF Right

(* All answers.                                                            *)
LEMMA AnswersIs ==
  ASSUME WritesInv, AnswerComes
  PROVE  Right
<1>1. job.at = "sent" /\ job.maybe \in BOOLEAN
  BY DEF AnswerComes, WritesInv, WritesTyped, Jobs
<1>2. CASE NeverWent
  <2>1. ~job.maybe => Absent
    BY <1>1, NotInIsAbsent DEF WritesInv, NotYet
  <2> QED
    BY <1>1, <1>2, <2>1, WillLookIs, EndsAsIs DEF NeverWent
<1>3. CASE NoAnswer
  BY <1>1, <1>3, WillLookIs DEF NoAnswer
<1>4. CASE ServerError
  BY <1>1, <1>4, WillLookIs, RetryIs DEF ServerError, Verdicts
<1>5. CASE RateLimit
  <2>1. job' = [job EXCEPT !.attempt = 2, !.maybe = job.maybe]
    BY <1>5 DEF RateLimit, WritesInv, WritesTyped, Jobs
  <2> QED
    BY <1>1, <1>5, <2>1, RetryIs DEF RateLimit, atGoogle
<1>6. CASE Refusal
  <2>1. PICK v \in {"busy", "refused"} : Hears(v)
    BY <1>6 DEF Refusal
  <2>2. CASE job.maybe
    BY <1>1, <2>1, <2>2, WillLookIs DEF Hears, Verdicts
  <2>3. CASE ~job.maybe
    <3>1. Absent
      BY <1>1, <2>3, NotInIsAbsent DEF WritesInv, NotYet
    <3> QED
      BY <1>1, <2>1, <2>3, <3>1, EndsAsIs DEF Hears, Comes
  <2> QED
    BY <1>1, <2>2, <2>3
<1>7. CASE Taken
  BY <1>1, <1>7, TakenIs
<1>8. CASE NotTaken
  <2>1. UNCHANGED atGoogle
    BY <1>8 DEF NotTaken, Hears, Comes, NextTo, EndsAs, EndsShowing
  <2>2. CASE event.there
    BY <1>1, <1>8, <2>1, <2>2, HearsIs DEF NotTaken, Verdicts
  <2>3. CASE ~event.there
    BY <1>1, <1>8, <2>1, <2>3, HearsIs DEF NotTaken, Verdicts
  <2> QED
    BY <2>2, <2>3
<1> QED
  BY <1>2, <1>3, <1>4, <1>5, <1>6, <1>7, <1>8 DEF AnswerComes

(* A look that does not find the write: there is nothing of it, and after  *)
(* a conflict nothing of it can come either.                               *)
LEMMA NotThereIs ==
  ASSUME WritesInv, job.at = "look", NotThere, Absent
  PROVE  Right
<1>1. CASE job.heard = "lost"
  BY <1>1, EndsAsIs DEF NotThere
<1>2. CASE job.heard # "lost"
  <2>1. Comes(job.heard) /\ job.heard \in Verdicts
    BY <1>2 DEF NotThere, WritesInv, JobSeen, WritesTyped, Jobs
  <2>2. job.heard = "gone" => job.kind # "delete"
    BY DEF WritesInv, JobSeen
  <2>3. UNCHANGED atGoogle
    BY <2>1 DEF Comes, NextTo, EndsAs, EndsShowing
  <2>4. job.heard = "conflict" => NotIn(job.n)
    <3>1. SUFFICES ASSUME job.heard = "conflict", NEW c \in late, c.n = job.n
                   PROVE  FALSE
      BY DEF NotIn, Absent
    <3>2. c.tag = job.tag /\ c.tag = event.etag
      BY <3>1 DEF WritesInv, LateIsOfJob, LateSeen, Accepts, CopyOf
    <3> QED
      BY <3>1, <3>2 DEF WritesInv, JobSeen
  <2> QED
    BY <2>1, <2>2, <2>3, <2>4, ComesIs
<1> QED
  BY <1>1, <1>2

(* A look that finds it, whole or in part.                                 *)
LEMMA IsThereIs ==
  ASSUME WritesInv, job.at = "look", NEW what \in {"saved", "partly"}, IsThere(what),
         what = "saved" => InGoogle(job)
  PROVE  Right
<1>1. UNCHANGED <<event, late>> /\ EndsSaved(what)
  BY DEF IsThere, atGoogle
<1>2. event'.there \in BOOLEAN /\ event'.holds \in Whole
  BY <1>1 DEF WritesInv, WritesTyped
<1>3. Ended /\ TellsTrue
  BY <1>1, <1>2, EndsSavedIs
<1> QED
  BY <1>1, <1>3, EndsKeeps, NothingLands DEF Right

(* The look: a field that the write set shows it, since the write changes  *)
(* every field it sets.                                                    *)
LEMMA LooksIs ==
  ASSUME WritesInv, Looks
  PROVE  Right
<1>1. job.at = "look" /\ job.n # 0 /\ event.there \in BOOLEAN
  BY DEF Looks, WritesInv, OneAtATime, WritesTyped
<1>2. CASE EndsAs("unconfirmed")
  BY <1>1, <1>2, EndsAsIs
<1>3. CASE LookDelete
  <2>1. CASE event.there
    <3>1. Absent
      BY <1>1, <1>3, <2>1, Empties DEF LookDelete, Absent, WritesInv, GoneForGood, Wrote, Differs
    <3> QED
      BY <1>1, <1>3, <2>1, <3>1, NotThereIs DEF LookDelete
  <2>2. CASE ~event.there
    <3>1. IsThere("saved") /\ InGoogle(job)
      BY <1>3, <2>2 DEF LookDelete, IsThere, atGoogle, InGoogle
    <3> QED
      BY <1>1, <3>1, IsThereIs
  <2> QED
    BY <2>1, <2>2
<1>4. CASE LookChange
  <2>1. job.kind # "delete" /\ event.there
    BY <1>4 DEF LookChange
  <2>2. CASE ShowsAll(job.sent.puts)
    <3>1. IsThere("saved") /\ InGoogle(job)
      BY <1>4, <2>1, <2>2 DEF LookChange, IsThere, atGoogle, InGoogle, ShowsAll
    <3> QED
      BY <1>1, <3>1, IsThereIs
  <2>3. CASE ~ShowsAll(job.sent.puts) /\ ShowsSome
    BY <1>1, <1>4, <2>3, IsThereIs DEF LookChange
  <2>4. CASE ~ShowsAll(job.sent.puts) /\ ~ShowsSome
    <3>1. Differ(job.sent.puts, job.sent.saw)
      BY <2>1 DEF WritesInv, Differs
    <3>2. Absent
      BY <1>1, <2>1, <2>4, <3>1 DEF Absent, ShowsSome, Differ, WritesInv, Wrote
    <3> QED
      BY <1>1, <1>4, <2>4, <3>2, NotThereIs DEF LookChange
  <2> QED
    BY <2>2, <2>3, <2>4
<1>5. CASE LookGone
  <2>1. Absent
    BY <1>1, <1>5 DEF LookGone, Absent, WritesInv, Wrote
  <2> QED
    BY <1>1, <1>5, <2>1, NotThereIs, EndsShowingIs DEF LookGone
<1> QED
  BY <1>2, <1>3, <1>4, <1>5 DEF Looks

(* Showing the conflict.                                                   *)
LEMMA ShowsIs ==
  ASSUME WritesInv, ShowsConflict
  PROVE  Right
<1>1. job.at = "show" /\ Absent
  BY NotInIsAbsent DEF ShowsConflict, WritesInv, NotYet
<1>2. CASE EndsAs("kept")
  BY <1>1, <1>2, EndsAsIs
<1>3. CASE EndsShowing("kept")
  BY <1>1, <1>3, EndsShowingIs
<1>4. CASE EndsShowing("gone")
  BY <1>1, <1>4, EndsShowingIs
<1> QED
  BY <1>2, <1>3, <1>4 DEF ShowsConflict

(* A save, a move and an Undo differ from what their user saw.             *)
LEMMA AsksIs ==
  ASSUME WritesInv, SaveEvent \/ MoveEvent \/ UndoChange
  PROVE  Right
<1>0. WritesTyped
  BY DEF WritesInv
<1>1. UNCHANGED event /\ said' = Unsaid
  BY DEF SaveEvent, MoveEvent, UndoChange, StartsWrite, Asks, atGoogle
<1>2. CASE SaveEvent
  <2>1. session # NoFields /\ session \in Whole
    BY <1>0, <1>2 DEF SaveEvent, WritesTyped
  <2>2. PICK puts \in UNION {[F -> Typed] : F \in SUBSET Fields \ {{}}} :
          /\ \A f \in DOMAIN puts : puts[f] # session[f]
          /\ StartsWrite("save", puts, Only(DOMAIN puts, session))
    BY <1>2 DEF SaveEvent
  <2>3. puts \in Some
    BY <2>2 DEF Some, FieldValues
  <2>4. DOMAIN puts \subseteq Fields /\ DOMAIN session = Fields /\ session \in Some
    BY <2>1, <2>3, SomeIs
  <2>5. Only(DOMAIN puts, session) \in Some /\ Differ(puts, Only(DOMAIN puts, session))
    BY <2>2, <2>4, SomeIs DEF Differ, Only
  <2>6. WritesInv'
    BY <1>2, <2>1, <2>2, <2>3, <2>5, StartsWriteKeeps DEF SaveEvent, shown, Kinds
  <2> QED
    BY <1>1, <2>6, Unmoved
<1>3. CASE MoveEvent
  <2>1. mirrored.holds \in Whole
    BY <1>0 DEF WritesTyped
  <2>2. PICK v \in Typed \ {mirrored.holds["time"]} :
          StartsWrite("move", [f \in {"time"} |-> v], Only({"time"}, mirrored.holds))
    BY <1>3 DEF MoveEvent
  <2>3. mirrored.holds \in Some /\ {"time"} \subseteq DOMAIN mirrored.holds
        /\ {"time"} \in SUBSET Fields
    BY <2>1, SomeIs DEF Fields
  <2>4. [f \in {"time"} |-> v] \in Some
    BY <2>2, <2>3 DEF Some, FieldValues
  <2>5. Only({"time"}, mirrored.holds) \in Some
    BY <2>3, SomeIs
  <2>6. Differ([f \in {"time"} |-> v], Only({"time"}, mirrored.holds))
    BY <2>2 DEF Differ, Only
  <2>7. WritesInv'
    BY <1>3, <2>2, <2>4, <2>5, <2>6, StartsWriteKeeps DEF MoveEvent, shown, Kinds
  <2> QED
    BY <1>1, <2>7, Unmoved
<1>4. CASE UndoChange
  <2>1. undo.was \in Some /\ undo.left \in Some /\ Differ(undo.was, undo.left)
    BY <1>0 DEF WritesTyped, WritesInv, Differs
  <2>2. WritesInv'
    BY <1>4, <2>1, StartsWriteKeeps DEF UndoChange, Kinds
  <2> QED
    BY <1>1, <2>2, Unmoved
<1> QED
  BY <1>2, <1>3, <1>4

(* What the user has before them, and a step of nobody.                    *)
LEMMA ViewsIs ==
  ASSUME WritesInv, Synced \/ OpenEditor \/ UndoLapses \/ UNCHANGED writesVars
  PROVE  Right
<1>1. /\ UNCHANGED <<event, late, claimed, job, hold, heldEntry, quitting, letGo, asked>>
      /\ said' = said /\ undo' \in {undo, NoUndo}
  BY DEF Synced, OpenEditor, UndoLapses, writesVars, atGoogle, shown, held
<1>2. mirrored' = [there |-> event.there, holds |-> event.holds] \/ mirrored' = mirrored
  BY DEF Synced, OpenEditor, UndoLapses, writesVars, shown
<1>3. session' \in {session, event.holds}
  BY DEF Synced, OpenEditor, UndoLapses, writesVars, shown
<1>4. mirrored' \in [there : BOOLEAN, holds : Whole] /\ session' \in Whole \cup {session}
  BY <1>2, <1>3 DEF WritesInv, WritesTyped
<1>5. WritesInv'
  BY <1>1, <1>4, ViewsKeeps
<1> QED
  BY <1>1, <1>5, Unmoved

(* A late copy lands on what its user saw.                                 *)
LEMMA LandsIs ==
  ASSUME WritesInv, LandsLate
  PROVE  Right
<1>0. WritesTyped
  BY DEF WritesInv
<1>1. PICK c \in late : Takes(c)
  BY DEF LandsLate
<1>2. c \in CopiesOut
  BY <1>0 DEF WritesTyped
<1>3. DOMAIN event.who = Fields \cup {"there"}
  BY <1>0 DEF WritesTyped
<1>4. \A f \in DOMAIN event.who : event'.who[f] \in {c.n, event.who[f]}
  BY <1>0, <1>1, <1>2, <1>3, Landed DEF CopiesOut
<1>5. \A w \in late : \A f \in DOMAIN w.saw : event.holds[f] = w.saw[f]
  BY DEF WritesInv, LateSeen
<1>6. LandsOnSeen(CopyOf(job))
  <2>1. SUFFICES ASSUME NEW f \in DOMAIN event.who, event.who[f] # CopyOf(job).n,
                        event'.who[f] = CopyOf(job).n
                 PROVE  \A g \in DOMAIN CopyOf(job).saw : event.holds[g] = CopyOf(job).saw[g]
    BY DEF LandsOnSeen
  <2>2. c.n = job.n
    BY <1>4, <2>1 DEF CopyOf
  <2>3. c = CopyOf(job)
    BY <2>2 DEF WritesInv, LateIsOfJob
  <2> QED
    BY <1>5, <2>3
<1>7. LandsSeen
  BY <1>5, <1>6 DEF LandsSeen, LandsOnSeen
<1>8. WritesInv' /\ said' = said
  BY LandsLateKeeps DEF LandsLate
<1> QED
  BY <1>7, <1>8 DEF Right, TellsTrue

(* Another client's change lands nothing of PM's.                          *)
LEMMA OthersIs ==
  ASSUME WritesInv, OthersChange
  PROVE  Right
<1>0. WritesTyped
  BY DEF WritesInv
<1>1. WritesInv' /\ said' = said
  BY OthersChangeKeeps DEF OthersChange
<1>2. \A f \in DOMAIN event.who : event'.who[f] \in {0, event.who[f]}
  <2>1. CASE event' = [event EXCEPT !.there = FALSE]
    BY <1>0, <2>1 DEF WritesTyped
  <2>2. ASSUME NEW f \in Fields, NEW v \in FieldValues,
               event' = [event EXCEPT !.holds[f] = v, !.who[f] = 0, !.etag = @ + 1]
        PROVE  \A g \in DOMAIN event.who : event'.who[g] \in {0, event.who[g]}
    <3>1. event'.who = [event.who EXCEPT ![f] = 0]
      BY <1>0, <2>2 DEF WritesTyped
    <3> QED
      BY <3>1
  <2> QED
    BY <2>1, <2>2 DEF OthersChange
<1>3. CopyOf(job).n = job.n /\ CopyOf(job).saw = job.sent.saw
  BY DEF CopyOf
<1>4. LandsOnSeen(CopyOf(job))
  <2>1. CASE job.n # 0
    BY <1>2, <1>3, <2>1 DEF LandsOnSeen
  <2>2. CASE job.n = 0
    <3>1. job.at = "none"
      BY <2>2 DEF WritesInv, OneAtATime
    <3>2. job.sent.saw = NoFields
      BY <1>0, <3>1, NoWriteIs DEF WritesInv, OneAtATime, WritesTyped
    <3> QED
      BY <1>3, <3>2, Empties DEF LandsOnSeen
  <2> QED
    BY <2>1, <2>2
<1>5. \A c \in late : c.n # 0
  BY <1>0 DEF WritesTyped, CopiesOut
<1>6. LandsSeen
  BY <1>2, <1>4, <1>5 DEF LandsSeen, LandsOnSeen
<1> QED
  BY <1>1, <1>6 DEF Right, TellsTrue

(* The held delete, and quitting.                                          *)
LEMMA HoldsIs ==
  ASSUME WritesInv,
         DeleteEvent \/ CancelDelete \/ BeginQuit \/ EndQuit \/ TimerEnds \/ Woken \/ TakesEntry
  PROVE  Right
<1>1. UNCHANGED event /\ said' \in {said, Unsaid}
  BY DEF DeleteEvent, CancelDelete, BeginQuit, EndQuit, TimerEnds, Woken, TakesEntry, LetsGo,
         SendsHeld, Asks, MayLandLate, atGoogle
<1>2. WritesInv'
  <2>1. CASE DeleteEvent
    BY <2>1, DeleteEventKeeps
  <2>2. CASE CancelDelete \/ BeginQuit
    <3>1. Dropped /\ UNCHANGED <<event, late, mirrored, session, undo, claimed, job, hold, asked>>
      BY <2>2 DEF CancelDelete, BeginQuit, atGoogle, shown
    <3>2. quitting' \in BOOLEAN
      BY <2>2 DEF CancelDelete, BeginQuit, WritesInv, WritesTyped
    <3> QED
      BY <3>1, <3>2, DropsKeeps
  <2>3. CASE EndQuit
    BY <2>3, EndQuitKeeps
  <2>4. CASE TimerEnds
    BY <2>4, TimerEndsKeeps
  <2>5. CASE Woken
    BY <2>5, LetsGoKeeps DEF Woken
  <2>6. CASE TakesEntry
    BY <2>6, LetsGoKeeps, SendsHeldKeeps DEF TakesEntry
  <2> QED
    BY <2>1, <2>2, <2>3, <2>4, <2>5, <2>6
<1> QED
  BY <1>1, <1>2, Unmoved

(* At first nothing is under way.                                          *)
LEMMA WritesAtFirst == WritesInit => WritesInv
<1> SUFFICES ASSUME WritesInit PROVE WritesInv
  OBVIOUS
<1>1. asked = 0 /\ 0 \in UpTo(asked) /\ "there" \notin Fields
  BY DEF WritesInit, UpTo, Fields
<1>2. /\ job.at = "none" /\ job = NoWrite /\ job \in Jobs /\ job.n = 0 /\ job.kind = "none"
         /\ job.heard = "none"
      /\ job.puts = NoFields /\ job.saw = NoFields /\ job.sent = NothingSent
         /\ job.sent.puts = NoFields
      /\ job.sent.saw = NoFields
  BY <1>1, NoWriteIs DEF WritesInit
<1>3. /\ event.there = TRUE /\ event.holds \in Whole /\ event.etag = 0
      /\ event.who \in [Fields \cup {"there"} -> UpTo(asked)] /\ event.who["there"] = 0
         /\ late = {} /\ letGo = {}
  BY <1>1 DEF WritesInit, Whole, FieldValues, Typed
<1>4. hold.at = "none" /\ hold \in [at : {"none", "waiting", "due"}, n : UpTo(asked), saw : Some]
      /\ heldEntry = 0
  BY <1>1, Empties DEF WritesInit, NoHold
<1>5. undo \in [was : Some, left : Some] /\ undo.was = NoFields /\ undo.left = NoFields
  BY Empties DEF WritesInit, NoUndo
<1>6. WritesTyped
  <2>1. event
          \in [there : BOOLEAN, holds : Whole, etag : Nat,
               who : [Fields \cup {"there"} -> UpTo(asked)]]
    BY <1>3 DEF WritesInit
  <2>2. mirrored \in [there : BOOLEAN, holds : Whole]
    BY <1>3 DEF WritesInit
  <2> QED
    BY <1>1, <1>2, <1>3, <1>4, <1>5, <2>1, <2>2 DEF WritesInit, WritesTyped
<1>7. OneAtATime /\ NotYet
  BY <1>2, <1>4 DEF OneAtATime, NotYet
<1>8. LateSeen /\ LateIsOfJob /\ JobSeen
  BY <1>2, <1>3 DEF LateSeen, LateIsOfJob, JobSeen
<1>9. Differs
  BY <1>2, <1>5, Empties DEF Differs
<1>10. GoneForGood /\ Wrote /\ LetGoIsKept
  BY <1>2, <1>3 DEF GoneForGood, Wrote, LetGoIsKept
<1> QED
  BY <1>6, <1>7, <1>8, <1>9, <1>10 DEF WritesInv

(* Every step.                                                             *)
LEMMA StepIsRight ==
  ASSUME WritesInv, [WritesNext]_writesVars
  PROVE  Right
  BY ReadsIs, AnswersIs, LooksIs, ShowsIs, AsksIs, ViewsIs, LandsIs, OthersIs, HoldsIs
    DEF WritesNext, WritesMachine

-----------------------------------------------------------------------------
(* At every step of the user, of PM, of Google and of its other clients    *)
(* the invariant holds, types included, for any number of writes and       *)
(* changes.                                                                *)
THEOREM WritesInvariant == WritesSpec => []WritesInv
<1>1. WritesInv /\ [WritesNext]_writesVars => WritesInv'
  BY StepIsRight DEF Right
<1> QED
  BY <1>1, WritesAtFirst, PTL DEF WritesSpec

(* A delete whose Undo was answered true, or that PM dropped as it quit,   *)
(* is not sent, neither under way nor on its way nor in the event.         *)
THEOREM LetGoIsKeptSafe == WritesSpec => []LetGoIsKept
<1>1. WritesInv => LetGoIsKept
  BY DEF WritesInv
<1> QED
  BY <1>1, WritesInvariant, PTL

(* What lands of PM's, at once or after its answer was lost, lands on what *)
(* the user saw of the fields it rests on.                                 *)
THEOREM NothingUnseenSafe == WritesSpec => NothingUnseen
<1>1. WritesInv /\ [WritesNext]_writesVars => [LandsSeen]_writesVars
  BY StepIsRight DEF Right
<1> QED
  BY <1>1, WritesInvariant, PTL DEF WritesSpec, NothingUnseen, LandsSeen

(* "Saved" is said only of what is in Google, and "nothing changed" or     *)
(* "busy" only of a write that left nothing there, whatever answers were   *)
(* lost, doubled or late (a copy that lands after the answer is another    *)
(* matter).                                                                *)
THEOREM ToldIsSoSafe == WritesSpec => ToldIsSo
<1>1. WritesInv /\ [WritesNext]_writesVars => [TellsTrue]_writesVars
  BY StepIsRight DEF Right
<1> QED
  BY <1>1, WritesInvariant, PTL DEF WritesSpec, ToldIsSo, TellsTrue
=============================================================================
